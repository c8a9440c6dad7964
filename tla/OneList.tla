------------------------------ MODULE OneList ------------------------------
(***************************************************************************)
(* project2a/lab2_list.c and its successor project2b/lab2a_list.c: the     *)
(* threads of Lab2List on one list with one lock.  The list operations and *)
(* their steps are those of Lab2List; runner and main are their own.       *)
(***************************************************************************)
EXTENDS Lab2List

ASSUME OneListAssumption == \A size \in Sizes : size[3] = 1

VARIABLE program    \* "lab2_list" or "lab2a_list"

oneVars == <<vars, program>>

\* lab2a_list measures the wait for the mutex; nobody that for the spin lock.
Measured == program = "lab2a_list" /\ my_lock = "m"

OneInit == Init /\ program \in {"lab2_list", "lab2a_list"}

-----------------------------------------------------------------------------
(* runner.                                                                 *)

\* Only lab2a_list works out its my_tid, by a division.
OneStart(t) ==
    \/ program = "lab2a_list" /\ (Start(t) \/ StartDividesByZero(t))
    \/ /\ program = "lab2_list"
       /\ At(t, "start")
       /\ GoToFrom(t, "ins_loop", my_start(t))
       /\ OnlyLocal

\* Mutant: the spin lock is set without looking at what it was.
TakeLock_Untested(t, from, to) ==
    /\ At(t, from)
    /\ lock' = [lock EXCEPT ![0] = t]
    /\ IF Measured THEN Timed(t) ELSE UNCHANGED mutex_time
    /\ GoTo(t, to)
    /\ UNCHANGED <<memory, process>>

TakeLock(t, from, to) ==
    /\ At(t, from)
    /\ Acquire(t, 0)
    /\ IF Measured THEN Timed(t) ELSE UNCHANGED mutex_time
    /\ GoTo(t, to)
    /\ UNCHANGED <<memory, process>>

Insertions(t) ==
    \/ InsertTurn(t) \/ TakeLock(t, "ins_lock", "ins_first")
    \/ InsertFirst(t) \/ InsertWalk(t) \/ InsertInit(t) \/ InsertPred(t)
    \/ InsertLink(t) \/ InsertSucc(t) \/ InsertBack(t)
    \/ InsertUnlock(t) \/ InsertEnd(t)

\* The lock is released before the length is looked at.
LengthUnderLock(t) ==
    \/ TakeLock(t, "len_lock", "len_list") \/ LengthCall(t)
    \/ LengthsEnd(t) \/ UnlockNext(t)
    \/ LengthsGood(t) \/ LengthsCorrupt(t)

\* A failing lookup or deletion exits with the lock held.
Deletions(t) ==
    \/ DeleteTurn(t) \/ TakeLock(t, "del_lock", "look_first")
    \/ LookupFirst(t) \/ LookupMiss(t) \/ LookupHit(t) \/ LookupWalk(t)
    \/ DeleteNext(t) \/ DeleteCheckNext(t) \/ DeletePrev(t) \/ DeleteCheckPrev(t)
    \/ DeleteCorrupt(t) \/ UnlinkNext(t) \/ UnlinkPrev(t) \/ UnlinkBack(t)
    \/ UnlinkPrev2(t) \/ UnlinkNext2(t) \/ UnlinkForward(t)
    \/ DeleteUnlock(t) \/ Return(t)

Runner(t) ==
    OneStart(t) \/ Insertions(t) \/ LengthUnderLock(t) \/ Deletions(t) \/ UseFreed(t)

-----------------------------------------------------------------------------
(* main.                                                                   *)

CreateAndJoin == CreateThread \/ CreateFails \/ AllCreated \/ JoinThread \/ AllJoined

\* After the frees: 2 for a list that is not empty, 1 for a missing thread.
ExitOnError ==
    /\ At(Main, "exit")
    /\ Exit(IF th[Main].len # 0 THEN "exit2" ELSE "exit1")

\* total_time is that of the last thread here too.
OneReport ==
    /\ FinalLengthsZero
    /\ my_ops # 0
    /\ total_time' = IF Measured THEN mutex_time[num_threads - 1] ELSE total_time
    /\ freed' = TRUE
    /\ status' = "exit0"
    /\ UNCHANGED <<memory, locks, th, args>>

OneMain ==
    \/ CreateAndJoin \/ LengthCall(Main) \/ FinalLengthWrong
    \/ ExitOnError \/ DivideByZero \/ OneReport

OneNext == (OneMain \/ (\E t \in Threads : Runner(t)) \/ Ended) /\ UNCHANGED program

\* The kernel runs every runnable thread now and then; no lock is fair.
OneFairness ==
    /\ WF_oneVars(OneMain /\ UNCHANGED program)
    /\ \A t \in Workers : WF_oneVars(t \in Threads /\ Runner(t) /\ UNCHANGED program)

OneSpec == OneInit /\ [][OneNext]_oneVars /\ OneFairness

-----------------------------------------------------------------------------
\* pthread_create failed: from then on threads may use what main has freed.
CreationFailed == th[Main].pc = "exit" /\ th[Main].len = 0

\* Every run ends, with a lock or without.  One with a lock, of which all
\* threads were created, ends well: no thread finds the list corrupt or its
\* key gone, and main finds the list empty -- unless there was nothing to do,
\* which raises SIGFPE (P2A_check.sh runs with --sync=s and m are to succeed).
EndsAsPromised ==
    <>(/\ status # "running"
       /\ Locked /\ ~CreationFailed =>
            status = IF my_ops = 0 THEN "SIGFPE" ELSE "exit0")

=============================================================================
