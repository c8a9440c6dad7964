------------------------------ MODULE Lab2List ------------------------------
(***************************************************************************)
(* project2b/lab2_list.c over SortedList.c: threads that each insert their *)
(* elements into num_lists sorted circular lists, check the lengths of all *)
(* lists, and look up and delete their keys again, with a lock per list    *)
(* ("m" or "s") or with none ("n").  project2a/lab2_list.c is the case of  *)
(* one list.                                                               *)
(*                                                                         *)
(* Every load and store of a next or prev field is a step of its own, in   *)
(* the order the statements compile to; sched_yield() changes nothing but  *)
(* the schedule.  Memory is sequentially consistent.                       *)
(***************************************************************************)
EXTENDS Integers, FiniteSets

CONSTANTS
    Sizes,      \* the values <<--threads, --iterations, --lists>> may have
    Syncs,      \* the values my_lock may have
    Keys,       \* the keys, as the numbers of their one character
    WaitTimes   \* the times one acquisition may be measured to take

ASSUME ArgumentsAssumption ==
    /\ Sizes \subseteq Nat \X Nat \X (Nat \ {0})
    /\ Syncs \subseteq {"n", "s", "m"}
    /\ Keys \subseteq Nat
    /\ WaitTimes \subseteq Nat

VARIABLES
    num_threads, num_iterations, num_lists, my_lock,  \* the command line
    key,          \* the key of each element, never changed
    next, prev,   \* the links of the elements and of the list heads
    lock,         \* per list: the thread that has its my_mutex or my_spin
    mutex_time,   \* per thread: the measured time spent acquiring locks
    th,           \* per thread and for main: place and local variables
    freed,        \* main has freed the lists and elements
    status,       \* how the process ended, or "running"
    total_time    \* what main divides and prints as the average lock wait

args == <<num_threads, num_iterations, num_lists, my_lock, key>>
memory == <<next, prev>>
locks == <<lock, mutex_time>>
process == <<args, freed, status, total_time>>
vars == <<memory, locks, th, process>>

NoThread == -1
Threads == 0 .. num_threads - 1
Main == num_threads
Actors == 0 .. num_threads
Lists == 0 .. num_lists - 1

\* my_list_ele: thread t owns the elements t * num_iterations and following.
Elements == 0 .. num_threads * num_iterations - 1
my_start(t) == t * num_iterations
my_end(t) == my_start(t) + num_iterations
Owner(e) == CHOOSE t \in Threads : my_start(t) <= e /\ e < my_end(t)

\* The head of list l is the one node whose key is NULL.
HeadOf(l) == -1 - l
IsHead(n) == n < 0
Nodes == Elements \cup {HeadOf(l) : l \in Lists}
Wild == num_threads * num_iterations   \* what malloc left in a link

SubList(e) == key[e] % num_lists
Locked == my_lock # "n"

-----------------------------------------------------------------------------
Init ==
    /\ \E size \in Sizes :
          num_threads = size[1] /\ num_iterations = size[2] /\ num_lists = size[3]
    /\ my_lock \in Syncs
    /\ key \in [Elements -> Keys]
    /\ next = [n \in Nodes |-> IF IsHead(n) THEN n ELSE Wild]
    /\ prev = [n \in Nodes |-> IF IsHead(n) THEN n ELSE Wild]
    /\ lock = [l \in Lists |-> NoThread]
    /\ mutex_time = [t \in Threads |-> 0]
    /\ th = [t \in Actors |->
               [pc |-> IF t = Main THEN "create" ELSE "unborn",
                i |-> 0, cur |-> HeadOf(0), reg |-> HeadOf(0), reg2 |-> HeadOf(0), len |-> 0]]
    /\ freed = FALSE
    /\ status = "running"
    /\ total_time = 0

At(t, place) == status = "running" /\ th[t].pc = place
GoTo(t, place) == th' = [th EXCEPT ![t].pc = place]
GoToNext(t, place) == th' = [th EXCEPT ![t].pc = place, ![t].i = @ + 1]
GoToFrom(t, place, first) == th' = [th EXCEPT ![t].pc = place, ![t].i = first]
OnlyLocal == UNCHANGED <<memory, locks, process>>

\* A load into a register, or into my_next; then the thread is at place.
Fetch(t, v, place) ==
    /\ th' = [th EXCEPT ![t].pc = place, ![t].reg = v]
    /\ OnlyLocal
Advance(t, v, place) ==
    /\ th' = [th EXCEPT ![t].pc = place, ![t].cur = v]
    /\ OnlyLocal

\* A lock is taken when it is free, and the wait is added to mutex_time.
Acquire(t, l) ==
    /\ lock[l] = NoThread
    /\ lock' = [lock EXCEPT ![l] = t]
Timed(t) == \E w \in WaitTimes : mutex_time' = [mutex_time EXCEPT ![t] = @ + w]
Release(l) == lock' = [lock EXCEPT ![l] = NoThread]

\* exit() with all threads still there.
Exit(code) ==
    /\ status' = code
    /\ UNCHANGED <<memory, locks, th, args, freed, total_time>>

-----------------------------------------------------------------------------
(* runner: my_start / num_iterations, then the insertions.                 *)

Start(t) ==
    /\ At(t, "start")
    /\ num_iterations # 0
    /\ GoToFrom(t, "ins_loop", my_start(t))
    /\ OnlyLocal

StartDividesByZero(t) ==
    /\ At(t, "start")
    /\ num_iterations = 0
    /\ Exit("SIGFPE")

InsertTurn(t) ==
    /\ At(t, "ins_loop")
    /\ th[t].i < my_end(t)
    /\ GoTo(t, IF Locked THEN "ins_lock" ELSE "ins_first")
    /\ OnlyLocal

InsertLock(t) ==
    /\ At(t, "ins_lock")
    /\ Acquire(t, SubList(th[t].i))
    /\ Timed(t)
    /\ GoTo(t, "ins_first")
    /\ UNCHANGED <<memory, process>>

(* SortedList_insert of the element th[t].i.                               *)

InsertFirst(t) == At(t, "ins_first") /\ Advance(t, next[HeadOf(SubList(th[t].i))], "ins_walk")

\* Mutant: the comparison the other way round.
ComesAfter_Reversed(e, n) == ~IsHead(n) /\ key[e] < key[n]

ComesAfter(e, n) == ~IsHead(n) /\ key[e] > key[n]

InsertWalk(t) ==
    /\ At(t, "ins_walk")
    /\ ComesAfter(th[t].i, th[t].cur)
    /\ Advance(t, next[th[t].cur], "ins_walk")

\* Mutant: element->prev is not set.
InsertInit_NoPrev(t) ==
    /\ At(t, "ins_walk")
    /\ ~ComesAfter(th[t].i, th[t].cur)
    /\ next' = [next EXCEPT ![th[t].i] = th[t].cur]
    /\ GoTo(t, "ins_pred")
    /\ UNCHANGED <<prev, locks, process>>

\* The element is in no list yet: storing its own links races with nothing.
InsertInit(t) ==
    /\ At(t, "ins_walk")
    /\ ~ComesAfter(th[t].i, th[t].cur)
    /\ next' = [next EXCEPT ![th[t].i] = th[t].cur]
    /\ prev' = [prev EXCEPT ![th[t].i] = prev[th[t].cur]]
    /\ GoTo(t, "ins_pred")
    /\ UNCHANGED <<locks, process>>

\* my_next->prev is read again to find the node to link from ...
InsertPred(t) == At(t, "ins_pred") /\ Fetch(t, prev[th[t].cur], "ins_link")

InsertLink(t) ==
    /\ At(t, "ins_link")
    /\ next' = [next EXCEPT ![th[t].reg] = th[t].i]
    /\ GoTo(t, "ins_succ")
    /\ UNCHANGED <<prev, locks, process>>

\* ... and element->next to find the one to link back.
InsertSucc(t) == At(t, "ins_succ") /\ Fetch(t, next[th[t].i], "ins_back")

InsertBack(t) ==
    /\ At(t, "ins_back")
    /\ prev' = [prev EXCEPT ![th[t].reg] = th[t].i]
    /\ IF Locked THEN GoTo(t, "ins_unlock") ELSE GoToNext(t, "ins_loop")
    /\ UNCHANGED <<next, locks, process>>

\* Mutants: the lock of list 0 is released, or none.
InsertUnlock_WrongList(t) ==
    /\ At(t, "ins_unlock")
    /\ Release(0)
    /\ GoToNext(t, "ins_loop")
    /\ UNCHANGED <<memory, mutex_time, process>>

InsertUnlock_Forgotten(t) ==
    /\ At(t, "ins_unlock")
    /\ GoToNext(t, "ins_loop")
    /\ UNCHANGED <<memory, locks, process>>

InsertUnlock(t) ==
    /\ At(t, "ins_unlock")
    /\ Release(SubList(th[t].i))
    /\ GoToNext(t, "ins_loop")
    /\ UNCHANGED <<memory, mutex_time, process>>

InsertEnd(t) ==
    /\ At(t, "ins_loop")
    /\ th[t].i >= my_end(t)
    /\ GoToFrom(t, IF Locked THEN "len_lock" ELSE "len_list", 0)
    /\ OnlyLocal

-----------------------------------------------------------------------------
(* runner: the lengths, under all locks, taken in ascending order.         *)

LockNext(t) ==
    /\ At(t, "len_lock")
    /\ th[t].i < num_lists
    /\ Acquire(t, th[t].i)
    /\ GoToNext(t, "len_lock")
    /\ UNCHANGED <<memory, mutex_time, process>>

AllLocked(t) ==
    /\ At(t, "len_lock")
    /\ th[t].i >= num_lists
    /\ Timed(t)
    /\ GoToFrom(t, "len_list", 0)
    /\ UNCHANGED <<memory, lock, process>>

(* SortedList_length of list th[t].i, which main calls too; of len, only   *)
(* its sign is kept.                                                       *)

LengthFirst(t) ==
    /\ At(t, "len_list")
    /\ th[t].i < num_lists
    /\ th[t].len \in (IF t = Main THEN {0} ELSE {0, 1})
    /\ th' = [th EXCEPT ![t].pc = "len_walk", ![t].len = 0,
                        ![t].cur = next[HeadOf(th[t].i)]]
    /\ OnlyLocal

LengthReturn(t) ==
    /\ At(t, "len_walk")
    /\ th[t].cur = HeadOf(th[t].i)
    /\ GoToNext(t, "len_list")
    /\ OnlyLocal

LengthNext(t) ==
    /\ At(t, "len_walk")
    /\ th[t].cur # HeadOf(th[t].i)
    /\ Fetch(t, next[th[t].cur], "len_next")

LengthPrev(t) == At(t, "len_prev") /\ Fetch(t, prev[th[t].cur], "len_back")

\* One of the two comparisons: the link of reg goes back to cur, or len is -1.
Compare(t, from, link, to) ==
    /\ At(t, from)
    /\ th' = IF link[th[t].reg] = th[t].cur
             THEN [th EXCEPT ![t].pc = to]
             ELSE [th EXCEPT ![t].pc = "len_list", ![t].len = -1]
    /\ OnlyLocal

LengthCheckNext(t) == Compare(t, "len_next", prev, "len_prev")
LengthCheckPrev(t) == Compare(t, "len_back", next, "len_step")

LengthStep(t) ==
    /\ At(t, "len_step")
    /\ th' = [th EXCEPT ![t].pc = "len_walk", ![t].len = 1, ![t].cur = next[th[t].cur]]
    /\ OnlyLocal

LengthCall(t) ==
    \/ LengthFirst(t) \/ LengthReturn(t) \/ LengthNext(t) \/ LengthCheckNext(t)
    \/ LengthPrev(t) \/ LengthCheckPrev(t) \/ LengthStep(t)

\* The loop over the lists is over, or broken off by a negative length.
LengthsDone(t) == At(t, "len_list") /\ (th[t].i >= num_lists \/ th[t].len < 0)

LengthsEnd(t) ==
    /\ LengthsDone(t)
    /\ GoToFrom(t, "len_unlock", IF Locked THEN 0 ELSE num_lists)
    /\ OnlyLocal

UnlockNext(t) ==
    /\ At(t, "len_unlock")
    /\ th[t].i < num_lists
    /\ Release(th[t].i)
    /\ GoToNext(t, "len_unlock")
    /\ UNCHANGED <<memory, mutex_time, process>>

LengthsGood(t) ==
    /\ At(t, "len_unlock")
    /\ th[t].i >= num_lists
    /\ th[t].len >= 0
    /\ GoToFrom(t, "del_loop", my_start(t))
    /\ OnlyLocal

LengthsCorrupt(t) ==
    /\ At(t, "len_unlock")
    /\ th[t].i >= num_lists
    /\ th[t].len < 0
    /\ Exit("exit2")

-----------------------------------------------------------------------------
(* runner: the lookups and deletions.                                      *)

\* Mutant: the deletion takes no lock.
DeleteTurn_Unlocked(t) ==
    /\ At(t, "del_loop")
    /\ th[t].i < my_end(t)
    /\ GoTo(t, "look_first")
    /\ OnlyLocal

DeleteTurn(t) ==
    /\ At(t, "del_loop")
    /\ th[t].i < my_end(t)
    /\ GoTo(t, IF Locked THEN "del_lock" ELSE "look_first")
    /\ OnlyLocal

DeleteLock(t) ==
    /\ At(t, "del_lock")
    /\ Acquire(t, SubList(th[t].i))
    /\ Timed(t)
    /\ GoTo(t, "look_first")
    /\ UNCHANGED <<memory, process>>

(* SortedList_lookup of the key of the element th[t].i.                    *)

LookupFirst(t) == At(t, "look_first") /\ Advance(t, next[HeadOf(SubList(th[t].i))], "look_walk")

LookupMiss(t) ==
    /\ At(t, "look_walk")
    /\ IsHead(th[t].cur)
    /\ Exit("exit2")

\* Mutant: an earlier key will do.
SameKey_OrEarlier(e, n) == ~IsHead(n) /\ key[n] <= key[e]

SameKey(e, n) == ~IsHead(n) /\ key[n] = key[e]

LookupHit(t) ==
    /\ At(t, "look_walk")
    /\ SameKey(th[t].i, th[t].cur)
    /\ GoTo(t, "del_next")
    /\ OnlyLocal

LookupWalk(t) ==
    /\ At(t, "look_walk")
    /\ ~IsHead(th[t].cur)
    /\ ~SameKey(th[t].i, th[t].cur)
    /\ Advance(t, next[th[t].cur], "look_walk")

(* SortedList_delete of the element found, th[t].cur: two checks ...       *)

DeleteNext(t) == At(t, "del_next") /\ Fetch(t, next[th[t].cur], "del_c1")
DeletePrev(t) == At(t, "del_prev") /\ Fetch(t, prev[th[t].cur], "del_c2")

DeleteCheckNext(t) ==
    /\ At(t, "del_c1")
    /\ prev[th[t].reg] = th[t].cur
    /\ GoTo(t, "del_prev")
    /\ OnlyLocal

DeleteCheckPrev(t) ==
    /\ At(t, "del_c2")
    /\ next[th[t].reg] = th[t].cur
    /\ GoTo(t, "un_next")
    /\ OnlyLocal

DeleteCorrupt(t) ==
    /\ \/ At(t, "del_c1") /\ prev[th[t].reg] # th[t].cur
       \/ At(t, "del_c2") /\ next[th[t].reg] # th[t].cur
    /\ Exit("exit2")

\* ... then each of the two assignments loads both links before it stores.
Fetch2(t, v, place) ==
    /\ th' = [th EXCEPT ![t].pc = place, ![t].reg2 = v]
    /\ OnlyLocal

UnlinkNext(t) == At(t, "un_next") /\ Fetch(t, next[th[t].cur], "un_prev")
UnlinkPrev(t) == At(t, "un_prev") /\ Fetch2(t, prev[th[t].cur], "un_store")

UnlinkBack(t) ==
    /\ At(t, "un_store")
    /\ prev' = [prev EXCEPT ![th[t].reg] = th[t].reg2]
    /\ GoTo(t, "un_prev2")
    /\ UNCHANGED <<next, locks, process>>

UnlinkPrev2(t) == At(t, "un_prev2") /\ Fetch(t, prev[th[t].cur], "un_next2")
UnlinkNext2(t) == At(t, "un_next2") /\ Fetch2(t, next[th[t].cur], "un_store2")

\* Mutant: the predecessor is written to the successor's next.
UnlinkForward_Swapped(t) ==
    /\ At(t, "un_store2")
    /\ next' = [next EXCEPT ![th[t].reg2] = th[t].reg]
    /\ IF Locked THEN GoTo(t, "del_unlock") ELSE GoToNext(t, "del_loop")
    /\ UNCHANGED <<prev, locks, process>>

UnlinkForward(t) ==
    /\ At(t, "un_store2")
    /\ next' = [next EXCEPT ![th[t].reg] = th[t].reg2]
    /\ IF Locked THEN GoTo(t, "del_unlock") ELSE GoToNext(t, "del_loop")
    /\ UNCHANGED <<prev, locks, process>>

DeleteUnlock(t) ==
    /\ At(t, "del_unlock")
    /\ Release(SubList(th[t].i))
    /\ GoToNext(t, "del_loop")
    /\ UNCHANGED <<memory, mutex_time, process>>

Return(t) ==
    /\ At(t, "del_loop")
    /\ th[t].i >= my_end(t)
    /\ GoTo(t, "done")
    /\ OnlyLocal

\* What a thread does with freed memory is undefined: it may read it as it
\* was, or die: of an error it reports, or in the SIGSEGV handler, which frees
\* the memory once more.
UseFreed(t) ==
    /\ freed
    /\ status = "running"
    /\ th[t].pc \notin {"unborn", "done"}
    /\ Exit("exit2") \/ Exit("abort")

Thread(t) ==
    \/ Start(t) \/ StartDividesByZero(t)
    \/ InsertTurn(t) \/ InsertLock(t) \/ InsertFirst(t) \/ InsertWalk(t)
    \/ InsertInit(t) \/ InsertPred(t) \/ InsertLink(t) \/ InsertSucc(t)
    \/ InsertBack(t) \/ InsertUnlock(t) \/ InsertEnd(t)
    \/ LockNext(t) \/ AllLocked(t) \/ LengthCall(t) \/ LengthsEnd(t)
    \/ UnlockNext(t) \/ LengthsGood(t) \/ LengthsCorrupt(t)
    \/ DeleteTurn(t) \/ DeleteLock(t)
    \/ LookupFirst(t) \/ LookupMiss(t) \/ LookupHit(t) \/ LookupWalk(t)
    \/ DeleteNext(t) \/ DeleteCheckNext(t) \/ DeletePrev(t) \/ DeleteCheckPrev(t)
    \/ DeleteCorrupt(t)
    \/ UnlinkNext(t) \/ UnlinkPrev(t) \/ UnlinkBack(t)
    \/ UnlinkPrev2(t) \/ UnlinkNext2(t) \/ UnlinkForward(t)
    \/ DeleteUnlock(t) \/ Return(t) \/ UseFreed(t)

-----------------------------------------------------------------------------
(* main.                                                                   *)

CreateThread ==
    /\ At(Main, "create")
    /\ th[Main].i < num_threads
    /\ th' = [th EXCEPT ![Main].i = @ + 1, ![th[Main].i].pc = "start"]
    /\ OnlyLocal

\* pthread_create may fail: what the running threads use is freed, then exit(1).
CreateFails ==
    /\ At(Main, "create")
    /\ th[Main].i < num_threads
    /\ freed' = TRUE
    /\ GoTo(Main, "exit")
    /\ UNCHANGED <<memory, locks, args, status, total_time>>

AllCreated ==
    /\ At(Main, "create")
    /\ th[Main].i >= num_threads
    /\ GoToFrom(Main, "join", 0)
    /\ OnlyLocal

JoinThread ==
    /\ At(Main, "join")
    /\ th[Main].i < num_threads
    /\ th[th[Main].i].pc = "done"
    /\ GoToNext(Main, "join")
    /\ OnlyLocal

AllJoined ==
    /\ At(Main, "join")
    /\ th[Main].i >= num_threads
    /\ GoToFrom(Main, "len_list", 0)
    /\ OnlyLocal

\* A list that is not empty, or is corrupt: free everything and exit(1).
FinalLengthWrong ==
    /\ At(Main, "len_list")
    /\ th[Main].len # 0
    /\ freed' = TRUE
    /\ GoTo(Main, "exit")
    /\ UNCHANGED <<memory, locks, args, status, total_time>>

ExitOne ==
    /\ At(Main, "exit")
    /\ Exit("exit1")

FinalLengthsZero == At(Main, "len_list") /\ th[Main].i >= num_lists /\ th[Main].len = 0

my_ops == num_threads * num_iterations * 3

DivideByZero == FinalLengthsZero /\ my_ops = 0 /\ Exit("SIGFPE")

\* total_time is assigned each thread's time in turn, then freed and exit(0).
Report ==
    /\ FinalLengthsZero
    /\ my_ops # 0
    /\ total_time' = mutex_time[num_threads - 1]
    /\ freed' = TRUE
    /\ status' = "exit0"
    /\ UNCHANGED <<memory, locks, th, args>>

MainThread ==
    \/ CreateThread \/ CreateFails \/ AllCreated \/ JoinThread \/ AllJoined
    \/ LengthCall(Main) \/ FinalLengthWrong \/ ExitOne \/ DivideByZero \/ Report

\* The process is gone: nothing happens any more.
Ended == status # "running" /\ UNCHANGED vars

Next == MainThread \/ (\E t \in Threads : Thread(t)) \/ Ended

\* The kernel runs every runnable thread now and then; no lock is fair.
Workers == UNION {0 .. size[1] - 1 : size \in Sizes}
Fairness ==
    /\ WF_vars(MainThread)
    /\ \A t \in Workers : WF_vars(t \in Threads /\ Thread(t))

Spec == Init /\ [][Next]_vars
FairSpec == Spec /\ Fairness

-----------------------------------------------------------------------------
(* Properties.                                                             *)

InsertPlaces == {"ins_first", "ins_walk", "ins_pred", "ins_link", "ins_succ", "ins_back"}
LengthPlaces == {"len_list", "len_walk", "len_next", "len_prev", "len_back", "len_step"}
DeletePlaces == {"look_first", "look_walk", "del_next", "del_c1", "del_prev", "del_c2",
                 "un_next", "un_prev", "un_store", "un_prev2", "un_next2", "un_store2"}
ThreadPlaces ==
    {"unborn", "start", "ins_loop", "ins_lock", "ins_unlock", "len_lock", "len_unlock",
     "del_loop", "del_lock", "del_unlock", "done"}
        \cup InsertPlaces \cup LengthPlaces \cup DeletePlaces
MainPlaces == {"create", "join", "exit"} \cup LengthPlaces

\* Every variable has its type.  Wild is a value of a link, but no thread ever
\* has it as an address.
TypeOK ==
    /\ <<num_threads, num_iterations, num_lists>> \in Sizes
    /\ my_lock \in Syncs
    /\ key \in [Elements -> Keys]
    /\ next \in [Nodes -> Nodes \cup {Wild}]
    /\ prev \in [Nodes -> Nodes \cup {Wild}]
    /\ lock \in [Lists -> Threads \cup {NoThread}]
    /\ mutex_time \in [Threads -> Nat]
    /\ th \in [Actors -> [pc : ThreadPlaces \cup MainPlaces, i : Nat, cur : Nodes,
                          reg : Nodes, reg2 : Nodes, len : {-1, 0, 1}]]
    /\ freed \in BOOLEAN
    /\ status \in {"running", "exit0", "exit1", "exit2", "abort", "SIGFPE"}
    /\ total_time \in Nat

\* The locks a thread's place says it has.
Holds(t) ==
    LET p == th[t].pc  k == th[t].i
    IN  IF ~Locked THEN {}
        ELSE IF p \in InsertPlaces \cup {"ins_unlock"} \cup DeletePlaces \cup {"del_unlock"}
             THEN {SubList(k)}
        ELSE IF p = "len_lock" THEN {l \in Lists : l < k}
        ELSE IF p = "len_unlock" THEN {l \in Lists : l >= k}
        ELSE IF p \in LengthPlaces THEN Lists
        ELSE {}

\* Exactly the locks a thread took and has not released yet are its own: none
\* is leaked, released for somebody else or held twice, whether it is taken
\* alone or with all others.  A thread that takes all locks has those below
\* the one it waits for, so waiting threads never form a cycle.
LockOwnership ==
    \A t \in Threads : Holds(t) = {l \in Lists : lock[l] = t}

\* The nodes of list l, and those on the way from its head along next until
\* that comes back to the head.
NodesOf(l) == {HeadOf(l)} \cup {e \in Elements : SubList(e) = l}
Circle(l) ==
    LET After(n) == IF n \in {HeadOf(l), Wild} THEN n ELSE next[n]
        along[k \in Nat] == IF k = 0 THEN {next[HeadOf(l)]}
                           ELSE UNION {{n, After(n)} : n \in along[k - 1]}
    IN  along[Cardinality(Elements)]
Contents(l) == Circle(l) \ {HeadOf(l)}

\* A list nobody has locked is a circle through its head, in key order, along
\* which prev is the inverse of next, and its elements belong to it.  (The
\* order of SortedList.h, and the links delete and length check.)
ListsSound ==
    \A l \in Lists : (Locked /\ lock[l] = NoThread) =>
        LET circle == Circle(l)
        IN  /\ circle \subseteq NodesOf(l)
            /\ HeadOf(l) \in circle
            /\ \A n \in circle : prev[next[n]] = n /\ next[prev[n]] = n
            /\ \A n \in circle : IsHead(n) \/ IsHead(next[n]) \/ key[n] <= key[next[n]]

\* With locks, the only ways to fail are a thread that cannot be created and a
\* division by zero operations (SIGFPE): no thread sees a corrupt list or misses
\* its key, although other threads delete its elements, and in the end the lists
\* are empty (P2B_check.sh runs with --sync=s and m are to succeed).
SyncNeverFails ==
    Locked /\ (~freed \/ \A t \in Threads : th[t].pc = "done")
        => status \in {"running", "exit0"} \/ (status = "SIGFPE" /\ my_ops = 0)

\* The bag: an insertion happens when the element is linked from its
\* predecessor, a removal when the predecessor skips the element.
InsertDone(e) ==
    LET t == Owner(e)
    IN  \/ th[t].i > e
        \/ th[t].i = e /\ th[t].pc \in {"ins_succ", "ins_back", "ins_unlock"}
        \/ th[t].pc \notin InsertPlaces \cup {"unborn", "start", "ins_loop", "ins_lock", "ins_unlock"}
RemoveDone(e) ==
    LET t == Owner(e)
    IN  /\ th[t].pc \in DeletePlaces \cup {"del_loop", "del_lock", "del_unlock", "done"}
        /\ th[t].i > e \/ (th[t].i = e /\ th[t].pc = "del_unlock")

Bag == INSTANCE SharedBag WITH
    Items <- UNION {0 .. size[1] * size[2] - 1 : size \in Sizes},
    bag <- UNION {Contents(l) : l \in Lists},
    inserted <- {e \in Elements : InsertDone(e)},
    removed <- {e \in Elements : RemoveDone(e)}

\* With locks, the loads and stores of all threads implement the bag, whose
\* insertions and removals are atomic.
RefinesSharedBag == Bag!Spec

\* Every set of elements that were ever linked has one whose next leaves the
\* set: there is no circle but through a list head.  Even without locks,
\* whatever elements get lost, a walk along next gets to a head, so that a
\* thread fails rather than hangs (the loops of insert, lookup and length have
\* no other bound).
LinksAcyclic ==
    \A S \in SUBSET Elements : S = {} \/ \E n \in S : next[n] \notin S

\* Every address a thread uses is a node of the list it works on: even without
\* locks no link that was never set is followed, nor one into another list, so
\* the SIGSEGV handler is never reached from the list operations.
PointersValid ==
    \A t \in Threads :
        LET nodes == NodesOf(SubList(th[t].i))
            p == th[t].pc
        IN  /\ p \in (InsertPlaces \cup DeletePlaces) \ {"ins_first", "look_first"}
                   => th[t].cur \in nodes
            /\ p \in {"ins_link", "ins_back", "del_c1", "del_c2", "un_prev", "un_store",
                      "un_next2", "un_store2"} => th[t].reg \in nodes
            /\ p \in {"un_store", "un_store2"} => th[t].reg2 \in nodes
            /\ p \in LengthPlaces \ {"len_list"} => th[t].cur \in NodesOf(th[t].i)
            /\ p \in {"len_next", "len_back"} => th[t].reg \in NodesOf(th[t].i)

\* Every run ends, with and without locks.
Termination == <>(status # "running")

\* The lock wait that main divides by the number of lock acquisitions is the
\* time all threads together waited: P2B's README calls the printed field the
\* average wait-for-mutex time.
WaitIsTotal ==
    status = "exit0" =>
        total_time = LET upto[n \in Nat] == IF n = 0 THEN 0 ELSE upto[n - 1] + mutex_time[n - 1]
                     IN  upto[num_threads]

=============================================================================
