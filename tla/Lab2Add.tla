------------------------------ MODULE Lab2Add ------------------------------
(***************************************************************************)
(* project2a/lab2_add.c: threads that each add 1 to a shared counter       *)
(* num_iterations times and then subtract 1 as many times, under one of    *)
(* four disciplines: none ("n"), a test-and-set spin lock ("s"), a mutex   *)
(* ("m") and compare-and-swap ("c").                                       *)
(*                                                                         *)
(* A read and a write of the counter are separate steps: that is where the *)
(* races are.  sched_yield() only changes when threads are scheduled, and  *)
(* every schedule is explored, so opt_yield needs no state.  Memory is     *)
(* sequentially consistent.                                                *)
(***************************************************************************)
EXTENDS Integers, FiniteSets

CONSTANTS
    Sizes,       \* the values <<--threads, --iterations>> may have
    Syncs,       \* the values my_lock may have
    IntModulus   \* 2^32 in the program: ints wrap around at it

ASSUME ArgumentsAssumption ==
    /\ Sizes \subseteq Nat \X Nat
    /\ Syncs \subseteq {"n", "s", "m", "c"}
    /\ IntModulus \in Nat \ {0}

VARIABLES
    num_threads, num_iterations, my_lock,  \* the command line, never changed
    my_counter, my_spin, my_mutex,         \* shared memory
    pc, i, value, reg,   \* per thread: place, loop index, +1 or -1, and sum
                         \* (in add) or old_val (in the "c" branch)
    main_pc, main_i,     \* main: its place and its loop index
    status,              \* how the process ended, or "running"
    report               \* the operations and the counter that main prints

args == <<num_threads, num_iterations, my_lock>>
vars == <<args, my_counter, my_spin, my_mutex, pc, i, value, reg,
          main_pc, main_i, status, report>>

NoThread == -1
Threads == 0 .. num_threads - 1
Workers == UNION {0 .. size[1] - 1 : size \in Sizes}
Locked == my_lock \in {"s", "m"}

\* The signed int a C int of IntModulus values holds for x.
ToInt(x) ==
    LET half == IntModulus \div 2
    IN  ((x + half) % IntModulus) - half

my_ops == ToInt(num_threads * num_iterations * 2)

-----------------------------------------------------------------------------
Init ==
    /\ \E size \in Sizes : num_threads = size[1] /\ num_iterations = size[2]
    /\ my_lock \in Syncs
    /\ my_counter = 0
    /\ my_spin = 0
    /\ my_mutex = NoThread
    /\ pc = [t \in Threads |-> "unborn"]
    /\ i = [t \in Threads |-> 0]
    /\ value = [t \in Threads |-> 1]
    /\ reg = [t \in Threads |-> 0]
    /\ main_pc = "create"
    /\ main_i = 0
    /\ status = "running"
    /\ report = [ops |-> 0, counter |-> 0]

-----------------------------------------------------------------------------
(* The threads: runner.                                                    *)

At(t, place) == status = "running" /\ pc[t] = place
GoTo(t, place) == pc' = [pc EXCEPT ![t] = place]
NextIteration(t) == i' = [i EXCEPT ![t] = @ + 1]
LeaveMain == UNCHANGED <<args, main_pc, main_i, status, report>>

\* Mutant: --sync=m forgets to take the mutex.
OpStart_NoMutex == IF my_lock = "s" THEN "acquire" ELSE "load"

\* The first place of one iteration's switch(my_lock).
OpStart == IF Locked THEN "acquire" ELSE "load"

\* Mutant: i <= num_iterations.
BeginOp_OneMore(t) ==
    /\ At(t, "loop")
    /\ i[t] <= num_iterations
    /\ GoTo(t, OpStart)
    /\ UNCHANGED <<my_counter, my_spin, my_mutex, i, value, reg>>
    /\ LeaveMain

BeginOp(t) ==
    /\ At(t, "loop")
    /\ i[t] < num_iterations
    /\ GoTo(t, OpStart)
    /\ UNCHANGED <<my_counter, my_spin, my_mutex, i, value, reg>>
    /\ LeaveMain

\* The adding loop is over: start the subtracting one.
TurnAround(t) ==
    /\ At(t, "loop")
    /\ i[t] >= num_iterations
    /\ value[t] = 1
    /\ value' = [value EXCEPT ![t] = -1]
    /\ i' = [i EXCEPT ![t] = 0]
    /\ UNCHANGED <<my_counter, my_spin, my_mutex, pc, reg>>
    /\ LeaveMain

Return(t) ==
    /\ At(t, "loop")
    /\ i[t] >= num_iterations
    /\ value[t] = -1
    /\ GoTo(t, "done")
    /\ UNCHANGED <<my_counter, my_spin, my_mutex, i, value, reg>>
    /\ LeaveMain

\* Mutant: the result of the test-and-set is not looked at.
SpinAcquire_Untested(t) ==
    /\ At(t, "acquire")
    /\ my_lock = "s"
    /\ my_spin' = 1
    /\ GoTo(t, "load")
    /\ UNCHANGED <<my_counter, my_mutex, i, value, reg>>
    /\ LeaveMain

\* A test-and-set that returns 1 writes 1 over 1 and tries again: a stutter.
SpinAcquire(t) ==
    /\ At(t, "acquire")
    /\ my_lock = "s"
    /\ my_spin = 0
    /\ my_spin' = 1
    /\ GoTo(t, "load")
    /\ UNCHANGED <<my_counter, my_mutex, i, value, reg>>
    /\ LeaveMain

MutexLock(t) ==
    /\ At(t, "acquire")
    /\ my_lock = "m"
    /\ my_mutex = NoThread
    /\ my_mutex' = t
    /\ GoTo(t, "load")
    /\ UNCHANGED <<my_counter, my_spin, i, value, reg>>
    /\ LeaveMain

\* add's first statement: sum = *pointer + value.
Load(t) ==
    /\ At(t, "load")
    /\ my_lock # "c"
    /\ reg' = [reg EXCEPT ![t] = my_counter + value[t]]
    /\ GoTo(t, "store")
    /\ UNCHANGED <<my_counter, my_spin, my_mutex, i, value>>
    /\ LeaveMain

\* add's last statement, and without a lock the end of the iteration.
Store(t) ==
    /\ At(t, "store")
    /\ my_counter' = reg[t]
    /\ IF Locked THEN GoTo(t, "release") /\ UNCHANGED i
                 ELSE GoTo(t, "loop") /\ NextIteration(t)
    /\ UNCHANGED <<my_spin, my_mutex, value, reg>>
    /\ LeaveMain

\* Mutant: the spin lock is not released.
SpinRelease_Forgotten(t) ==
    /\ At(t, "release")
    /\ my_lock = "s"
    /\ GoTo(t, "loop")
    /\ NextIteration(t)
    /\ UNCHANGED <<my_counter, my_spin, my_mutex, value, reg>>
    /\ LeaveMain

SpinRelease(t) ==
    /\ At(t, "release")
    /\ my_lock = "s"
    /\ my_spin' = 0
    /\ GoTo(t, "loop")
    /\ NextIteration(t)
    /\ UNCHANGED <<my_counter, my_mutex, value, reg>>
    /\ LeaveMain

MutexUnlock(t) ==
    /\ At(t, "release")
    /\ my_lock = "m"
    /\ my_mutex' = NoThread
    /\ GoTo(t, "loop")
    /\ NextIteration(t)
    /\ UNCHANGED <<my_counter, my_spin, value, reg>>
    /\ LeaveMain

\* The "c" branch reads old_val ...
LoadOld(t) ==
    /\ At(t, "load")
    /\ my_lock = "c"
    /\ reg' = [reg EXCEPT ![t] = my_counter]
    /\ GoTo(t, "cas")
    /\ UNCHANGED <<my_counter, my_spin, my_mutex, i, value>>
    /\ LeaveMain

\* Mutant: the new value is stored without comparing.
CompareAndSwap_Blind(t) ==
    /\ At(t, "cas")
    /\ my_counter' = reg[t] + value[t]
    /\ GoTo(t, "loop")
    /\ NextIteration(t)
    /\ UNCHANGED <<my_spin, my_mutex, value, reg>>
    /\ LeaveMain

\* ... and swaps in new_val if the counter still is old_val, or starts over.
CompareAndSwap(t) ==
    /\ At(t, "cas")
    /\ IF my_counter = reg[t]
       THEN /\ my_counter' = reg[t] + value[t]
            /\ GoTo(t, "loop")
            /\ NextIteration(t)
       ELSE /\ GoTo(t, "load")
            /\ UNCHANGED <<my_counter, i>>
    /\ UNCHANGED <<my_spin, my_mutex, value, reg>>
    /\ LeaveMain

Thread(t) ==
    \/ BeginOp(t) \/ TurnAround(t) \/ Return(t)
    \/ SpinAcquire(t) \/ MutexLock(t)
    \/ Load(t) \/ Store(t)
    \/ SpinRelease(t) \/ MutexUnlock(t)
    \/ LoadOld(t) \/ CompareAndSwap(t)

-----------------------------------------------------------------------------
(* The main thread.                                                        *)

MainAt(place) == status = "running" /\ main_pc = place
LeaveMemory == UNCHANGED <<args, my_counter, my_spin, my_mutex, i, value, reg>>

CreateThread ==
    /\ MainAt("create")
    /\ main_i < num_threads
    /\ GoTo(main_i, "loop")
    /\ main_i' = main_i + 1
    /\ UNCHANGED <<main_pc, status, report>>
    /\ LeaveMemory

\* pthread_create may fail: exit(1) ends the process under running threads.
CreateFails ==
    /\ MainAt("create")
    /\ main_i < num_threads
    /\ status' = "exit1"
    /\ UNCHANGED <<pc, main_pc, main_i, report>>
    /\ LeaveMemory

AllCreated ==
    /\ MainAt("create")
    /\ main_i >= num_threads
    /\ main_pc' = "join"
    /\ main_i' = 0
    /\ UNCHANGED <<pc, status, report>>
    /\ LeaveMemory

\* Mutant: main does not wait for the thread.
JoinThread_NoWait ==
    /\ MainAt("join")
    /\ main_i < num_threads
    /\ main_i' = main_i + 1
    /\ UNCHANGED <<pc, main_pc, status, report>>
    /\ LeaveMemory

\* Joining a thread that was created and not joined before cannot fail.
JoinThread ==
    /\ MainAt("join")
    /\ main_i < num_threads
    /\ pc[main_i] = "done"
    /\ main_i' = main_i + 1
    /\ UNCHANGED <<pc, main_pc, status, report>>
    /\ LeaveMemory

AllJoined == MainAt("join") /\ main_i >= num_threads

\* my_time/my_ops with my_ops = 0 raises SIGFPE before anything is printed.
DivideByZero ==
    /\ AllJoined
    /\ my_ops = 0
    /\ status' = "SIGFPE"
    /\ UNCHANGED <<pc, main_pc, main_i, report>>
    /\ LeaveMemory

Report ==
    /\ AllJoined
    /\ my_ops # 0
    /\ report' = [ops |-> my_ops, counter |-> my_counter]
    /\ status' = "exit0"
    /\ UNCHANGED <<pc, main_pc, main_i>>
    /\ LeaveMemory

MainThread ==
    \/ CreateThread \/ CreateFails \/ AllCreated
    \/ JoinThread \/ DivideByZero \/ Report

\* The process is gone: nothing happens any more.
Ended == status # "running" /\ UNCHANGED vars

Next == MainThread \/ (\E t \in Threads : Thread(t)) \/ Ended

\* The kernel runs every runnable thread now and then.  Nothing more is
\* assumed of a contended lock: see Termination.
Fairness ==
    /\ WF_vars(MainThread)
    /\ \A t \in Workers : WF_vars(t \in Threads /\ Thread(t))

Spec == Init /\ [][Next]_vars
FairSpec == Spec /\ Fairness

-----------------------------------------------------------------------------
(* Properties.                                                             *)

Places == {"unborn", "loop", "acquire", "load", "store", "cas", "release", "done"}
Statuses == {"running", "exit0", "exit1", "SIGFPE"}

\* Every variable has its type.
TypeOK ==
    /\ <<num_threads, num_iterations>> \in Sizes
    /\ my_lock \in Syncs
    /\ my_counter \in Int
    /\ my_spin \in {0, 1}
    /\ my_mutex \in Threads \cup {NoThread}
    /\ pc \in [Threads -> Places]
    /\ i \in [Threads -> 0 .. num_iterations]
    /\ value \in [Threads -> {1, -1}]
    /\ reg \in [Threads -> Int]
    /\ main_pc \in {"create", "join"}
    /\ main_i \in 0 .. num_threads
    /\ status \in Statuses
    /\ report \in [ops : Int, counter : Int]

\* Between taking a lock and releasing it.
InCritical(t) == Locked /\ pc[t] \in {"load", "store", "release"}

\* Under --sync=s and --sync=m one thread at a time is between the acquisition
\* of the lock and its release (runner, lines 31-40 and 85-94).
MutualExclusion == \A t, u \in Threads : InCritical(t) /\ InCritical(u) => t = u

\* How many operations that add v thread t has done: the write of my_counter is
\* the operation, though the lock may not be released yet.
DoneCount(t, v) ==
    IF v = value[t] THEN IF pc[t] = "release" THEN i[t] + 1 ELSE i[t]
                    ELSE IF v = 1 THEN num_iterations ELSE 0

\* Operations are named by their thread and loop index.
Operations == Threads \X (0 .. num_iterations - 1)
DoneOps(v) == {o \in Operations : o[2] < DoneCount(o[1], v)}

\* Under --sync=s, m and c no update is ever lost: at every moment, with other
\* threads anywhere in their own updates, the counter is the number of
\* additions done less the number of subtractions done.  With all threads done
\* it is the 0 that P2A_check.sh expects as the last field.
CounterExact ==
    my_lock # "n" => my_counter = Cardinality(DoneOps(1)) - Cardinality(DoneOps(-1))

\* The counter main prints for --sync=s, m and c is 0 (the sum P2A_check.sh
\* tests), and it is read when no thread can change it any more.
ReportedZero ==
    status = "exit0" =>
        /\ \A t \in Threads : pc[t] = "done"
        /\ report.counter = my_counter
        /\ my_lock # "n" => report.counter = 0

\* Without synchronisation updates get lost, but every value the counter takes
\* is a chain of distinct operations of which each read what the one before it
\* wrote, and a chain starts with an addition: it never leaves
\* 1 - n .. n, where n is the number of additions.
RaceBounds ==
    LET n == num_threads * num_iterations
    IN  my_counter \in (IF n = 0 THEN {0} ELSE 1 - n .. n)

\* The operations main prints are those the threads did, as long as their
\* number fits in an int: main reads after the last join, whichever threads
\* finish first.
ReportedOps ==
    (status = "exit0" /\ 2 * Cardinality(Operations) < IntModulus \div 2) =>
        report.ops = Cardinality(DoneOps(1)) + Cardinality(DoneOps(-1))

\* The line main prints after its last join is true in both numbers: no thread
\* that finishes late, and no overflow within the range of an int, makes it
\* tell of operations that were not done or of a counter that is not final.
ReportExact == ReportedZero /\ ReportedOps

Atomic == INSTANCE AtomicCounter WITH
    Iterations <- {size[2] : size \in Sizes},
    counter <- my_counter,
    added <- [t \in Workers |-> IF t \in Threads THEN DoneCount(t, 1) ELSE 0],
    subtracted <- [t \in Workers |-> IF t \in Threads THEN DoneCount(t, -1) ELSE 0],
    limit <- num_iterations

\* Under --sync=s, m and c (the runs and theorems that use it take no "n" in
\* Syncs) the threads' loads, stores and swaps implement the abstract counter,
\* whose operations are atomic.
RefinesAtomicCounter == Atomic!Spec

\* Every run ends, under every discipline.  Weak fairness is enough though
\* neither the spin lock nor compare-and-swap is fair: a thread is overtaken
\* only by an operation of another one, and there are finitely many.
Termination == <>(status # "running")

=============================================================================
