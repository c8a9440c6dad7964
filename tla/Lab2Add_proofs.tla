--------------------------- MODULE Lab2Add_proofs ---------------------------
(***************************************************************************)
(* What holds of lab2_add for every number of threads and iterations: the  *)
(* types, mutual exclusion, and that under --sync=s, m and c no update is  *)
(* lost.                                                                   *)
(***************************************************************************)
EXTENDS Lab2Add, FiniteSetTheorems, TLAPS

\* What a thread's place says of the discipline and of its own loop.
PlaceInv ==
    \A t \in Threads :
        /\ pc[t] \in {"acquire", "release"} => Locked
        /\ pc[t] = "store" => my_lock # "c"
        /\ pc[t] = "cas" => my_lock = "c"
        /\ pc[t] \in {"acquire", "load", "store", "cas", "release"} => i[t] < num_iterations
        /\ pc[t] = "unborn" => i[t] = 0 /\ value[t] = 1
        /\ pc[t] = "done" => i[t] = num_iterations /\ value[t] = -1

\* A thread in its critical section has the lock.
LockInv ==
    \A t \in Threads : InCritical(t) =>
        /\ my_lock = "s" => my_spin = 1
        /\ my_lock = "m" => my_mutex = t

\* What a thread under a lock is about to store is not out of date.
FreshInv ==
    \A t \in Threads :
        Locked /\ pc[t] = "store" => reg[t] = my_counter + value[t]

\* main creates each thread once, and reports only when all have returned.
MainInv ==
    /\ main_pc = "create" => \A t \in Threads : t >= main_i => pc[t] = "unborn"
    /\ main_pc = "join" => \A t \in Threads : t < main_i => pc[t] = "done"
    /\ status = "exit0" =>
           /\ \A t \in Threads : pc[t] = "done"
           /\ report = [ops |-> my_ops, counter |-> my_counter]


LEMMA TypeInit == Init => TypeOK /\ PlaceInv
<1> SUFFICES ASSUME Init PROVE TypeOK /\ PlaceInv
  OBVIOUS
<1> USE ArgumentsAssumption DEF Init
<1>1. PICK size \in Sizes : num_threads = size[1] /\ num_iterations = size[2]
  OBVIOUS
<1>2. /\ <<num_threads, num_iterations>> \in Sizes
      /\ num_threads \in Nat
      /\ num_iterations \in Nat
  BY <1>1
<1>3. TypeOK
  BY <1>2 DEF TypeOK, Threads, NoThread, Places, Statuses
<1>4. PlaceInv
  BY <1>2 DEF PlaceInv
<1>5. QED
  BY <1>3, <1>4

\* The command line's numbers are natural numbers and stay what they are.
LEMMA ArgumentsStay ==
    ASSUME TypeOK, [Next]_vars
    PROVE  /\ UNCHANGED args
           /\ Threads' = Threads
           /\ num_threads \in Nat
           /\ num_iterations \in Nat
<1>1. UNCHANGED args
  BY DEF Next, Thread, MainThread, Ended, vars, args, LeaveMain, LeaveMemory,
         BeginOp, TurnAround, Return, SpinAcquire, MutexLock, Load, Store, SpinRelease,
         MutexUnlock, LoadOld, CompareAndSwap, CreateThread, CreateFails, AllCreated,
         JoinThread, DivideByZero, Report
<1>2. num_threads \in Nat /\ num_iterations \in Nat
  BY ArgumentsAssumption DEF TypeOK
<1>3. QED
  BY <1>1, <1>2 DEF Threads, args

\* The numbers a thread stores are integers.
LEMMA SumTypes ==
    ASSUME TypeOK, NEW t \in Threads
    PROVE  my_counter + value[t] \in Int /\ reg[t] + value[t] \in Int
<1>1. value[t] \in {1, -1} /\ reg[t] \in Int /\ my_counter \in Int
  BY DEF TypeOK
<1>2. QED
  BY <1>1

\* main's index names a thread until it has passed the last one.
LEMMA MainIndex ==
    ASSUME TypeOK
    PROVE  /\ main_i < num_threads => main_i \in Threads /\ main_i + 1 \in 0 .. num_threads
           /\ main_i >= num_threads => \A t \in Threads : t < main_i
<1>1. num_threads \in Nat /\ main_i \in 0 .. num_threads
  BY ArgumentsAssumption DEF TypeOK
<1>2. QED
  BY <1>1 DEF Threads

\* Wrapping a number around gives a number.
LEMMA ToIntType == ASSUME NEW x \in Int PROVE ToInt(x) \in Int
<1> DEFINE half == IntModulus \div 2
<1>1. half \in Int /\ IntModulus \in Int /\ IntModulus > 0
  BY ArgumentsAssumption
<1>2. (x + half) % IntModulus \in Int
  BY <1>1
<1>3. QED
  BY <1>1, <1>2 DEF ToInt

LEMMA OpsType == TypeOK => my_ops \in Int
<1> SUFFICES ASSUME TypeOK PROVE my_ops \in Int
  OBVIOUS
<1>1. num_threads \in Int /\ num_iterations \in Int
  BY ArgumentsAssumption DEF TypeOK
<1>2. num_threads * num_iterations \in Int
  BY <1>1
<1>3. num_threads * num_iterations * 2 \in Int
  BY <1>2
<1>4. QED
  BY <1>3, ToIntType DEF my_ops

\* Every step keeps the types; the places bound the loop index.
LEMMA TypeStep ==
    ASSUME TypeOK, PlaceInv, [Next]_vars
    PROVE  TypeOK'
<1> USE ArgumentsAssumption, ArgumentsStay
    DEF TypeOK, PlaceInv, At, GoTo, NextIteration, LeaveMain, LeaveMemory, MainAt,
        AllJoined, args, Locked, Places, Statuses, OpStart, NoThread
<1>1. ASSUME NEW t \in Threads, BeginOp(t) PROVE TypeOK'
  BY <1>1 DEF BeginOp
<1>2. ASSUME NEW t \in Threads, TurnAround(t) PROVE TypeOK'
  BY <1>2 DEF TurnAround
<1>3. ASSUME NEW t \in Threads, Return(t) PROVE TypeOK'
  BY <1>3 DEF Return
<1>4. ASSUME NEW t \in Threads, SpinAcquire(t) PROVE TypeOK'
  BY <1>4 DEF SpinAcquire
<1>5. ASSUME NEW t \in Threads, MutexLock(t) PROVE TypeOK'
  BY <1>5 DEF MutexLock
<1>6. ASSUME NEW t \in Threads, Load(t) PROVE TypeOK'
  <2>1. my_counter + value[t] \in Int
    BY SumTypes
  <2>2. reg' \in [Threads -> Int]
    BY <1>6, <2>1 DEF Load
  <2>3. QED
    BY <1>6, <2>2 DEF Load
<1>7. ASSUME NEW t \in Threads, Store(t) PROVE TypeOK'
  <2>1. i[t] + 1 \in 0 .. num_iterations
    BY <1>7 DEF Store
  <2>2. i' \in [Threads -> 0 .. num_iterations]
    BY <1>7, <2>1 DEF Store
  <2>3. pc' \in [Threads -> Places]
    BY <1>7 DEF Store
  <2>4. QED
    BY <1>7, <2>2, <2>3 DEF Store
<1>8. ASSUME NEW t \in Threads, SpinRelease(t) PROVE TypeOK'
  BY <1>8 DEF SpinRelease
<1>9. ASSUME NEW t \in Threads, MutexUnlock(t) PROVE TypeOK'
  BY <1>9 DEF MutexUnlock
<1>10. ASSUME NEW t \in Threads, LoadOld(t) PROVE TypeOK'
  BY <1>10 DEF LoadOld
<1>11. ASSUME NEW t \in Threads, CompareAndSwap(t) PROVE TypeOK'
  <2>1. i[t] + 1 \in 0 .. num_iterations
    BY <1>11 DEF CompareAndSwap
  <2>2. i' \in [Threads -> 0 .. num_iterations]
    BY <1>11, <2>1 DEF CompareAndSwap
  <2>3. my_counter' \in Int
    <3>1. reg[t] + value[t] \in Int
      BY SumTypes
    <3>2. QED
      BY <1>11, <3>1 DEF CompareAndSwap
  <2>4. pc' \in [Threads -> Places]
    BY <1>11 DEF CompareAndSwap
  <2>5. QED
    BY <1>11, <2>2, <2>3, <2>4 DEF CompareAndSwap
<1>12. CASE CreateThread
  <2>1. main_i < num_threads
    BY <1>12 DEF CreateThread
  <2>2. main_i \in Threads /\ main_i + 1 \in 0 .. num_threads
    BY <2>1, MainIndex
  <2>3. pc' \in [Threads -> Places]
    BY <1>12, <2>2 DEF CreateThread
  <2>4. QED
    BY <1>12, <2>2, <2>3 DEF CreateThread
<1>13. CASE CreateFails
  BY <1>13 DEF CreateFails
<1>14. CASE AllCreated
  BY <1>14 DEF AllCreated
<1>15. CASE JoinThread
  BY <1>15 DEF JoinThread
<1>16. CASE DivideByZero
  BY <1>16 DEF DivideByZero
<1>17. CASE Report
  <2>1. my_ops \in Int
    BY OpsType
  <2>2. QED
    BY <1>17, <2>1 DEF Report
<1>18. CASE UNCHANGED vars
  BY <1>18 DEF vars
<1>19. QED
  BY <1>1, <1>2, <1>3, <1>4, <1>5, <1>6, <1>7, <1>8, <1>9,
     <1>10, <1>11, <1>12, <1>13, <1>14, <1>15, <1>16, <1>17, <1>18
     DEF Next, Thread, MainThread, Ended

LEMMA PlaceStep ==
    ASSUME TypeOK, PlaceInv, [Next]_vars
    PROVE  PlaceInv'
<1> USE ArgumentsStay
    DEF TypeOK, PlaceInv, At, GoTo, NextIteration, LeaveMain, LeaveMemory, MainAt,
        AllJoined, args, Locked, OpStart
<1>1. ASSUME NEW t \in Threads, BeginOp(t) PROVE PlaceInv'
  BY <1>1 DEF BeginOp
<1>2. ASSUME NEW t \in Threads, TurnAround(t) PROVE PlaceInv'
  BY <1>2 DEF TurnAround
<1>3. ASSUME NEW t \in Threads, Return(t) PROVE PlaceInv'
  <2>1. i[t] = num_iterations
    BY <1>3 DEF Return
  <2>2. QED
    BY <1>3, <2>1 DEF Return
<1>4. ASSUME NEW t \in Threads, SpinAcquire(t) PROVE PlaceInv'
  BY <1>4 DEF SpinAcquire
<1>5. ASSUME NEW t \in Threads, MutexLock(t) PROVE PlaceInv'
  BY <1>5 DEF MutexLock
<1>6. ASSUME NEW t \in Threads, Load(t) PROVE PlaceInv'
  BY <1>6 DEF Load
<1>7. ASSUME NEW t \in Threads, Store(t) PROVE PlaceInv'
  BY <1>7 DEF Store
<1>8. ASSUME NEW t \in Threads, SpinRelease(t) PROVE PlaceInv'
  BY <1>8 DEF SpinRelease
<1>9. ASSUME NEW t \in Threads, MutexUnlock(t) PROVE PlaceInv'
  BY <1>9 DEF MutexUnlock
<1>10. ASSUME NEW t \in Threads, LoadOld(t) PROVE PlaceInv'
  BY <1>10 DEF LoadOld
<1>11. ASSUME NEW t \in Threads, CompareAndSwap(t) PROVE PlaceInv'
  BY <1>11 DEF CompareAndSwap
<1>12. CASE CreateThread
  BY <1>12 DEF CreateThread
<1>13. CASE CreateFails
  BY <1>13 DEF CreateFails
<1>14. CASE AllCreated
  BY <1>14 DEF AllCreated
<1>15. CASE JoinThread
  BY <1>15 DEF JoinThread
<1>16. CASE DivideByZero
  BY <1>16 DEF DivideByZero
<1>17. CASE Report
  BY <1>17 DEF Report
<1>18. CASE UNCHANGED vars
  BY <1>18 DEF vars
<1>19. QED
  BY <1>1, <1>2, <1>3, <1>4, <1>5, <1>6, <1>7, <1>8, <1>9,
     <1>10, <1>11, <1>12, <1>13, <1>14, <1>15, <1>16, <1>17, <1>18
     DEF Next, Thread, MainThread, Ended

LEMMA MainStep ==
    ASSUME TypeOK, PlaceInv, MainInv, [Next]_vars
    PROVE  MainInv'
<1> USE ArgumentsStay
    DEF TypeOK, PlaceInv, MainInv, At, GoTo, LeaveMain, LeaveMemory, MainAt,
        AllJoined, args, Threads, NextIteration, OpStart, my_ops
<1>1. ASSUME NEW t \in Threads, BeginOp(t) PROVE MainInv'
  BY <1>1 DEF BeginOp
<1>2. ASSUME NEW t \in Threads, TurnAround(t) PROVE MainInv'
  BY <1>2 DEF TurnAround
<1>3. ASSUME NEW t \in Threads, Return(t) PROVE MainInv'
  BY <1>3 DEF Return
<1>4. ASSUME NEW t \in Threads, SpinAcquire(t) PROVE MainInv'
  BY <1>4 DEF SpinAcquire
<1>5. ASSUME NEW t \in Threads, MutexLock(t) PROVE MainInv'
  BY <1>5 DEF MutexLock
<1>6. ASSUME NEW t \in Threads, Load(t) PROVE MainInv'
  BY <1>6 DEF Load
<1>7. ASSUME NEW t \in Threads, Store(t) PROVE MainInv'
  BY <1>7 DEF Store
<1>8. ASSUME NEW t \in Threads, SpinRelease(t) PROVE MainInv'
  BY <1>8 DEF SpinRelease
<1>9. ASSUME NEW t \in Threads, MutexUnlock(t) PROVE MainInv'
  BY <1>9 DEF MutexUnlock
<1>10. ASSUME NEW t \in Threads, LoadOld(t) PROVE MainInv'
  BY <1>10 DEF LoadOld
<1>11. ASSUME NEW t \in Threads, CompareAndSwap(t) PROVE MainInv'
  BY <1>11 DEF CompareAndSwap
<1>12. CASE CreateThread
  BY <1>12 DEF CreateThread
<1>13. CASE CreateFails
  BY <1>13 DEF CreateFails
<1>14. CASE AllCreated
  BY <1>14 DEF AllCreated
<1>15. CASE JoinThread
  BY <1>15 DEF JoinThread
<1>16. CASE DivideByZero
  BY <1>16 DEF DivideByZero
<1>17. CASE Report
  <2>1. \A u \in Threads : u < main_i
    BY <1>17, MainIndex DEF Report
  <2>2. \A u \in Threads : pc[u] = "done"
    BY <1>17, <2>1 DEF Report
  <2>3. report' = [ops |-> my_ops', counter |-> my_counter']
    BY <1>17 DEF Report, my_ops
  <2>4. QED
    BY <1>17, <2>2, <2>3 DEF Report
<1>18. CASE UNCHANGED vars
  BY <1>18 DEF vars
<1>19. QED
  BY <1>1, <1>2, <1>3, <1>4, <1>5, <1>6, <1>7, <1>8, <1>9,
     <1>10, <1>11, <1>12, <1>13, <1>14, <1>15, <1>16, <1>17, <1>18
     DEF Next, Thread, MainThread, Ended

\* Taking the lock needs it free, and whoever is inside holds it.
LEMMA LockStep ==
    ASSUME TypeOK, PlaceInv, MainInv, LockInv, MutualExclusion, [Next]_vars
    PROVE  LockInv' /\ MutualExclusion'
<1> USE ArgumentsStay
    DEF TypeOK, PlaceInv, Threads, LockInv, MutualExclusion, InCritical, At, GoTo, LeaveMain, LeaveMemory,
        MainAt, args, NextIteration, Locked, OpStart, NoThread, AllJoined
<1>1. ASSUME NEW t \in Threads, BeginOp(t) PROVE (LockInv /\ MutualExclusion)'
  BY <1>1 DEF BeginOp
<1>2. ASSUME NEW t \in Threads, TurnAround(t) PROVE (LockInv /\ MutualExclusion)'
  BY <1>2 DEF TurnAround
<1>3. ASSUME NEW t \in Threads, Return(t) PROVE (LockInv /\ MutualExclusion)'
  BY <1>3 DEF Return
<1>4. ASSUME NEW t \in Threads, SpinAcquire(t) PROVE (LockInv /\ MutualExclusion)'
  BY <1>4 DEF SpinAcquire
<1>5. ASSUME NEW t \in Threads, MutexLock(t) PROVE (LockInv /\ MutualExclusion)'
  BY <1>5 DEF MutexLock
<1>6. ASSUME NEW t \in Threads, Load(t) PROVE (LockInv /\ MutualExclusion)'
  BY <1>6 DEF Load
<1>7. ASSUME NEW t \in Threads, Store(t) PROVE (LockInv /\ MutualExclusion)'
  <2>1. CASE Locked
    BY <1>7, <2>1 DEF Store
  <2>2. CASE ~Locked
    BY <1>7, <2>2 DEF Store
  <2>3. QED
    BY <2>1, <2>2
<1>8. ASSUME NEW t \in Threads, SpinRelease(t) PROVE (LockInv /\ MutualExclusion)'
  BY <1>8 DEF SpinRelease
<1>9. ASSUME NEW t \in Threads, MutexUnlock(t) PROVE (LockInv /\ MutualExclusion)'
  BY <1>9 DEF MutexUnlock
<1>10. ASSUME NEW t \in Threads, LoadOld(t) PROVE (LockInv /\ MutualExclusion)'
  BY <1>10 DEF LoadOld
<1>11. ASSUME NEW t \in Threads, CompareAndSwap(t) PROVE (LockInv /\ MutualExclusion)'
  BY <1>11 DEF CompareAndSwap
<1>12. CASE CreateThread
  BY <1>12 DEF CreateThread
<1>13. CASE CreateFails
  BY <1>13 DEF CreateFails
<1>14. CASE AllCreated
  BY <1>14 DEF AllCreated
<1>15. CASE JoinThread
  BY <1>15 DEF JoinThread
<1>16. CASE DivideByZero
  BY <1>16 DEF DivideByZero
<1>17. CASE Report
  BY <1>17 DEF Report
<1>18. CASE UNCHANGED vars
  BY <1>18 DEF vars
<1>19. QED
  BY <1>1, <1>2, <1>3, <1>4, <1>5, <1>6, <1>7, <1>8, <1>9,
     <1>10, <1>11, <1>12, <1>13, <1>14, <1>15, <1>16, <1>17, <1>18
     DEF Next, Thread, MainThread, Ended

\* Nobody else stores between a locked thread's load and its store.
LEMMA FreshStep ==
    ASSUME TypeOK, PlaceInv, MutualExclusion, FreshInv, [Next]_vars
    PROVE  FreshInv'
<1> USE ArgumentsStay
    DEF TypeOK, PlaceInv, FreshInv, MutualExclusion, InCritical, At, GoTo, LeaveMain, LeaveMemory,
        MainAt, args, NextIteration, Locked, OpStart, AllJoined
<1>1. ASSUME NEW t \in Threads, BeginOp(t) PROVE FreshInv'
  BY <1>1 DEF BeginOp
<1>2. ASSUME NEW t \in Threads, TurnAround(t) PROVE FreshInv'
  BY <1>2 DEF TurnAround
<1>3. ASSUME NEW t \in Threads, Return(t) PROVE FreshInv'
  BY <1>3 DEF Return
<1>4. ASSUME NEW t \in Threads, SpinAcquire(t) PROVE FreshInv'
  BY <1>4 DEF SpinAcquire
<1>5. ASSUME NEW t \in Threads, MutexLock(t) PROVE FreshInv'
  BY <1>5 DEF MutexLock
<1>6. ASSUME NEW t \in Threads, Load(t) PROVE FreshInv'
  BY <1>6 DEF Load
<1>7. ASSUME NEW t \in Threads, Store(t) PROVE FreshInv'
  BY <1>7 DEF Store
<1>8. ASSUME NEW t \in Threads, SpinRelease(t) PROVE FreshInv'
  BY <1>8 DEF SpinRelease
<1>9. ASSUME NEW t \in Threads, MutexUnlock(t) PROVE FreshInv'
  BY <1>9 DEF MutexUnlock
<1>10. ASSUME NEW t \in Threads, LoadOld(t) PROVE FreshInv'
  BY <1>10 DEF LoadOld
<1>11. ASSUME NEW t \in Threads, CompareAndSwap(t) PROVE FreshInv'
  BY <1>11 DEF CompareAndSwap
<1>12. CASE CreateThread
  BY <1>12 DEF CreateThread
<1>13. CASE CreateFails
  BY <1>13 DEF CreateFails
<1>14. CASE AllCreated
  BY <1>14 DEF AllCreated
<1>15. CASE JoinThread
  BY <1>15 DEF JoinThread
<1>16. CASE DivideByZero
  BY <1>16 DEF DivideByZero
<1>17. CASE Report
  BY <1>17 DEF Report
<1>18. CASE UNCHANGED vars
  BY <1>18 DEF vars
<1>19. QED
  BY <1>1, <1>2, <1>3, <1>4, <1>5, <1>6, <1>7, <1>8, <1>9,
     <1>10, <1>11, <1>12, <1>13, <1>14, <1>15, <1>16, <1>17, <1>18
     DEF Next, Thread, MainThread, Ended

-----------------------------------------------------------------------------
(* What a step does to the numbers of operations done.                     *)

\* Thread t does one operation of those that add v, whatever it writes.
CountOne(t, v) ==
    /\ value[t] = v
    /\ DoneCount(t, v) < num_iterations
    /\ v = -1 => DoneCount(t, 1) = num_iterations
    /\ \A u \in Threads : \A w \in {1, -1} :
           DoneCount(u, w)' = IF u = t /\ w = v THEN DoneCount(u, w) + 1
                                              ELSE DoneCount(u, w)

\* Thread t does one operation, which adds v.
OneOp(t, v) == CountOne(t, v) /\ my_counter' = my_counter + v

\* No operation is done.
NoOp ==
    /\ my_counter' = my_counter
    /\ \A u \in Threads : \A w \in {1, -1} : DoneCount(u, w)' = DoneCount(u, w)

\* Thread t does one operation: it adds v to the counter, or it stores what it
\* made of the counter before.
OneWrite(t, v) ==
    /\ CountOne(t, v)
    /\ my_counter' = my_counter + v \/ (pc[t] = "store" /\ my_counter' = reg[t])

\* A step does no operation or one of one thread.
LEMMA StepWrites ==
    ASSUME TypeOK, PlaceInv, MainInv, [Next]_vars
    PROVE  NoOp \/ \E t \in Threads : \E v \in {1, -1} : OneWrite(t, v)
<1> USE ArgumentsStay
    DEF TypeOK, PlaceInv, NoOp, DoneCount, At, GoTo, NextIteration, LeaveMain,
        LeaveMemory, MainAt, AllJoined, args, Locked, OpStart
<1>1. ASSUME NEW t \in Threads, BeginOp(t) PROVE NoOp
  BY <1>1 DEF BeginOp
<1>2. ASSUME NEW t \in Threads, TurnAround(t) PROVE NoOp
  BY <1>2 DEF TurnAround
<1>3. ASSUME NEW t \in Threads, Return(t) PROVE NoOp
  BY <1>3 DEF Return
<1>4. ASSUME NEW t \in Threads, SpinAcquire(t) PROVE NoOp
  BY <1>4 DEF SpinAcquire
<1>5. ASSUME NEW t \in Threads, MutexLock(t) PROVE NoOp
  BY <1>5 DEF MutexLock
<1>6. ASSUME NEW t \in Threads, Load(t) PROVE NoOp
  BY <1>6 DEF Load
<1>7. ASSUME NEW t \in Threads, Store(t) PROVE \E v \in {1, -1} : OneWrite(t, v)
  <2>1. PICK v \in {1, -1} : value[t] = v
    OBVIOUS
  <2>2. OneWrite(t, v)
    <3>1. CASE Locked
      BY <1>7, <2>1, <3>1 DEF Store, OneWrite, CountOne
    <3>2. CASE ~Locked
      BY <1>7, <2>1, <3>2 DEF Store, OneWrite, CountOne
    <3>3. QED
      BY <3>1, <3>2
  <2>3. QED
    BY <2>2
<1>8. ASSUME NEW t \in Threads, SpinRelease(t) PROVE NoOp
  BY <1>8 DEF SpinRelease
<1>9. ASSUME NEW t \in Threads, MutexUnlock(t) PROVE NoOp
  BY <1>9 DEF MutexUnlock
<1>10. ASSUME NEW t \in Threads, LoadOld(t) PROVE NoOp
  BY <1>10 DEF LoadOld
<1>11. ASSUME NEW t \in Threads, CompareAndSwap(t) 
      PROVE NoOp \/ \E v \in {1, -1} : OneWrite(t, v)
  <2>1. CASE my_counter = reg[t]
    <3>1. PICK v \in {1, -1} : value[t] = v
      OBVIOUS
    <3>2. OneWrite(t, v)
      BY <1>11, <2>1, <3>1 DEF CompareAndSwap, OneWrite, CountOne
    <3>3. QED
      BY <3>2
  <2>2. CASE my_counter # reg[t]
    BY <1>11, <2>2 DEF CompareAndSwap
  <2>3. QED
    BY <2>1, <2>2
<1>12. CASE CreateThread
  <2>1. main_i \in Threads /\ pc[main_i] = "unborn"
    BY <1>12, MainIndex DEF CreateThread, MainInv
  <2>2. QED
    BY <1>12, <2>1 DEF CreateThread
<1>13. CASE CreateFails
  BY <1>13 DEF CreateFails
<1>14. CASE AllCreated
  BY <1>14 DEF AllCreated
<1>15. CASE JoinThread
  BY <1>15 DEF JoinThread
<1>16. CASE DivideByZero
  BY <1>16 DEF DivideByZero
<1>17. CASE Report
  BY <1>17 DEF Report
<1>18. CASE UNCHANGED vars
  BY <1>18 DEF vars
<1>19. QED
  BY <1>1, <1>2, <1>3, <1>4, <1>5, <1>6, <1>7, <1>8, <1>9,
     <1>10, <1>11, <1>12, <1>13, <1>14, <1>15, <1>16, <1>17, <1>18
     DEF Next, Thread, MainThread, Ended

\* With any synchronisation what it writes is the counter with v added.
LEMMA StepEffect ==
    ASSUME TypeOK, PlaceInv, MainInv, FreshInv, my_lock # "n", [Next]_vars
    PROVE  NoOp \/ \E t \in Threads : \E v \in {1, -1} : OneOp(t, v)
<1>1. \A t \in Threads : pc[t] = "store" => reg[t] = my_counter + value[t]
  BY ArgumentsAssumption DEF PlaceInv, FreshInv, Locked, TypeOK
<1>2. ASSUME NEW t \in Threads, NEW v \in {1, -1}, OneWrite(t, v) PROVE OneOp(t, v)
  BY <1>1, <1>2 DEF OneWrite, CountOne, OneOp
<1>3. QED
  BY <1>2, StepWrites

-----------------------------------------------------------------------------
(* The counter is the additions done less the subtractions done.           *)

LEMMA OperationsFinite ==
    ASSUME TypeOK
    PROVE  /\ IsFiniteSet(Operations)
           /\ Cardinality(Operations) = num_threads * num_iterations
           /\ \A v : IsFiniteSet(DoneOps(v)) /\ Cardinality(DoneOps(v)) \in Nat
<1>1. num_threads \in Nat /\ num_iterations \in Nat
  BY ArgumentsAssumption DEF TypeOK
<1>2. IsFiniteSet(Threads) /\ Cardinality(Threads) = num_threads
  <2>1. num_threads - 1 \in Int /\ (0 > num_threads - 1 => num_threads = 0)
    BY <1>1
  <2>2. QED
    BY <1>1, <2>1, FS_Interval DEF Threads
<1>3. /\ IsFiniteSet(0 .. num_iterations - 1)
      /\ Cardinality(0 .. num_iterations - 1) = num_iterations
  <2>1. num_iterations - 1 \in Int /\ (0 > num_iterations - 1 => num_iterations = 0)
    BY <1>1
  <2>2. QED
    BY <1>1, <2>1, FS_Interval
<1>4. IsFiniteSet(Operations) /\ Cardinality(Operations) = num_threads * num_iterations
  BY <1>2, <1>3, FS_Product DEF Operations
<1>5. \A v : DoneOps(v) \in SUBSET Operations
  BY DEF DoneOps
<1>6. \A v : IsFiniteSet(DoneOps(v)) /\ Cardinality(DoneOps(v)) \in Nat
  BY <1>4, <1>5, FS_Subset, FS_CardinalityType
<1>7. QED
  BY <1>4, <1>6

\* An operation adds itself to the set of those done, and leaves the other set.
LEMMA CountOneOp ==
    ASSUME TypeOK, [Next]_vars, NEW t \in Threads, NEW v \in {1, -1}, CountOne(t, v),
           NEW w \in {1, -1}
    PROVE  Cardinality(DoneOps(w)') =
               IF w = v THEN Cardinality(DoneOps(w)) + 1 ELSE Cardinality(DoneOps(w))
<1>1. Operations' = Operations
  BY ArgumentsStay DEF Operations, args
<1>2. DoneCount(t, v) \in 0 .. num_iterations - 1
  <2>1. i[t] \in 0 .. num_iterations /\ num_iterations \in Nat
    BY ArgumentsStay DEF TypeOK
  <2>2. QED
    BY <2>1 DEF CountOne, DoneCount
<1>3. \A o \in Operations : o[1] \in Threads /\ o[2] \in Int
  BY DEF Operations
<1>4. CASE w = v
  <2> DEFINE new == <<t, DoneCount(t, v)>>
  <2>1. new \in Operations /\ new \notin DoneOps(v)
    BY <1>2 DEF Operations, DoneOps
  <2>2. \A o \in Operations : o[2] < DoneCount(o[1], v)'
                               <=> o[2] < DoneCount(o[1], v) \/ o = new
    <3> SUFFICES ASSUME NEW o \in Operations
                 PROVE  o[2] < DoneCount(o[1], v)' <=> o[2] < DoneCount(o[1], v) \/ o = new
      OBVIOUS
    <3>1. PICK u \in Threads, k \in 0 .. num_iterations - 1 : o = <<u, k>>
      BY DEF Operations
    <3>2. CASE u = t
      BY <1>2, <3>1, <3>2 DEF CountOne
    <3>3. CASE u # t
      BY <3>1, <3>3 DEF CountOne
    <3>4. QED
      BY <3>2, <3>3
  <2>3. DoneOps(v)' = DoneOps(v) \cup {new}
    BY <1>1, <2>1, <2>2 DEF DoneOps
  <2>4. QED
    BY <1>4, <2>1, <2>3, OperationsFinite, FS_AddElement
<1>5. CASE w # v
  <2>1. \A u \in Threads : DoneCount(u, w)' = DoneCount(u, w)
    BY <1>5 DEF CountOne
  <2>2. DoneOps(w)' = DoneOps(w)
    BY <1>1, <1>3, <2>1 DEF DoneOps
  <2>3. QED
    BY <1>5, <2>2
<1>6. QED
  BY <1>4, <1>5

LEMMA CountStep ==
    ASSUME TypeOK, PlaceInv, MainInv, FreshInv, CounterExact, [Next]_vars
    PROVE  CounterExact'
<1> SUFFICES ASSUME my_lock # "n"
             PROVE  my_counter' = Cardinality(DoneOps(1)') - Cardinality(DoneOps(-1)')
  BY ArgumentsStay DEF CounterExact, args
<1>1. my_counter = Cardinality(DoneOps(1)) - Cardinality(DoneOps(-1))
  BY DEF CounterExact
<1>2. Cardinality(DoneOps(1)) \in Nat /\ Cardinality(DoneOps(-1)) \in Nat
  BY OperationsFinite
<1>3. CASE NoOp
  <2>1. Operations' = Operations /\ \A o \in Operations : o[1] \in Threads
    BY ArgumentsStay DEF Operations, args
  <2>2. DoneOps(1)' = DoneOps(1) /\ DoneOps(-1)' = DoneOps(-1)
    BY <1>3, <2>1 DEF NoOp, DoneOps
  <2>3. QED
    BY <1>1, <1>3, <2>2 DEF NoOp
<1>4. ASSUME NEW t \in Threads, NEW v \in {1, -1}, OneOp(t, v)
      PROVE  my_counter' = Cardinality(DoneOps(1)') - Cardinality(DoneOps(-1)')
  <2>1. my_counter' = my_counter + v
    BY <1>4 DEF OneOp
  <2>2. Cardinality(DoneOps(1)') =
            IF v = 1 THEN Cardinality(DoneOps(1)) + 1 ELSE Cardinality(DoneOps(1))
    BY <1>4, CountOneOp DEF OneOp
  <2>3. Cardinality(DoneOps(-1)') =
            IF v = -1 THEN Cardinality(DoneOps(-1)) + 1 ELSE Cardinality(DoneOps(-1))
    BY <1>4, CountOneOp DEF OneOp
  <2>4. QED
    BY <1>1, <1>2, <2>1, <2>2, <2>3
<1>5. QED
  BY <1>3, <1>4, StepEffect

-----------------------------------------------------------------------------
(* The inductive invariant and what follows from it.                       *)

IInv ==
    /\ TypeOK
    /\ PlaceInv
    /\ MainInv
    /\ LockInv
    /\ MutualExclusion
    /\ FreshInv
    /\ CounterExact

LEMMA NoneDone ==
    ASSUME Init
    PROVE  DoneOps(1) = {} /\ DoneOps(-1) = {}
<1>1. \A o \in Operations : o[1] \in Threads /\ ~(o[2] < 0)
  BY DEF Operations
<1>2. \A t \in Threads : DoneCount(t, 1) = 0 /\ DoneCount(t, -1) = 0
  BY DEF DoneCount, Init
<1>3. QED
  BY <1>1, <1>2 DEF DoneOps

LEMMA InitIInv == Init => IInv
<1> SUFFICES ASSUME Init PROVE IInv
  OBVIOUS
<1>1. TypeOK /\ PlaceInv
  BY TypeInit
<1>2. MainInv /\ LockInv /\ MutualExclusion /\ FreshInv
  BY DEF Init, MainInv, LockInv, MutualExclusion, InCritical, FreshInv
<1>3. CounterExact
  BY NoneDone, FS_EmptySet DEF CounterExact, Init
<1>4. QED
  BY <1>1, <1>2, <1>3 DEF IInv

LEMMA NextIInv == IInv /\ [Next]_vars => IInv'
  BY TypeStep, PlaceStep, MainStep, LockStep, FreshStep, CountStep DEF IInv

LEMMA Invariance == Spec => []IInv
<1>1. IInv /\ [Next]_vars => IInv'
  BY NextIInv
<1>2. QED
  BY InitIInv, <1>1, PTL DEF Spec

\* Every variable of lab2_add keeps its type.
THEOREM TypeCorrect == Spec => []TypeOK
<1>1. IInv => TypeOK
  BY DEF IInv
<1>2. QED
  BY <1>1, Invariance, PTL

\* Under the spin lock and the mutex at most one thread is between the
\* acquisition and the release, for any number of threads (runner).
THEOREM MutuallyExclusive == Spec => []MutualExclusion
<1>1. IInv => MutualExclusion
  BY DEF IInv
<1>2. QED
  BY <1>1, Invariance, PTL

\* No update is lost under --sync=s, m and c, whatever the numbers of threads
\* and iterations: the counter always is the additions done less the
\* subtractions done.
THEOREM NoUpdateLost == Spec => []CounterExact
<1>1. IInv => CounterExact
  BY DEF IInv
<1>2. QED
  BY <1>1, Invariance, PTL

\* When all threads have returned every operation is done.
LEMMA AllDone ==
    ASSUME IInv, status = "exit0", NEW v \in {1, -1}
    PROVE  DoneOps(v) = Operations
<1>1. \A t \in Threads : DoneCount(t, v) = num_iterations
  BY DEF IInv, PlaceInv, MainInv, DoneCount
<1>2. \A o \in Operations : o[1] \in Threads /\ o[2] < num_iterations
  <2>1. num_iterations \in Nat
    BY ArgumentsAssumption DEF IInv, TypeOK
  <2>2. \A o \in Operations : o[1] \in Threads /\ o[2] \in 0 .. num_iterations - 1
    BY DEF Operations
  <2>3. \A k \in 0 .. num_iterations - 1 : k < num_iterations
    BY <2>1
  <2>4. QED
    BY <2>2, <2>3
<1>3. QED
  BY <1>1, <1>2 DEF DoneOps

LEMMA ToIntSmall ==
    ASSUME NEW x \in Nat, x < IntModulus \div 2
    PROVE  ToInt(x) = x
<1> DEFINE half == IntModulus \div 2
<1>1. IntModulus \in Nat /\ IntModulus > 0
  BY ArgumentsAssumption
<1>2. half \in Nat /\ half + half <= IntModulus
  BY <1>1
<1>3. x < half
  OBVIOUS
<1>4. ToInt(x) = ((x + half) % IntModulus) - half
  BY DEF ToInt
<1> HIDE DEF half
<1>5. x + half \in Nat /\ x + half < IntModulus
  BY <1>1, <1>2, <1>3
<1>6. (x + half) % IntModulus = x + half
  BY <1>1, <1>5
<1>7. QED
  BY <1>2, <1>4, <1>6

\* With synchronisation the counter lab2_add prints is 0 (P2A_check.sh), and
\* no thread is left to change it.
THEOREM PrintsZero == Spec => []ReportedZero
<1>1. ASSUME IInv PROVE ReportedZero
  <2> SUFFICES ASSUME status = "exit0"
               PROVE  /\ \A t \in Threads : pc[t] = "done"
                      /\ report.counter = my_counter
                      /\ my_lock # "n" => report.counter = 0
    BY DEF ReportedZero
  <2>1. \A t \in Threads : pc[t] = "done"
    BY <1>1 DEF IInv, MainInv
  <2>2. report = [ops |-> my_ops, counter |-> my_counter]
    BY <1>1 DEF IInv, MainInv
  <2>3. report.counter = my_counter
    BY <2>2
  <2>4. DoneOps(1) = Operations /\ DoneOps(-1) = Operations
    BY <1>1, AllDone
  <2>5. Cardinality(Operations) \in Nat
    BY <1>1, OperationsFinite, FS_CardinalityType DEF IInv
  <2>6. my_lock # "n" => my_counter = Cardinality(Operations) - Cardinality(Operations)
    BY <1>1, <2>4 DEF IInv, CounterExact
  <2>7. Cardinality(Operations) - Cardinality(Operations) = 0
    BY <2>5
  <2>8. my_lock # "n" => my_counter = 0
    BY <2>6, <2>7
  <2>9. QED
    BY <2>1, <2>3, <2>8
<1>2. QED
  BY <1>1, Invariance, PTL

\* The number of operations lab2_add prints is the number its threads did,
\* unless it is too large for an int.
THEOREM PrintsOperations == Spec => []ReportedOps
<1>1. ASSUME IInv PROVE ReportedOps
  <2> SUFFICES ASSUME status = "exit0", 2 * Cardinality(Operations) < IntModulus \div 2
               PROVE  report.ops = Cardinality(DoneOps(1)) + Cardinality(DoneOps(-1))
    BY DEF ReportedOps
  <2> DEFINE n == Cardinality(Operations)
  <2>1. n \in Nat
    BY <1>1, OperationsFinite, FS_CardinalityType DEF IInv
  <2>2. DoneOps(1) = Operations /\ DoneOps(-1) = Operations
    BY <1>1, AllDone
  <2>3. report = [ops |-> my_ops, counter |-> my_counter]
    BY <1>1 DEF IInv, MainInv
  <2>4. my_ops = ToInt(n * 2)
    BY <1>1, OperationsFinite DEF IInv, my_ops
  <2>5. 2 * n < IntModulus \div 2
    OBVIOUS
  <2> HIDE DEF n
  <2>6. n * 2 \in Nat /\ n * 2 = 2 * n /\ n * 2 = n + n
    BY <2>1
  <2>7. my_ops = n + n
    BY <2>4, <2>5, <2>6, ToIntSmall
  <2>8. QED
    BY <2>2, <2>3, <2>7 DEF n
<1>2. QED
  BY <1>1, Invariance, PTL

\* The line lab2_add prints is true in both its numbers.
THEOREM ReportsTrue == Spec => []ReportExact
<1>1. ReportedZero /\ ReportedOps => ReportExact
  BY DEF ReportExact
<1>2. QED
  BY <1>1, PrintsZero, PrintsOperations, PTL

-----------------------------------------------------------------------------
(* Without synchronisation: the counter and the sums under way stay within  *)
(* bounds that grow with the operations done.                               *)

\* No value of the counter is larger than the additions done; none is smaller
\* than 1 less the subtractions done, once there is an addition.
CounterRange ==
    LET added == Cardinality(DoneOps(1))
        subtracted == Cardinality(DoneOps(-1))
    IN  /\ my_counter <= added
        /\ added = 0 => my_counter = 0
        /\ added # 0 => my_counter >= 1 - subtracted

\* The same of the sum a thread has made and not stored yet, which counts as an
\* operation more.  A thread that subtracts has done its additions.
SumRange ==
    LET added == Cardinality(DoneOps(1))
        subtracted == Cardinality(DoneOps(-1))
    IN  \A t \in Threads : pc[t] = "store" =>
            /\ value[t] = 1 => reg[t] <= added + 1 /\ reg[t] >= 1 - subtracted
            /\ value[t] = -1 => reg[t] <= added /\ reg[t] >= - subtracted

RaceInv == CounterRange /\ SumRange

\* A step adds at most one to the number of additions done or to that of the
\* subtractions done.
LEMMA CountsGrow ==
    ASSUME TypeOK, PlaceInv, MainInv, [Next]_vars, NEW w \in {1, -1}
    PROVE  /\ Cardinality(DoneOps(w)) \in Nat
           /\ Cardinality(DoneOps(w)') \in Nat
           /\ Cardinality(DoneOps(w)') >= Cardinality(DoneOps(w))
           /\ NoOp => Cardinality(DoneOps(w)') = Cardinality(DoneOps(w))
<1>1. Cardinality(DoneOps(w)) \in Nat
  BY OperationsFinite
<1>2. NoOp => DoneOps(w)' = DoneOps(w)
  <2>1. Operations' = Operations /\ \A o \in Operations : o[1] \in Threads
    BY ArgumentsStay DEF Operations, args
  <2>2. QED
    BY <2>1 DEF NoOp, DoneOps
<1>3. ASSUME NEW t \in Threads, NEW v \in {1, -1}, OneWrite(t, v)
      PROVE  Cardinality(DoneOps(w)') =
                 IF w = v THEN Cardinality(DoneOps(w)) + 1 ELSE Cardinality(DoneOps(w))
  BY <1>3, CountOneOp DEF OneWrite
<1>4. QED
  BY <1>1, <1>2, <1>3, StepWrites

\* A thread that subtracts has done at least one addition.
LEMMA AddedBefore ==
    ASSUME TypeOK, NEW t \in Threads, DoneCount(t, 1) = num_iterations, num_iterations > 0
    PROVE  Cardinality(DoneOps(1)) # 0
<1>1. num_iterations \in Nat
  BY ArgumentsAssumption DEF TypeOK
<1>2. <<t, 0>> \in DoneOps(1)
  BY <1>1 DEF DoneOps, Operations
<1>3. QED
  BY <1>2, OperationsFinite, FS_EmptySet

LEMMA CounterRangeStep ==
    ASSUME TypeOK, PlaceInv, MainInv, RaceInv, [Next]_vars
    PROVE  CounterRange'
<1> DEFINE added == Cardinality(DoneOps(1))
           subtracted == Cardinality(DoneOps(-1))
<1>1. /\ added \in Nat /\ subtracted \in Nat /\ my_counter \in Int
      /\ my_counter <= added
      /\ added = 0 => my_counter = 0
      /\ added # 0 => my_counter >= 1 - subtracted
  BY OperationsFinite DEF TypeOK, RaceInv, CounterRange
<1>2. CASE NoOp
  <2>1. added' = added /\ subtracted' = subtracted
    BY <1>2, CountsGrow
  <2>2. QED
    BY <1>1, <1>2, <2>1 DEF NoOp, CounterRange
<1>3. ASSUME NEW t \in Threads, NEW v \in {1, -1}, OneWrite(t, v)
      PROVE  CounterRange'
  <2>1. /\ added' = IF v = 1 THEN added + 1 ELSE added
        /\ subtracted' = IF v = -1 THEN subtracted + 1 ELSE subtracted
    BY <1>3, CountOneOp DEF OneWrite
  <2>2. v = -1 => added # 0
    <3>1. v = -1 => DoneCount(t, 1) = num_iterations
      BY <1>3 DEF OneWrite, CountOne
    <3>2. num_iterations > 0
      BY <1>3, ArgumentsStay DEF OneWrite, CountOne, DoneCount, TypeOK
    <3>3. QED
      BY <3>1, <3>2, AddedBefore
  <2>3. /\ v = 1 => my_counter' <= added + 1 /\ my_counter' >= 1 - subtracted
        /\ v = -1 => my_counter' <= added /\ my_counter' >= - subtracted
    <3>1. CASE my_counter' = my_counter + v
      <4>1. CASE v = 1
        BY <1>1, <3>1, <4>1
      <4>2. CASE v = -1
        BY <1>1, <2>2, <3>1, <4>2
      <4>3. QED
        BY <4>1, <4>2
    <3>2. CASE pc[t] = "store" /\ my_counter' = reg[t]
      BY <1>3, <3>2 DEF OneWrite, CountOne, RaceInv, SumRange
    <3>3. QED
      BY <1>3, <3>1, <3>2 DEF OneWrite
  <2>4. my_counter' \in Int
    BY TypeStep DEF TypeOK
  <2> HIDE DEF added, subtracted
  <2>5. /\ my_counter' <= added'
        /\ added' = 0 => my_counter' = 0
        /\ added' # 0 => my_counter' >= 1 - subtracted'
    <3>1. CASE v = 1
      <4>1. added' = added + 1 /\ subtracted' = subtracted
        BY <2>1, <3>1
      <4>2. QED
        BY <1>1, <2>3, <2>4, <3>1, <4>1
    <3>2. CASE v = -1
      <4>1. added' = added /\ subtracted' = subtracted + 1
        BY <2>1, <3>2
      <4>2. QED
        BY <1>1, <2>2, <2>3, <2>4, <3>2, <4>1
    <3>3. QED
      BY <3>1, <3>2
  <2>6. QED
    BY <2>5 DEF CounterRange, added, subtracted
<1>4. QED
  BY <1>2, <1>3, StepWrites

\* A sum that is not stored after a step was there before it, or was made of the
\* counter in a step that does no operation.
LEMMA SumsMade ==
    ASSUME TypeOK, PlaceInv, MainInv, [Next]_vars, NEW t \in Threads, pc'[t] = "store"
    PROVE  /\ value'[t] = value[t]
           /\ \/ pc[t] = "store" /\ reg'[t] = reg[t]
              \/ NoOp /\ pc[t] = "load" /\ reg'[t] = my_counter + value[t]
<1> USE ArgumentsStay
    DEF TypeOK, PlaceInv, NoOp, DoneCount, At, GoTo, NextIteration, LeaveMain,
        LeaveMemory, MainAt, AllJoined, args, Locked, OpStart
<1> DEFINE Kept == value'[t] = value[t] /\ pc[t] = "store" /\ reg'[t] = reg[t]
<1>1. ASSUME NEW u \in Threads, BeginOp(u) PROVE Kept
  BY <1>1 DEF BeginOp
<1>2. ASSUME NEW u \in Threads, TurnAround(u) PROVE Kept
  BY <1>2 DEF TurnAround
<1>3. ASSUME NEW u \in Threads, Return(u) PROVE Kept
  BY <1>3 DEF Return
<1>4. ASSUME NEW u \in Threads, SpinAcquire(u) PROVE Kept
  BY <1>4 DEF SpinAcquire
<1>5. ASSUME NEW u \in Threads, MutexLock(u) PROVE Kept
  BY <1>5 DEF MutexLock
<1>6. ASSUME NEW u \in Threads, Load(u)
      PROVE  Kept \/ (NoOp /\ value'[t] = value[t] /\ pc[t] = "load"
                            /\ reg'[t] = my_counter + value[t])
  BY <1>6 DEF Load
<1>7. ASSUME NEW u \in Threads, Store(u) PROVE Kept
  BY <1>7 DEF Store
<1>8. ASSUME NEW u \in Threads, SpinRelease(u) PROVE Kept
  BY <1>8 DEF SpinRelease
<1>9. ASSUME NEW u \in Threads, MutexUnlock(u) PROVE Kept
  BY <1>9 DEF MutexUnlock
<1>10. ASSUME NEW u \in Threads, LoadOld(u) PROVE Kept
  BY <1>10 DEF LoadOld
<1>11. ASSUME NEW u \in Threads, CompareAndSwap(u) PROVE Kept
  BY <1>11 DEF CompareAndSwap
<1>12. CASE CreateThread
  BY <1>12 DEF CreateThread
<1>13. CASE CreateFails
  BY <1>13 DEF CreateFails
<1>14. CASE AllCreated
  BY <1>14 DEF AllCreated
<1>15. CASE JoinThread
  BY <1>15 DEF JoinThread
<1>16. CASE DivideByZero
  BY <1>16 DEF DivideByZero
<1>17. CASE Report
  BY <1>17 DEF Report
<1>18. CASE UNCHANGED vars
  BY <1>18 DEF vars
<1>19. QED
  BY <1>1, <1>2, <1>3, <1>4, <1>5, <1>6, <1>7, <1>8, <1>9,
     <1>10, <1>11, <1>12, <1>13, <1>14, <1>15, <1>16, <1>17, <1>18
     DEF Next, Thread, MainThread, Ended

LEMMA SumRangeStep ==
    ASSUME TypeOK, PlaceInv, MainInv, RaceInv, [Next]_vars
    PROVE  SumRange'
<1> DEFINE added == Cardinality(DoneOps(1))
           subtracted == Cardinality(DoneOps(-1))
<1>1. /\ added \in Nat /\ subtracted \in Nat /\ my_counter \in Int
      /\ added' \in Nat /\ subtracted' \in Nat
      /\ added' >= added /\ subtracted' >= subtracted
  BY CountsGrow DEF TypeOK
<1> SUFFICES ASSUME NEW t \in Threads, pc'[t] = "store"
             PROVE  /\ value'[t] = 1 => reg'[t] <= added' + 1 /\ reg'[t] >= 1 - subtracted'
                    /\ value'[t] = -1 => reg'[t] <= added' /\ reg'[t] >= - subtracted'
  BY ArgumentsStay DEF SumRange
<1>2. reg[t] \in Int /\ value[t] \in {1, -1} /\ value'[t] = value[t]
  BY SumsMade DEF TypeOK
<1>3. CASE pc[t] = "store" /\ reg'[t] = reg[t]
  <2>1. /\ value[t] = 1 => reg[t] <= added + 1 /\ reg[t] >= 1 - subtracted
        /\ value[t] = -1 => reg[t] <= added /\ reg[t] >= - subtracted
    BY <1>3 DEF RaceInv, SumRange
  <2> HIDE DEF added, subtracted
  <2>2. QED
    BY <1>1, <1>2, <1>3, <2>1
<1>4. CASE NoOp /\ pc[t] = "load" /\ reg'[t] = my_counter + value[t]
  <2>1. added' = added /\ subtracted' = subtracted
    BY <1>4, CountsGrow
  <2>2. /\ my_counter <= added
        /\ added = 0 => my_counter = 0
        /\ added # 0 => my_counter >= 1 - subtracted
    BY DEF RaceInv, CounterRange
  <2>3. value[t] = -1 => added # 0
    <3>1. num_iterations > 0
      BY <1>4, ArgumentsStay DEF PlaceInv, TypeOK
    <3>2. value[t] = -1 => DoneCount(t, 1) = num_iterations
      BY DEF DoneCount
    <3>3. QED
      BY <3>1, <3>2, AddedBefore
  <2> HIDE DEF added, subtracted
  <2>4. QED
    BY <1>1, <1>2, <1>4, <2>1, <2>2, <2>3
<1>5. QED
  BY <1>3, <1>4, SumsMade

\* The counter of an unsynchronised run stays within the additions there are,
\* for any number of threads and iterations: updates are lost, never made up.
THEOREM RacesBounded == Spec => []RaceBounds
<1>1. Init => RaceInv
  <2> SUFFICES ASSUME Init PROVE RaceInv
    OBVIOUS
  <2>1. Cardinality(DoneOps(1)) = 0 /\ Cardinality(DoneOps(-1)) = 0
    BY NoneDone, FS_EmptySet
  <2>2. QED
    BY <2>1 DEF Init, RaceInv, CounterRange, SumRange
<1>2. IInv /\ RaceInv /\ [Next]_vars => RaceInv'
  BY CounterRangeStep, SumRangeStep DEF IInv, RaceInv
<1>3. ASSUME IInv, RaceInv PROVE RaceBounds
  <2> DEFINE n == num_threads * num_iterations
             added == Cardinality(DoneOps(1))
             subtracted == Cardinality(DoneOps(-1))
  <2>1. n \in Nat /\ added \in 0 .. n /\ subtracted \in 0 .. n
    <3>1. TypeOK
      BY <1>3 DEF IInv
    <3>2. IsFiniteSet(Operations) /\ Cardinality(Operations) = n
      BY <3>1, OperationsFinite
    <3>3. DoneOps(1) \subseteq Operations /\ DoneOps(-1) \subseteq Operations
      BY DEF DoneOps
    <3>4. n \in Nat
      BY <3>2, FS_CardinalityType
    <3>5. QED
      BY <3>1, <3>2, <3>3, <3>4, OperationsFinite, FS_Subset
  <2>2. /\ my_counter \in Int
        /\ my_counter <= added
        /\ added = 0 => my_counter = 0
        /\ added # 0 => my_counter >= 1 - subtracted
    BY <1>3 DEF IInv, TypeOK, RaceInv, CounterRange
  <2> HIDE DEF n, added, subtracted
  <2>3. my_counter \in (IF n = 0 THEN {0} ELSE 1 - n .. n)
    BY <2>1, <2>2
  <2>4. QED
    BY <2>3 DEF RaceBounds, n
<1>4. QED
  BY <1>1, <1>2, <1>3, Invariance, PTL DEF Spec

-----------------------------------------------------------------------------
(* The refinement of AtomicCounter.                                        *)

\* The loads, stores and swaps of the synchronised threads implement the
\* counter whose additions and subtractions are atomic.
THEOREM RefinesAtomic ==
    ASSUME "n" \notin Syncs
    PROVE  Spec => RefinesAtomicCounter
<1>1. ASSUME Init PROVE Atomic!Init
  <2>1. PICK size \in Sizes : num_threads = size[1] /\ num_iterations = size[2]
    BY <1>1 DEF Init
  <2>2. \A t \in Threads : DoneCount(t, 1) = 0 /\ DoneCount(t, -1) = 0
    BY <1>1 DEF DoneCount, Init
  <2>3. QED
    BY <1>1, <2>1, <2>2 DEF Atomic!Init, Init
<1>2. ASSUME IInv, [Next]_vars PROVE [Atomic!Next]_(Atomic!vars)
  <2>1. /\ UNCHANGED args
        /\ Threads' = Threads
        /\ num_iterations \in Nat
    BY <1>2, ArgumentsStay DEF IInv
  <2>2. Threads \subseteq Workers
    BY <1>2 DEF IInv, TypeOK, Workers, Threads
  <2>3. my_lock # "n"
    BY <1>2 DEF IInv, TypeOK
  <2>4. CASE NoOp
    BY <2>1, <2>4 DEF NoOp, Atomic!vars, args
  <2>5. ASSUME NEW t \in Threads, NEW v \in {1, -1}, OneOp(t, v)
        PROVE  Atomic!Next
    <3>1. CASE v = 1
      <4>1. Atomic!Add(t)
        BY <2>1, <2>2, <2>5, <3>1 DEF OneOp, CountOne, Atomic!Add, args
      <4>2. QED
        BY <2>2, <4>1 DEF Atomic!Next
    <3>2. CASE v = -1
      <4>1. /\ \A u \in Threads : DoneCount(u, 1)' = DoneCount(u, 1)
            /\ \A u \in Threads :
                  DoneCount(u, -1)' = IF u = t THEN DoneCount(u, -1) + 1 ELSE DoneCount(u, -1)
            /\ DoneCount(t, 1) = num_iterations
            /\ DoneCount(t, -1) < num_iterations
            /\ my_counter' = my_counter - 1
        <5>1. my_counter \in Int
          BY <1>2 DEF IInv, TypeOK
        <5>2. my_counter + (-1) = my_counter - 1
          BY <5>1
        <5>3. QED
          BY <2>5, <3>2, <5>2 DEF OneOp, CountOne
      <4>2. Atomic!Subtract(t)
        BY <2>1, <2>2, <4>1 DEF Atomic!Subtract, args
      <4>3. QED
        BY <2>2, <4>2 DEF Atomic!Next
    <3>3. QED
      BY <3>1, <3>2
  <2>6. QED
    BY <1>2, <2>3, <2>4, <2>5, StepEffect DEF IInv
<1>3. QED
  BY <1>1, <1>2, Invariance, PTL DEF Spec, RefinesAtomicCounter, Atomic!Spec

=============================================================================
