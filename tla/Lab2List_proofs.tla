--------------------------- MODULE Lab2List_proofs ---------------------------
(***************************************************************************)
(* What holds of lab2_list for every number of threads, elements and lists.*)
(* First, and but for the locks in every mode: no wild pointer is used, no *)
(* cycle misses the list heads, and the locks are held by who took them.   *)
(* Then, what the locks are for: a list nobody has locked is a sorted      *)
(* circle, no thread fails, and all threads together implement the bag of  *)
(* SharedBag.                                                              *)
(***************************************************************************)
EXTENDS Lab2List, WellFoundedInduction, FiniteSetTheorems, TLAPS

LockPlaces == {"ins_lock", "ins_unlock", "len_lock", "del_lock", "del_unlock"}
Inserting == InsertPlaces \cup {"ins_lock", "ins_unlock"}
Deleting == DeletePlaces \cup {"del_lock", "del_unlock"}

\* Which places there are, and what the index of an actor at one of them is.
ThreadPlaceInv(t) ==
    LET p == th[t].pc  k == th[t].i
    IN  /\ p \in ThreadPlaces
        /\ p \in LockPlaces => Locked
        /\ p \in Inserting \cup Deleting \cup {"ins_loop", "del_loop"} => my_start(t) <= k
        /\ p \in Inserting \cup Deleting => k < my_end(t)
CountingInv(a) == th[a].pc \in LengthPlaces \ {"len_list"} => th[a].i < num_lists
PlaceInv ==
    /\ th[Main].pc \in MainPlaces
    /\ \A t \in Threads : ThreadPlaceInv(t)
    /\ \A a \in Actors : CountingInv(a)

\* main starts each thread once.
StartInv ==
    th[Main].pc = "create" => \A t \in Threads : t >= th[Main].i => th[t].pc = "unborn"

\* An element between InsertInit and InsertPred has links, but no link and no
\* register leads to it yet.  The others with links are placed.
Fresh(n) == \E t \in Threads : th[t].pc = "ins_pred" /\ th[t].i = n
Placed(l) == {n \in NodesOf(l) : next[n] # Wild /\ ~Fresh(n)}

\* The elements a thread has yet to insert have no links; the one it is
\* about to link from its list has.
UnsetAt(t) ==
    LET p == th[t].pc  k == th[t].i
    IN  /\ p \in {"unborn", "start"} =>
              \A e \in my_start(t) .. my_end(t) - 1 : next[e] = Wild
        /\ p \in {"ins_loop", "ins_lock", "ins_first", "ins_walk"} =>
              \A e \in k .. my_end(t) - 1 : next[e] = Wild
        /\ p \in {"ins_pred", "ins_link", "ins_succ", "ins_back", "ins_unlock"} =>
              \A e \in k + 1 .. my_end(t) - 1 : next[e] = Wild
        /\ p = "ins_pred" => next[k] # Wild
UnsetInv == \A t \in Threads : UnsetAt(t)

\* Links lead to placed nodes of the same list, and list heads are placed.
LinkInv ==
    \A l \in Lists :
        /\ next[HeadOf(l)] # Wild
        /\ \A n \in NodesOf(l) : next[n] # Wild => next[n] \in Placed(l) /\ prev[n] \in Placed(l)

\* So do the registers at the places where they are used.
UsesCur == (InsertPlaces \cup DeletePlaces) \ {"ins_first", "look_first"}
UsesReg == {"ins_link", "ins_back", "del_c1", "del_c2", "un_prev", "un_store", "un_next2", "un_store2"}
UsesReg2 == {"un_store", "un_store2"}
Published == {"ins_link", "ins_succ", "ins_back"}
RegistersAt(t) ==
    LET p == th[t].pc  placed == Placed(SubList(th[t].i))
    IN  /\ p \in UsesCur => th[t].cur \in placed
        /\ p \in UsesReg => th[t].reg \in placed
        /\ p \in UsesReg2 => th[t].reg2 \in placed
        /\ p \in Published => th[t].i \in placed
CountersAt(a) ==
    LET p == th[a].pc  placed == Placed(th[a].i)
    IN  /\ p \in LengthPlaces \ {"len_list"} => th[a].cur \in placed
        /\ p \in {"len_next", "len_back"} => th[a].reg \in placed
RegisterInv == (\A t \in Threads : RegistersAt(t)) /\ (\A a \in Actors : CountersAt(a))

PointerInv == TypeOK /\ PlaceInv /\ StartInv /\ UnsetInv /\ LinkInv /\ RegisterInv

\* The elements ever placed can be ranked so that next leads down and prev
\* leads up, but for the heads, which are both above and below all elements.
Before(r, a, b) == a \in Elements /\ b \in Elements => r[b] < r[a]
Deletes == DeletePlaces \ {"look_first", "look_walk"}
RankedAt(r, t) ==
    LET p == th[t].pc  e == th[t].i  c == th[t].cur
    IN  /\ p = "ins_pred" => next[e] = c /\ Before(r, prev[e], c)
        /\ p = "ins_link" => Before(r, th[t].reg, e)
        /\ p = "ins_back" => Before(r, e, th[t].reg)
        /\ p \in Deletes => c \in Elements
        /\ p \in {"un_prev", "un_store"} => Before(r, c, th[t].reg)
        /\ p = "un_store" => Before(r, th[t].reg2, c)
        /\ p \in {"un_next2", "un_store2"} => Before(r, th[t].reg, c)
        /\ p = "un_store2" => Before(r, c, th[t].reg2)
RankedLinks(r) ==
    \A n \in Elements : next[n] # Wild /\ ~Fresh(n) => Before(r, n, next[n]) /\ Before(r, prev[n], n)
Ranked(r) == RankedLinks(r) /\ \A t \in Threads : RankedAt(r, t)
RankInv == \E r \in [Elements -> Nat] : Ranked(r)

ActorType == [pc : ThreadPlaces \cup MainPlaces, i : Nat, cur : Nodes, reg : Nodes,
              reg2 : Nodes, len : {-1, 0, 1}]

-----------------------------------------------------------------------------
(* The arguments, the elements and the nodes.                              *)

LEMMA Arguments ==
    ASSUME TypeOK
    PROVE  /\ num_threads \in Nat /\ num_iterations \in Nat
           /\ num_lists \in Nat /\ num_lists > 0
           /\ Main \in Actors /\ Main \notin Threads
           /\ Threads \subseteq Actors /\ Threads \subseteq Nat
           /\ Lists \subseteq Nat
           /\ 0 \in Lists
           /\ Wild \in Nat
<1>1. num_threads \in Nat /\ num_iterations \in Nat /\ num_lists \in Nat \ {0}
  BY ArgumentsAssumption DEF TypeOK
<1>2. Wild \in Nat
  BY <1>1 DEF Wild
<1>3. QED
  BY <1>1, <1>2 DEF Main, Threads, Actors, Lists

LEMMA ActorSplit ==
    ASSUME TypeOK
    PROVE  \A a \in Actors : a = Main \/ a \in Threads
BY Arguments DEF Main, Threads, Actors

\* What one more row of n columns adds.
LEMMA Products ==
    ASSUME NEW m \in Nat, NEW n \in Nat, NEW k \in Nat, k < m
    PROVE  /\ k * n \in Nat
           /\ k * n + n <= m * n
<1>1. (m - (k + 1)) * n \in Nat
  BY SMT
<1>2. m * n = (m - (k + 1)) * n + (k * n + n)
  BY SMT
<1>3. QED
  BY <1>1, <1>2, SMT

\* Thread t's own indices are elements.
LEMMA OwnElements ==
    ASSUME TypeOK, NEW t \in Threads, NEW k \in Int, my_start(t) <= k, k < my_end(t)
    PROVE  k \in Elements
<1>1. /\ t \in Nat /\ num_threads \in Nat /\ num_iterations \in Nat
      /\ t < num_threads
  BY Arguments DEF Threads
<1>2. /\ t * num_iterations \in Nat
      /\ t * num_iterations + num_iterations <= num_threads * num_iterations
  BY <1>1, Products
<1>3. num_threads * num_iterations \in Nat
  BY <1>1
<1>4. QED
  BY <1>1, <1>2, <1>3 DEF my_start, my_end, Elements

\* No element has two owners.
LEMMA OneOwner ==
    ASSUME TypeOK, NEW t \in Threads, NEW u \in Threads, NEW k \in Int,
           my_start(t) <= k, k < my_end(t), my_start(u) <= k, k < my_end(u)
    PROVE  t = u
<1>1. /\ t \in Nat /\ u \in Nat /\ num_iterations \in Nat
  BY Arguments
<1>2. /\ t * num_iterations \in Nat /\ u * num_iterations \in Nat
      /\ t < u => t * num_iterations + num_iterations <= u * num_iterations
      /\ u < t => u * num_iterations + num_iterations <= t * num_iterations
  BY <1>1, Products
<1>3. QED
  BY <1>1, <1>2 DEF my_start, my_end

LEMMA NodeFacts ==
    ASSUME TypeOK
    PROVE  /\ Wild \notin Nodes
           /\ Elements \subseteq Nodes
           /\ \A n \in Nodes : n \in Int /\ (n \in Elements <=> ~IsHead(n))
           /\ \A e \in Elements : SubList(e) \in Lists /\ e \in NodesOf(SubList(e)) /\ e \in Nat
           /\ \A l \in Lists : /\ HeadOf(l) \in NodesOf(l)
                             /\ IsHead(HeadOf(l))
                             /\ NodesOf(l) \subseteq Nodes
                             /\ \A n \in NodesOf(l) : IsHead(n) => n = HeadOf(l)
<1>1. Wild \in Nat /\ Elements = 0 .. Wild - 1
  BY Arguments DEF Wild, Elements
<1>2. \A l \in Lists : HeadOf(l) \in Int /\ HeadOf(l) < 0
  BY Arguments DEF HeadOf
<1>3. \A e \in Elements : SubList(e) \in Lists
  <2>1. SUFFICES ASSUME NEW e \in Elements PROVE SubList(e) \in Lists
    OBVIOUS
  <2>2. key[e] \in Nat
    BY ArgumentsAssumption DEF TypeOK
  <2>3. QED
    BY <2>2, Arguments DEF SubList, Lists
<1>4. QED
  BY <1>1, <1>2, <1>3 DEF Nodes, NodesOf, IsHead

-----------------------------------------------------------------------------
(* The command line stays what it is, and with it the sets made of it.     *)

LEMMA StepArguments ==
    ASSUME [Next]_vars
    PROVE  UNCHANGED args
<1> USE DEF process, OnlyLocal, Exit, Fetch, Fetch2, Advance, Compare
<1>1. ASSUME NEW a, LengthCall(a) PROVE UNCHANGED args
  BY <1>1 DEF LengthCall, LengthFirst, LengthReturn, LengthNext, LengthPrev,
              LengthCheckNext, LengthCheckPrev, LengthStep
<1>2. ASSUME NEW t \in Threads, Thread(t) PROVE UNCHANGED args
  <2>1. CASE \/ Start(t) \/ StartDividesByZero(t) \/ InsertTurn(t) \/ InsertLock(t)
             \/ InsertFirst(t) \/ InsertWalk(t) \/ InsertInit(t) \/ InsertPred(t)
             \/ InsertLink(t) \/ InsertSucc(t) \/ InsertBack(t) \/ InsertUnlock(t)
             \/ InsertEnd(t)
    BY <2>1 DEF Start, StartDividesByZero, InsertTurn, InsertLock, InsertFirst, InsertWalk,
                InsertInit, InsertPred, InsertLink, InsertSucc, InsertBack, InsertUnlock,
                InsertEnd
  <2>2. CASE \/ LockNext(t) \/ AllLocked(t) \/ LengthsEnd(t) \/ UnlockNext(t)
             \/ LengthsGood(t) \/ LengthsCorrupt(t) \/ UseFreed(t)
    BY <2>2 DEF LockNext, AllLocked, LengthsEnd, UnlockNext, LengthsGood, LengthsCorrupt, UseFreed
  <2>3. CASE \/ DeleteTurn(t) \/ DeleteLock(t) \/ LookupFirst(t) \/ LookupMiss(t)
             \/ LookupHit(t) \/ LookupWalk(t) \/ DeleteNext(t) \/ DeleteCheckNext(t)
             \/ DeletePrev(t) \/ DeleteCheckPrev(t) \/ DeleteCorrupt(t)
    BY <2>3 DEF DeleteTurn, DeleteLock, LookupFirst, LookupMiss, LookupHit, LookupWalk,
                DeleteNext, DeletePrev, DeleteCheckNext, DeleteCheckPrev, DeleteCorrupt
  <2>4. CASE \/ UnlinkNext(t) \/ UnlinkPrev(t) \/ UnlinkBack(t) \/ UnlinkPrev2(t)
             \/ UnlinkNext2(t) \/ UnlinkForward(t) \/ DeleteUnlock(t) \/ Return(t)
    BY <2>4 DEF UnlinkNext, UnlinkPrev, UnlinkBack, UnlinkPrev2, UnlinkNext2, UnlinkForward,
                DeleteUnlock, Return
  <2>5. QED
    BY <1>1, <1>2, <2>1, <2>2, <2>3, <2>4 DEF Thread
<1>3. ASSUME MainThread PROVE UNCHANGED args
  BY <1>1, <1>3 DEF MainThread, CreateThread, CreateFails, AllCreated, JoinThread, AllJoined,
                    FinalLengthWrong, ExitOne, DivideByZero, Report
<1>4. CASE Ended \/ UNCHANGED vars
  BY <1>4 DEF Ended, vars
<1>5. QED
  BY <1>2, <1>3, <1>4 DEF Next

LEMMA StepSets ==
    ASSUME [Next]_vars
    PROVE  /\ UNCHANGED <<num_threads, num_iterations, num_lists, my_lock, key>>
           /\ Threads' = Threads /\ Main' = Main /\ Actors' = Actors /\ Lists' = Lists
           /\ Elements' = Elements /\ Nodes' = Nodes /\ Wild' = Wild /\ Locked' = Locked
           /\ ActorType' = ActorType
<1>1. UNCHANGED <<num_threads, num_iterations, num_lists, my_lock, key>>
  BY StepArguments DEF args
<1>2. QED
  BY <1>1 DEF Threads, Main, Actors, Lists, Elements, Nodes, Wild, Locked, HeadOf, ActorType

-----------------------------------------------------------------------------
(* What a step finds at its place.                                         *)

LEMMA PlacedFacts ==
    ASSUME TypeOK, LinkInv, NEW l \in Lists
    PROVE  /\ HeadOf(l) \in Placed(l)
           /\ \A n \in Placed(l) :
                 /\ n \in Nodes /\ n \in NodesOf(l)
                 /\ n \in Elements => SubList(n) = l
                 /\ next[n] \in Placed(l) /\ prev[n] \in Placed(l)
                 /\ next[n] \in Nodes /\ prev[n] \in Nodes
                 /\ next[n] # Wild /\ ~Fresh(n)
<1>1. \A n \in Placed(l) : n \in NodesOf(l) /\ n \in Nodes /\ next[n] # Wild /\ ~Fresh(n)
  BY NodeFacts DEF Placed
<1>2. \A n \in Placed(l) : next[n] \in Placed(l) /\ prev[n] \in Placed(l)
  BY <1>1 DEF LinkInv
<1>3. \A n \in Placed(l) : n \in Elements => SubList(n) = l
  BY <1>1, NodeFacts DEF NodesOf
<1>4. ~Fresh(HeadOf(l))
  <2>1. \A t \in Threads : th[t].i \in Nat
    BY Arguments DEF TypeOK
  <2>2. HeadOf(l) \in Int /\ HeadOf(l) < 0
    BY Arguments DEF HeadOf
  <2>3. QED
    BY <2>1, <2>2 DEF Fresh
<1>5. HeadOf(l) \in Placed(l)
  BY <1>4, NodeFacts DEF Placed, LinkInv
<1>6. QED
  BY <1>1, <1>2, <1>3, <1>5

\* A thread inserts and deletes elements of its own, and follows no wild link.
LEMMA ThreadFacts ==
    ASSUME PointerInv, NEW t \in Threads
    PROVE  LET p == th[t].pc
               l == SubList(th[t].i)
           IN  /\ th[t] \in ActorType
               /\ p \in Inserting \cup Deleting => th[t].i \in Elements /\ l \in Lists
               /\ p \in UsesCur =>
                     /\ th[t].cur \in Placed(l)
                     /\ next[th[t].cur] \in Placed(l) /\ next[th[t].cur] \in Nodes
                     /\ prev[th[t].cur] \in Placed(l) /\ prev[th[t].cur] \in Nodes
               /\ p \in UsesReg => th[t].reg \in Placed(l) /\ th[t].reg \in Nodes
               /\ p \in UsesReg2 => th[t].reg2 \in Placed(l) /\ th[t].reg2 \in Nodes
               /\ p \in Published =>
                     /\ th[t].i \in Placed(l)
                     /\ next[th[t].i] \in Placed(l) /\ next[th[t].i] \in Nodes
<1>1. th[t] \in ActorType
  BY Arguments DEF PointerInv, TypeOK, ActorType
<1>2. ASSUME th[t].pc \in Inserting \cup Deleting
      PROVE  th[t].i \in Elements /\ SubList(th[t].i) \in Lists
  <2>1. my_start(t) <= th[t].i /\ th[t].i < my_end(t) /\ th[t].i \in Int
    BY <1>1, <1>2 DEF PointerInv, PlaceInv, ThreadPlaceInv, ActorType
  <2>2. QED
    BY <2>1, OwnElements, NodeFacts DEF PointerInv
<1>3. th[t].pc \in UsesCur \cup UsesReg \cup UsesReg2 \cup Published =>
          th[t].pc \in Inserting \cup Deleting
  BY DEF UsesCur, UsesReg, UsesReg2, Published, Inserting, Deleting, InsertPlaces, DeletePlaces
<1>4. QED
  BY <1>1, <1>2, <1>3, PlacedFacts DEF PointerInv, RegisterInv, RegistersAt

\* An actor that counts a list stays in that list.
LEMMA CounterFacts ==
    ASSUME PointerInv, NEW a \in Actors
    PROVE  LET p == th[a].pc
               l == th[a].i
           IN  /\ th[a] \in ActorType
               /\ p \in LengthPlaces \ {"len_list"} =>
                     /\ l \in Lists
                     /\ th[a].cur \in Placed(l)
                     /\ next[th[a].cur] \in Placed(l) /\ next[th[a].cur] \in Nodes
                     /\ prev[th[a].cur] \in Placed(l) /\ prev[th[a].cur] \in Nodes
               /\ p \in {"len_next", "len_back"} => th[a].reg \in Placed(l)
<1>1. th[a] \in ActorType
  BY DEF PointerInv, TypeOK, ActorType
<1>2. th[a].pc \in LengthPlaces \ {"len_list"} => th[a].i \in Lists
  BY <1>1, Arguments DEF PointerInv, PlaceInv, CountingInv, ActorType, Lists
<1>3. QED
  BY <1>1, <1>2, PlacedFacts DEF PointerInv, RegisterInv, CountersAt, LengthPlaces

-----------------------------------------------------------------------------
(* Types and places.                                                       *)

\* What TypeOK says of th, in one step.
LEMMA CountingStep ==
    ASSUME PointerInv, NEW a \in Actors, LengthCall(a)
    PROVE  /\ th' \in [Actors -> ActorType]
           /\ \A b \in Actors : b # a => th'[b] = th[b]
           /\ th[a].pc \in LengthPlaces /\ th'[a].pc \in LengthPlaces
           /\ th'[a].pc # "len_list" => th'[a].i = th[a].i /\ th[a].i < num_lists
           /\ OnlyLocal
<1> USE DEF At, GoTo, GoToNext, Fetch, ActorType, LengthPlaces, MainPlaces
<1>1. th \in [Actors -> ActorType]
  BY DEF PointerInv, TypeOK
<1>2. th[a].pc \in LengthPlaces \ {"len_list"} => th[a].i < num_lists
  BY DEF PointerInv, PlaceInv, CountingInv
<1>3. next[HeadOf(th[a].i)] \in Nodes \/ ~(th[a].i < num_lists)
  <2>1. th[a].i < num_lists => th[a].i \in Lists
    BY <1>1, Arguments DEF PointerInv, Lists
  <2>2. QED
    BY <2>1, PlacedFacts DEF PointerInv
<1>4. CASE LengthFirst(a)
  <2> DEFINE r == [th[a] EXCEPT !.pc = "len_walk", !.len = 0, !.cur = next[HeadOf(th[a].i)]]
  <2>1. r \in ActorType /\ r.pc = "len_walk" /\ r.i = th[a].i
    BY <1>1, <1>3, <1>4 DEF LengthFirst
  <2>2. th' = [th EXCEPT ![a] = r]
    BY <1>1, <1>4 DEF LengthFirst
  <2>3. QED
    BY <1>1, <1>4, <2>1, <2>2 DEF LengthFirst
<1>5. CASE LengthReturn(a)
  BY <1>1, <1>2, <1>5 DEF LengthReturn
<1>6. CASE LengthNext(a)
  BY <1>1, <1>2, <1>6, CounterFacts DEF LengthNext
<1>7. CASE LengthCheckNext(a)
  <2> DEFINE r == IF prev[th[a].reg] = th[a].cur
                  THEN [th[a] EXCEPT !.pc = "len_prev"]
                  ELSE [th[a] EXCEPT !.pc = "len_list", !.len = -1]
  <2>1. r \in ActorType /\ r.pc \in {"len_prev", "len_list"} /\ r.i = th[a].i
    BY <1>1, <1>7 DEF LengthCheckNext
  <2>2. th' = [th EXCEPT ![a] = r]
    BY <1>1, <1>7 DEF LengthCheckNext, Compare
  <2>3. QED
    BY <1>1, <1>2, <1>7, <2>1, <2>2 DEF LengthCheckNext, Compare
<1>8. CASE LengthPrev(a)
  BY <1>1, <1>2, <1>8, CounterFacts DEF LengthPrev
<1>9. CASE LengthCheckPrev(a)
  <2> DEFINE r == IF next[th[a].reg] = th[a].cur
                  THEN [th[a] EXCEPT !.pc = "len_step"]
                  ELSE [th[a] EXCEPT !.pc = "len_list", !.len = -1]
  <2>1. r \in ActorType /\ r.pc \in {"len_step", "len_list"} /\ r.i = th[a].i
    BY <1>1, <1>9 DEF LengthCheckPrev
  <2>2. th' = [th EXCEPT ![a] = r]
    BY <1>1, <1>9 DEF LengthCheckPrev, Compare
  <2>3. QED
    BY <1>1, <1>2, <1>9, <2>1, <2>2 DEF LengthCheckPrev, Compare
<1>10. CASE LengthStep(a)
  <2> DEFINE r == [th[a] EXCEPT !.pc = "len_walk", !.len = 1, !.cur = next[th[a].cur]]
  <2>1. r \in ActorType /\ r.pc = "len_walk" /\ r.i = th[a].i
    BY <1>1, <1>10, CounterFacts DEF LengthStep
  <2>2. th' = [th EXCEPT ![a] = r]
    BY <1>1, <1>10 DEF LengthStep
  <2>3. QED
    BY <1>1, <1>2, <1>10, <2>1, <2>2 DEF LengthStep
<1>11. QED
  BY <1>4, <1>5, <1>6, <1>7, <1>8, <1>9, <1>10 DEF LengthCall

\* The steps of a thread that are neither counting nor an exit: only its own
\* record changes, and it stays one.
ThreadMove(t) ==
    \/ Start(t) \/ InsertTurn(t) \/ InsertLock(t) \/ InsertFirst(t) \/ InsertWalk(t)
    \/ InsertInit(t) \/ InsertPred(t) \/ InsertLink(t) \/ InsertSucc(t) \/ InsertBack(t)
    \/ InsertUnlock(t) \/ InsertEnd(t)
    \/ LockNext(t) \/ AllLocked(t) \/ LengthsEnd(t) \/ UnlockNext(t) \/ LengthsGood(t)
    \/ DeleteTurn(t) \/ DeleteLock(t) \/ LookupFirst(t) \/ LookupHit(t) \/ LookupWalk(t)
    \/ DeleteNext(t) \/ DeleteCheckNext(t) \/ DeletePrev(t) \/ DeleteCheckPrev(t)
    \/ UnlinkNext(t) \/ UnlinkPrev(t) \/ UnlinkBack(t)
    \/ UnlinkPrev2(t) \/ UnlinkNext2(t) \/ UnlinkForward(t)
    \/ DeleteUnlock(t) \/ Return(t)

LEMMA ThreadMoves ==
    ASSUME PointerInv, NEW t \in Threads, ThreadMove(t), UNCHANGED <<num_iterations, my_lock>>
    PROVE  /\ th' \in [Actors -> ActorType]
           /\ \A a \in Actors : a # t => th'[a] = th[a]
           /\ ThreadPlaceInv(t)'
           /\ th'[t].pc \notin LengthPlaces \ {"len_list"}
<1> DEFINE l == SubList(th[t].i)
<1> USE DEF At, GoTo, GoToNext, GoToFrom, Fetch, Fetch2, Advance, Inserting, Deleting,
            InsertPlaces, DeletePlaces, LengthPlaces, LockPlaces, ThreadPlaces, MainPlaces,
            ActorType, ThreadPlaceInv, my_start, my_end, Locked
<1>1. /\ th \in [Actors -> ActorType] /\ t \in Actors
      /\ th[t].i \in Nat /\ num_lists \in Nat
      /\ t * num_iterations \in Nat /\ num_iterations \in Nat
  <2>1. /\ th \in [Actors -> ActorType] /\ t \in Actors
        /\ th[t].i \in Nat /\ num_lists \in Nat /\ t \in Nat /\ num_iterations \in Nat
    BY Arguments DEF PointerInv, TypeOK
  <2>2. QED
    BY <2>1, Products
<1>2. ThreadPlaceInv(t)
  BY DEF PointerInv, PlaceInv
<1>3. /\ th[t].pc \in {"ins_first", "look_first"} => next[HeadOf(SubList(th[t].i))] \in Nodes
      /\ th[t].pc \in UsesCur => next[th[t].cur] \in Nodes /\ prev[th[t].cur] \in Nodes
      /\ th[t].pc \in Published => next[th[t].i] \in Nodes
  BY ThreadFacts, PlacedFacts DEF PointerInv
<1>4. CASE Start(t)
  <2> DEFINE r == [th[t] EXCEPT !.pc = "ins_loop", !.i = t * num_iterations]
  <2>1. r \in ActorType /\ r.pc = "ins_loop" /\ r.i = t * num_iterations
    BY <1>1
  <2>2. th' = [th EXCEPT ![t] = r]
    BY <1>1, <1>4 DEF Start
  <2>3. (t * num_iterations)' = t * num_iterations
    OBVIOUS
  <2> HIDE DEF r
  <2>4. QED
    BY <1>1, <2>1, <2>2, <2>3
<1>5. CASE InsertTurn(t) \/ DeleteTurn(t)
  BY <1>1, <1>2, <1>5 DEF InsertTurn, DeleteTurn
<1>6. CASE InsertLock(t) \/ DeleteLock(t)
  BY <1>1, <1>2, <1>6 DEF InsertLock, DeleteLock
<1>7. CASE InsertFirst(t) \/ LookupFirst(t)
  BY <1>1, <1>2, <1>3, <1>7 DEF InsertFirst, LookupFirst
<1>8. CASE InsertWalk(t) \/ LookupWalk(t)
  BY <1>1, <1>2, <1>3, <1>8 DEF InsertWalk, LookupWalk, UsesCur
<1>9. CASE InsertInit(t) \/ InsertLink(t) \/ LookupHit(t) \/ DeleteCheckNext(t) \/ DeleteCheckPrev(t)
  BY <1>1, <1>2, <1>9 DEF InsertInit, InsertLink, LookupHit, DeleteCheckNext, DeleteCheckPrev
<1>10. CASE InsertPred(t) \/ DeleteNext(t) \/ DeletePrev(t) \/ UnlinkNext(t) \/ UnlinkPrev2(t)
  BY <1>1, <1>2, <1>3, <1>10 DEF InsertPred, DeleteNext, DeletePrev, UnlinkNext, UnlinkPrev2, UsesCur
<1>11. CASE UnlinkPrev(t) \/ UnlinkNext2(t)
  BY <1>1, <1>2, <1>3, <1>11 DEF UnlinkPrev, UnlinkNext2, UsesCur
<1>12. CASE InsertSucc(t)
  <2>1. next[th[t].i] \in Nodes /\ th[t].pc = "ins_succ"
    BY <1>3, <1>12 DEF InsertSucc, Published
  <2> DEFINE r == [th[t] EXCEPT !.pc = "ins_back", !.reg = next[th[t].i]]
  <2>2. r \in ActorType /\ r.pc = "ins_back" /\ r.i = th[t].i
    BY <1>1, <2>1
  <2>3. th' = [th EXCEPT ![t] = r]
    BY <1>1, <1>12 DEF InsertSucc
  <2> HIDE DEF r
  <2>4. (t * num_iterations)' = t * num_iterations
    OBVIOUS
  <2>5. QED
    BY <1>1, <1>2, <2>1, <2>2, <2>3, <2>4
<1>13. CASE InsertBack(t) \/ UnlinkBack(t) \/ UnlinkForward(t)
  BY <1>1, <1>2, <1>13 DEF InsertBack, UnlinkBack, UnlinkForward
<1>14. CASE InsertUnlock(t) \/ DeleteUnlock(t)
  BY <1>1, <1>2, <1>14 DEF InsertUnlock, DeleteUnlock
<1>15. CASE InsertEnd(t) \/ LengthsEnd(t) \/ LengthsGood(t)
  BY <1>1, <1>2, <1>15 DEF InsertEnd, LengthsEnd, LengthsDone, LengthsGood
<1>16. CASE LockNext(t) \/ AllLocked(t) \/ UnlockNext(t) \/ Return(t)
  BY <1>1, <1>2, <1>16 DEF LockNext, AllLocked, UnlockNext, Return
<1>17. QED
  BY <1>4, <1>5, <1>6, <1>7, <1>8, <1>9, <1>10, <1>11, <1>12, <1>13, <1>14, <1>15, <1>16
     DEF ThreadMove


\* The steps with which the process ends.
ThreadExit(t) ==
    StartDividesByZero(t) \/ LengthsCorrupt(t) \/ LookupMiss(t) \/ DeleteCorrupt(t) \/ UseFreed(t)

LEMMA ThreadSplit ==
    ASSUME NEW t, Thread(t)
    PROVE  ThreadMove(t) \/ LengthCall(t) \/ ThreadExit(t)
BY DEF Thread, ThreadMove, ThreadExit

LEMMA ThreadExits ==
    ASSUME NEW t, ThreadExit(t)
    PROVE  /\ UNCHANGED <<next, prev, lock, mutex_time, th, freed, total_time>>
           /\ status' \in {"exit1", "exit2", "abort", "SIGFPE"}
BY DEF ThreadExit, StartDividesByZero, LengthsCorrupt, LookupMiss, DeleteCorrupt, UseFreed, Exit,
       memory, locks

\* What ThreadMove does to the other variables.
LEMMA ThreadTypes ==
    ASSUME PointerInv, NEW t \in Threads, ThreadMove(t)
    PROVE  /\ next' \in [Nodes -> Nodes \cup {Wild}]
           /\ prev' \in [Nodes -> Nodes \cup {Wild}]
           /\ lock' \in [Lists -> Threads \cup {NoThread}]
           /\ mutex_time' \in [Threads -> Nat]
           /\ UNCHANGED <<freed, status, total_time>>
           /\ th[t].pc \notin {"unborn", "done"}
<1> USE DEF At, GoTo, GoToNext, GoToFrom, Fetch, Fetch2, Advance, OnlyLocal, memory, locks, process
<1>1. /\ next \in [Nodes -> Nodes \cup {Wild}]
      /\ prev \in [Nodes -> Nodes \cup {Wild}]
      /\ lock \in [Lists -> Threads \cup {NoThread}]
      /\ mutex_time \in [Threads -> Nat]
      /\ WaitTimes \subseteq Nat
  BY ArgumentsAssumption DEF PointerInv, TypeOK
<1>2. th[t].pc = "ins_walk" => th[t].cur \in Nodes /\ prev[th[t].cur] \in Nodes /\ th[t].i \in Nodes
  BY ThreadFacts, PlacedFacts, NodeFacts
     DEF PointerInv, UsesCur, Inserting, InsertPlaces, ActorType
<1>3. th[t].pc \in {"ins_link", "ins_back"} => th[t].i \in Nodes
  BY ThreadFacts, NodeFacts DEF PointerInv, Inserting, InsertPlaces
<1>4. th[t].pc \in UsesReg2 => th[t].reg2 \in Nodes
  BY ThreadFacts
<1>5. CASE Start(t) \/ InsertTurn(t) \/ InsertFirst(t) \/ InsertWalk(t) \/ InsertPred(t)
           \/ InsertSucc(t) \/ InsertEnd(t) \/ LengthsEnd(t) \/ LengthsGood(t) \/ DeleteTurn(t)
           \/ LookupFirst(t) \/ LookupHit(t) \/ LookupWalk(t) \/ DeleteNext(t)
           \/ DeleteCheckNext(t) \/ DeletePrev(t) \/ DeleteCheckPrev(t) \/ UnlinkNext(t)
           \/ UnlinkPrev(t) \/ UnlinkPrev2(t) \/ UnlinkNext2(t) \/ Return(t)
  BY <1>1, <1>5 DEF Start, InsertTurn, InsertFirst, InsertWalk, InsertPred, InsertSucc, InsertEnd,
     LengthsEnd, LengthsDone, LengthsGood, DeleteTurn, LookupFirst, LookupHit, LookupWalk,
     DeleteNext, DeleteCheckNext, DeletePrev, DeleteCheckPrev, UnlinkNext, UnlinkPrev,
     UnlinkPrev2, UnlinkNext2, Return
<1>6. CASE InsertLock(t) \/ DeleteLock(t) \/ AllLocked(t) \/ LockNext(t)
  BY <1>1, <1>6 DEF InsertLock, DeleteLock, AllLocked, LockNext, Acquire, Timed
<1>7. CASE InsertUnlock(t) \/ DeleteUnlock(t) \/ UnlockNext(t)
  BY <1>1, <1>7 DEF InsertUnlock, DeleteUnlock, UnlockNext, Release
<1>8. CASE InsertInit(t)
  BY <1>1, <1>2, <1>8 DEF InsertInit
<1>9. CASE InsertLink(t) \/ InsertBack(t)
  BY <1>1, <1>3, <1>9 DEF InsertLink, InsertBack
<1>10. CASE UnlinkBack(t) \/ UnlinkForward(t)
  BY <1>1, <1>4, <1>10 DEF UnlinkBack, UnlinkForward, UsesReg2
<1>11. QED
  BY <1>5, <1>6, <1>7, <1>8, <1>9, <1>10 DEF ThreadMove

\* The steps of main that are not counting.
MainMove ==
    \/ CreateThread \/ CreateFails \/ AllCreated \/ JoinThread \/ AllJoined
    \/ FinalLengthWrong \/ ExitOne \/ DivideByZero \/ Report

LEMMA MainMoves ==
    ASSUME PointerInv, MainMove
    PROVE  /\ UNCHANGED <<next, prev, lock, mutex_time>>
           /\ freed' \in BOOLEAN
           /\ status' \in {"running", "exit0", "exit1", "exit2", "abort", "SIGFPE"}
           /\ total_time' \in Nat
           /\ th' \in [Actors -> ActorType]
           /\ th'[Main].pc \in MainPlaces \ (LengthPlaces \ {"len_list"})
           /\ \A t \in Threads : th'[t] = th[t] \/ (th[t].pc = "unborn" /\ th'[t].pc = "start")
           /\ StartInv'
<1> USE DEF At, GoTo, GoToNext, GoToFrom, OnlyLocal, memory, locks, process, MainPlaces,
            LengthPlaces, ActorType
<1> DEFINE i == th[Main].i
<1>1. /\ th \in [Actors -> ActorType] /\ Main \in Actors /\ Main \notin Threads
      /\ Threads \subseteq Actors /\ i \in Nat /\ num_threads \in Nat
      /\ th[Main].pc \in MainPlaces /\ Threads = 0 .. num_threads - 1
      /\ mutex_time \in [Threads -> Nat] /\ total_time \in Nat
      /\ freed \in BOOLEAN
      /\ status \in {"running", "exit0", "exit1", "exit2", "abort", "SIGFPE"}
  BY Arguments DEF PointerInv, TypeOK, PlaceInv, Threads
<1>2. Threads' = Threads /\ Main' = Main
  BY StepSets DEF MainMove, MainThread, Next
<1>3. CASE CreateThread
  <2> DEFINE m == [th[Main] EXCEPT !.i = i + 1]
             r == [th[i] EXCEPT !.pc = "start"]
  <2>1. i \in Threads /\ i # Main
    BY <1>1, <1>3 DEF CreateThread
  <2>2. \A t \in Threads : t >= i => th[t].pc = "unborn"
    BY <1>3 DEF CreateThread, PointerInv, StartInv
  <2>3. m \in ActorType /\ m.pc = "create" /\ m.i = i + 1
    <3>1. th[Main] \in ActorType /\ i + 1 \in Nat /\ th[Main].pc = "create"
      BY <1>1, <1>3 DEF CreateThread
    <3>2. QED
      BY <3>1
  <2>4. r \in ActorType /\ r.pc = "start"
    BY <1>1, <2>1 DEF ThreadPlaces
  <2>5. th' = [th EXCEPT ![Main] = m, ![i] = r]
    BY <1>1, <1>3, <2>1 DEF CreateThread
  <2> HIDE DEF m, r
  <2>6. /\ th' \in [Actors -> ActorType]
        /\ th'[Main] = m /\ th'[i] = r
        /\ \A t \in Threads : t # i => th'[t] = th[t]
    BY <1>1, <2>1, <2>3, <2>4, <2>5
  <2>7. StartInv'
    <3>1. \A t \in Threads : t >= i + 1 => t >= i /\ t # i
      BY <1>1
    <3>2. QED
      BY <1>1, <1>2, <2>2, <2>3, <2>6, <3>1 DEF StartInv
  <2>8. QED
    <3>1. UNCHANGED <<next, prev, lock, mutex_time, freed, status, total_time>>
      BY <1>3 DEF CreateThread
    <3>2. th'[Main].pc = "create"
      BY <2>3, <2>6
    <3>3. \A t \in Threads : th'[t] = th[t] \/ (th[t].pc = "unborn" /\ th'[t].pc = "start")
      BY <2>1, <2>2, <2>4, <2>6, <1>1
    <3>4. QED
      BY <1>1, <2>6, <2>7, <3>1, <3>2, <3>3
<1>4. ASSUME NEW m \in ActorType, th' = [th EXCEPT ![Main] = m],
             m.pc \in MainPlaces \ (LengthPlaces \ {"len_list"}), m.pc # "create",
             UNCHANGED <<next, prev, lock, mutex_time, status, total_time>>,
             freed' \in BOOLEAN
      PROVE  /\ UNCHANGED <<next, prev, lock, mutex_time>>
             /\ freed' \in BOOLEAN
             /\ status' \in {"running", "exit0", "exit1", "exit2", "abort", "SIGFPE"}
             /\ total_time' \in Nat
             /\ th' \in [Actors -> ActorType]
             /\ th'[Main].pc \in MainPlaces \ (LengthPlaces \ {"len_list"})
             /\ \A t \in Threads : th'[t] = th[t]
             /\ StartInv'
  <2>1. /\ th' \in [Actors -> ActorType] /\ th'[Main] = m
        /\ \A t \in Threads : th'[t] = th[t]
    BY <1>1, <1>4
  <2>2. QED
    BY <1>1, <1>2, <1>4, <2>1 DEF StartInv
<1>5. CASE CreateFails \/ FinalLengthWrong \/ AllCreated \/ JoinThread \/ AllJoined
  <2>1. /\ UNCHANGED <<next, prev, lock, mutex_time, status, total_time>>
        /\ freed' \in BOOLEAN
    BY <1>1, <1>5 DEF CreateFails, FinalLengthWrong, AllCreated, JoinThread, AllJoined
  <2>2. CASE CreateFails \/ FinalLengthWrong
    <3> DEFINE m == [th[Main] EXCEPT !.pc = "exit"]
    <3>1. m \in ActorType /\ m.pc = "exit"
      BY <1>1
    <3>2. th' = [th EXCEPT ![Main] = m]
      BY <1>1, <2>2 DEF CreateFails, FinalLengthWrong
    <3> HIDE DEF m
    <3>3. QED
      BY <1>4, <2>1, <3>1, <3>2
  <2>3. CASE AllCreated
    <3> DEFINE m == [th[Main] EXCEPT !.pc = "join", !.i = 0]
    <3>1. m \in ActorType /\ m.pc = "join"
      BY <1>1
    <3>2. th' = [th EXCEPT ![Main] = m]
      BY <1>1, <2>3 DEF AllCreated
    <3> HIDE DEF m
    <3>3. QED
      BY <1>4, <2>1, <3>1, <3>2
  <2>4. CASE JoinThread
    <3> DEFINE m == [th[Main] EXCEPT !.pc = "join", !.i = i + 1]
    <3>1. m \in ActorType /\ m.pc = "join"
      <4>1. th[Main] \in ActorType /\ i + 1 \in Nat
        BY <1>1
      <4>2. QED
        BY <4>1
    <3>2. th' = [th EXCEPT ![Main] = m]
      BY <1>1, <2>4 DEF JoinThread
    <3> HIDE DEF m
    <3>3. QED
      BY <1>4, <2>1, <3>1, <3>2
  <2>5. CASE AllJoined
    <3> DEFINE m == [th[Main] EXCEPT !.pc = "len_list", !.i = 0]
    <3>1. m \in ActorType /\ m.pc = "len_list"
      BY <1>1
    <3>2. th' = [th EXCEPT ![Main] = m]
      BY <1>1, <2>5 DEF AllJoined
    <3> HIDE DEF m
    <3>3. QED
      BY <1>4, <2>1, <3>1, <3>2
  <2>6. QED
    BY <1>5, <2>2, <2>3, <2>4, <2>5
<1>6. CASE ExitOne \/ DivideByZero
  BY <1>1, <1>2, <1>6 DEF ExitOne, DivideByZero, FinalLengthsZero, Exit, PointerInv, StartInv
<1>7. CASE Report
  <2>1. num_threads # 0
    BY <1>1, <1>7, Arguments DEF Report, my_ops, PointerInv
  <2>2. total_time' \in Nat
    BY <1>1, <1>7, <2>1 DEF Report
  <2>3. QED
    BY <1>1, <1>2, <1>7, <2>2 DEF Report, FinalLengthsZero, PointerInv, StartInv
<1>8. QED
  BY <1>3, <1>4, <1>5, <1>6, <1>7 DEF MainMove

\* PointerInv keeps types and places.
LEMMA PlaceStep ==
    ASSUME PointerInv, [Next]_vars
    PROVE  TypeOK' /\ PlaceInv' /\ StartInv'
<1>1. /\ UNCHANGED <<num_threads, num_iterations, num_lists, my_lock, key>>
      /\ Threads' = Threads /\ Main' = Main /\ Actors' = Actors /\ Lists' = Lists
      /\ Elements' = Elements /\ Nodes' = Nodes /\ Wild' = Wild
  BY StepSets
<1>2. /\ Main \in Actors /\ Main \notin Threads /\ Threads \subseteq Actors
      /\ th \in [Actors -> ActorType]
      /\ \A t \in Threads : t \in Nat
  BY Arguments DEF PointerInv, TypeOK, ActorType
<1>3. ASSUME /\ next' \in [Nodes -> Nodes \cup {Wild}]
             /\ prev' \in [Nodes -> Nodes \cup {Wild}]
             /\ lock' \in [Lists -> Threads \cup {NoThread}]
             /\ mutex_time' \in [Threads -> Nat]
             /\ th' \in [Actors -> ActorType]
             /\ freed' \in BOOLEAN
             /\ status' \in {"running", "exit0", "exit1", "exit2", "abort", "SIGFPE"}
             /\ total_time' \in Nat
      PROVE  TypeOK'
  BY <1>1, <1>3 DEF PointerInv, TypeOK, ActorType
<1>4. /\ next \in [Nodes -> Nodes \cup {Wild}]
      /\ prev \in [Nodes -> Nodes \cup {Wild}]
      /\ lock \in [Lists -> Threads \cup {NoThread}]
      /\ mutex_time \in [Threads -> Nat]
      /\ freed \in BOOLEAN
      /\ status \in {"running", "exit0", "exit1", "exit2", "abort", "SIGFPE"}
      /\ total_time \in Nat
  BY DEF PointerInv, TypeOK
<1>5. ASSUME NEW t \in Threads, th'[t] = th[t]
      PROVE  ThreadPlaceInv(t)'
  BY <1>1, <1>5 DEF PointerInv, PlaceInv, ThreadPlaceInv, my_start, my_end, Locked
<1>6. ASSUME NEW a \in Actors, th'[a] = th[a] \/ th'[a].pc \notin LengthPlaces \ {"len_list"}
      PROVE  CountingInv(a)'
  BY <1>1, <1>6 DEF PointerInv, PlaceInv, CountingInv
<1>7. th[Main].pc \in MainPlaces /\ StartInv
  BY DEF PointerInv, PlaceInv
<1>8. CASE UNCHANGED <<next, prev, lock, mutex_time, th, freed, total_time>>
           /\ status' \in {"running", "exit0", "exit1", "exit2", "abort", "SIGFPE"}
  BY <1>1, <1>2, <1>3, <1>4, <1>5, <1>6, <1>7, <1>8 DEF PlaceInv, StartInv
<1>9. ASSUME NEW t \in Threads, ThreadMove(t)
      PROVE  TypeOK' /\ PlaceInv' /\ StartInv'
  <2>1. /\ th' \in [Actors -> ActorType]
        /\ \A a \in Actors : a # t => th'[a] = th[a]
        /\ ThreadPlaceInv(t)'
        /\ th'[t].pc \notin LengthPlaces \ {"len_list"}
        /\ th[t].pc # "unborn"
    BY <1>1, <1>9, ThreadMoves, ThreadTypes
  <2>2. TypeOK'
    BY <1>3, <1>4, <1>9, <2>1, ThreadTypes
  <2>3. PlaceInv'
    BY <1>1, <1>2, <1>5, <1>6, <1>7, <2>1 DEF PlaceInv
  <2>4. StartInv'
    BY <1>1, <1>2, <1>7, <2>1 DEF StartInv
  <2>5. QED
    BY <2>2, <2>3, <2>4
<1>10. ASSUME NEW a \in Actors, LengthCall(a)
       PROVE  TypeOK' /\ PlaceInv' /\ StartInv'
  <2>1. /\ th' \in [Actors -> ActorType]
        /\ \A b \in Actors : b # a => th'[b] = th[b]
        /\ th[a].pc \in LengthPlaces /\ th'[a].pc \in LengthPlaces
        /\ th'[a].pc # "len_list" => th'[a].i = th[a].i /\ th[a].i < num_lists
        /\ UNCHANGED <<next, prev, lock, mutex_time, freed, status, total_time>>
    BY <1>10, CountingStep DEF OnlyLocal, memory, locks, process
  <2>2. TypeOK'
    BY <1>3, <1>4, <2>1
  <2>3. PlaceInv'
    <3>1. CountingInv(a)'
      BY <1>1, <2>1 DEF CountingInv
    <3>2. th'[Main].pc \in MainPlaces
      BY <1>2, <1>7, <2>1 DEF MainPlaces
    <3>3. ASSUME NEW t \in Threads PROVE ThreadPlaceInv(t)'
      <4>1. CASE t # a
        BY <1>2, <1>5, <2>1, <4>1
      <4>2. CASE t = a
        BY <2>1, <4>2 DEF ThreadPlaceInv, LengthPlaces, ThreadPlaces, LockPlaces, Inserting,
                          Deleting, InsertPlaces, DeletePlaces
      <4>3. QED
        BY <4>1, <4>2
    <3>4. QED
      BY <1>1, <1>6, <2>1, <3>1, <3>2, <3>3 DEF PlaceInv
  <2>4. StartInv'
    BY <1>1, <1>2, <1>7, <2>1 DEF StartInv, LengthPlaces
  <2>5. QED
    BY <2>2, <2>3, <2>4
<1>11. ASSUME MainMove
       PROVE  TypeOK' /\ PlaceInv' /\ StartInv'
  <2>1. /\ th' \in [Actors -> ActorType]
        /\ th'[Main].pc \in MainPlaces \ (LengthPlaces \ {"len_list"})
        /\ \A t \in Threads : th'[t] = th[t] \/ (th[t].pc = "unborn" /\ th'[t].pc = "start")
        /\ StartInv'
    BY <1>11, MainMoves
  <2>2. TypeOK'
    BY <1>3, <1>4, <1>11, <2>1, MainMoves
  <2>3. ASSUME NEW t \in Threads PROVE ThreadPlaceInv(t)'
    <3>1. CASE th'[t] = th[t]
      BY <1>5, <3>1
    <3>2. CASE th'[t].pc = "start"
      BY <3>2 DEF ThreadPlaceInv, ThreadPlaces, LockPlaces, Inserting, Deleting,
                  InsertPlaces, DeletePlaces
    <3>3. QED
      BY <2>1, <3>1, <3>2
  <2>4. ASSUME NEW a \in Actors PROVE CountingInv(a)'
    <3>1. a = Main \/ a \in Threads
      BY Arguments DEF PointerInv, Actors, Threads, Main
    <3>2. CASE a = Main
      BY <1>6, <2>1, <3>2
    <3>3. CASE a \in Threads
      BY <1>6, <2>1, <3>3 DEF LengthPlaces
    <3>4. QED
      BY <3>1, <3>2, <3>3
  <2>5. PlaceInv'
    BY <1>1, <2>1, <2>3, <2>4 DEF PlaceInv
  <2>6. QED
    BY <2>1, <2>2, <2>5
<1>12. QED
  <2>1. CASE \E t \in Threads : Thread(t)
    BY <1>2, <1>4, <1>8, <1>9, <1>10, <2>1, ThreadSplit, ThreadExits
  <2>2. CASE MainThread
    BY <1>2, <1>10, <1>11, <2>2 DEF MainThread, MainMove
  <2>3. CASE Ended \/ UNCHANGED vars
    BY <1>4, <1>8, <2>3 DEF Ended, vars, memory, locks, process
  <2>4. QED
    BY <2>1, <2>2, <2>3 DEF Next

-----------------------------------------------------------------------------
(* The memory.                                                             *)

LEMMA OneList ==
    ASSUME TypeOK, NEW l \in Lists, NEW m \in Lists, NEW n \in NodesOf(l), n \in NodesOf(m)
    PROVE  l = m
<1>1. l \in Int /\ m \in Int
  BY Arguments
<1>2. CASE IsHead(n)
  BY <1>1, <1>2, NodeFacts DEF HeadOf
<1>3. CASE ~IsHead(n)
  BY <1>1, <1>3, NodeFacts DEF NodesOf
<1>4. QED
  BY <1>2, <1>3

LEMMA SameNodes ==
    ASSUME UNCHANGED <<num_threads, num_iterations, num_lists, key>>
    PROVE  /\ \A e : SubList(e)' = SubList(e)
           /\ \A l : NodesOf(l)' = NodesOf(l) /\ HeadOf(l)' = HeadOf(l)
           /\ Elements' = Elements /\ Lists' = Lists
BY DEF SubList, NodesOf, HeadOf, Elements, Lists, IsHead

\* A store of a placed node into a link of a placed node of its list.
Stored(link, linkNext) ==
    \/ linkNext = link
    \/ \E l \in Lists : \E x, v \in Placed(l) : linkNext = [link EXCEPT ![x] = v]

\* The steps that only store placed nodes place no others.
LEMMA StorePlaces ==
    ASSUME PointerInv, UNCHANGED <<num_threads, num_iterations, num_lists, key>>,
           \A n : Fresh(n)' = Fresh(n), Stored(next, next'), Stored(prev, prev')
    PROVE  /\ \A l \in Lists : Placed(l)' = Placed(l)
           /\ LinkInv'
           /\ \A n \in Nodes : next'[n] = Wild <=> next[n] = Wild
           /\ \A n \in Nodes : Fresh(n) => next'[n] = next[n] /\ prev'[n] = prev[n]
<1>1. /\ next \in [Nodes -> Nodes \cup {Wild}]
      /\ prev \in [Nodes -> Nodes \cup {Wild}]
      /\ Wild \notin Nodes
      /\ Wild' = Wild
  BY NodeFacts DEF PointerInv, TypeOK, Wild
<1>2. ASSUME NEW l \in Lists
      PROVE  \A n \in Placed(l) : n \in Nodes /\ n \in NodesOf(l) /\ next[n] # Wild
  BY PlacedFacts DEF PointerInv
<1>3. \A n \in Nodes : next'[n] = Wild <=> next[n] = Wild
  <2>1. CASE next' = next
    BY <2>1
  <2>2. ASSUME NEW l \in Lists, NEW x \in Placed(l), NEW v \in Placed(l),
               next' = [next EXCEPT ![x] = v]
        PROVE  \A n \in Nodes : next'[n] = Wild <=> next[n] = Wild
    BY <1>1, <1>2, <2>2
  <2>3. QED
    BY <2>1, <2>2 DEF Stored
<1>4. \A l \in Lists : NodesOf(l) \subseteq Nodes /\ HeadOf(l) \in NodesOf(l)
  BY NodeFacts DEF PointerInv
<1>5. \A l \in Lists : Placed(l)' = Placed(l)
  BY <1>1, <1>3, <1>4, SameNodes DEF Placed
<1>6. ASSUME NEW l \in Lists, NEW n \in NodesOf(l), next[n] # Wild
      PROVE  next'[n] \in Placed(l) /\ prev'[n] \in Placed(l)
  <2>1. next[n] \in Placed(l) /\ prev[n] \in Placed(l) /\ n \in Nodes
    BY <1>4, <1>6 DEF PointerInv, LinkInv
  <2>2. ASSUME NEW link \in [Nodes -> Nodes \cup {Wild}], NEW after, Stored(link, after),
               link[n] \in Placed(l)
        PROVE  after[n] \in Placed(l)
    <3>1. ASSUME NEW m \in Lists, NEW x \in Placed(m), NEW v \in Placed(m),
                 after = [link EXCEPT ![x] = v]
          PROVE  after[n] \in Placed(l)
      <4>1. x = n => l = m
        BY <1>2, OneList DEF PointerInv
      <4>2. QED
        BY <2>1, <2>2, <3>1, <4>1
    <3>2. QED
      BY <2>2, <3>1 DEF Stored
  <2>3. QED
    BY <1>1, <2>1, <2>2
<1>7. LinkInv'
  <2>1. \A l \in Lists : next'[HeadOf(l)] # Wild
    BY <1>3, <1>4 DEF PointerInv, LinkInv
  <2>2. QED
    BY <1>1, <1>3, <1>4, <1>5, <1>6, <2>1, SameNodes DEF LinkInv
<1>8. ASSUME NEW n \in Nodes, Fresh(n)
      PROVE  next'[n] = next[n] /\ prev'[n] = prev[n]
  <2>1. \A l \in Lists : n \notin Placed(l)
    BY <1>8 DEF Placed
  <2>2. ASSUME NEW link \in [Nodes -> Nodes \cup {Wild}], NEW after, Stored(link, after)
        PROVE  after[n] = link[n]
    BY <2>1, <2>2 DEF Stored
  <2>3. QED
    BY <1>1, <2>2
<1>9. QED
  BY <1>3, <1>5, <1>7, <1>8

LEMMA HeadPlaced ==
    ASSUME PointerInv, NEW l \in Lists
    PROVE  HeadOf(l) \in Placed(l) /\ next[HeadOf(l)] \in Placed(l)
BY PlacedFacts DEF PointerInv

\* Who is not at InsertPred before and after leaves the fresh elements alone.
LEMMA SameFresh ==
    ASSUME NEW a, th \in [Actors -> ActorType], Threads \subseteq Actors, Threads' = Threads,
           \A b \in Actors : b # a => th'[b] = th[b],
           th[a].pc # "ins_pred", th'[a].pc # "ins_pred"
    PROVE  \A n : Fresh(n)' = Fresh(n)
<1>1. ASSUME NEW n, Fresh(n) PROVE Fresh(n)'
  <2>1. PICK t \in Threads : th[t].pc = "ins_pred" /\ th[t].i = n
    BY <1>1 DEF Fresh
  <2>2. QED
    BY <2>1 DEF Fresh
<1>2. ASSUME NEW n, Fresh(n)' PROVE Fresh(n)
  <2>1. PICK t \in Threads : th'[t].pc = "ins_pred" /\ th'[t].i = n
    BY <1>2 DEF Fresh
  <2>2. QED
    BY <2>1 DEF Fresh
<1>3. QED
  BY <1>1, <1>2 DEF Fresh

\* Once a node is placed, it stays placed, and links are set by InsertInit only.
MemoryGrows ==
    /\ LinkInv'
    /\ \A l \in Lists : Placed(l) \subseteq Placed(l)'
    /\ \A n \in Nodes : next[n] # Wild => next'[n] # Wild
    /\ \A n \in Nodes : next[n] = Wild /\ next'[n] # Wild =>
          \E t \in Threads : th[t].pc = "ins_walk" /\ th'[t].pc = "ins_pred" /\ th[t].i = n
    /\ \A l \in Lists : \A n \in Placed(l)' : n \notin Placed(l) =>
          \E t \in Threads : th[t].pc = "ins_pred" /\ th'[t].pc = "ins_link" /\ th[t].i = n
    /\ \A n \in Nodes : Fresh(n) => next'[n] = next[n] /\ prev'[n] = prev[n]

LEMMA MemoryStep ==
    ASSUME PointerInv, [Next]_vars
    PROVE  MemoryGrows
<1>1. /\ UNCHANGED <<num_threads, num_iterations, num_lists, my_lock, key>>
      /\ Threads' = Threads /\ Main' = Main /\ Actors' = Actors /\ Lists' = Lists
      /\ Nodes' = Nodes /\ Wild' = Wild
  BY StepSets
<1>2. /\ Main \in Actors /\ Main \notin Threads /\ Threads \subseteq Actors
      /\ th \in [Actors -> ActorType]
      /\ next \in [Nodes -> Nodes \cup {Wild}]
      /\ prev \in [Nodes -> Nodes \cup {Wild}]
      /\ Wild \notin Nodes
  BY Arguments, NodeFacts DEF PointerInv, TypeOK, ActorType
<1>3. CASE UNCHANGED <<next, prev, th>>
  <2>1. \A n : Fresh(n)' = Fresh(n)
    BY <1>1, <1>3 DEF Fresh
  <2>2. QED
    BY <1>1, <1>3, <2>1, StorePlaces DEF Stored, MemoryGrows
<1>4. ASSUME NEW t \in Threads, ThreadMove(t), ~InsertInit(t), ~InsertPred(t)
      PROVE  MemoryGrows
  <2>1. \A n : Fresh(n)' = Fresh(n)
    <3>1. \A b \in Actors : b # t => th'[b] = th[b]
      BY <1>1, <1>4, ThreadMoves
    <3>2. th[t].pc # "ins_pred" /\ th'[t].pc # "ins_pred"
      BY <1>2, <1>4 DEF ThreadMove, At, GoTo, GoToNext, GoToFrom, Fetch, Fetch2, Advance,
         Start, InsertTurn, InsertLock, InsertFirst, InsertWalk, InsertLink, InsertSucc,
         InsertBack, InsertUnlock, InsertEnd, LockNext, AllLocked, LengthsEnd, LengthsDone,
         UnlockNext, LengthsGood, DeleteTurn, DeleteLock, LookupFirst, LookupHit, LookupWalk,
         DeleteNext, DeleteCheckNext, DeletePrev, DeleteCheckPrev, UnlinkNext, UnlinkPrev,
         UnlinkBack, UnlinkPrev2, UnlinkNext2, UnlinkForward, DeleteUnlock, Return, ActorType
    <3>3. QED
      BY <1>1, <1>2, <3>1, <3>2, SameFresh
  <2>2. Stored(next, next') /\ Stored(prev, prev')
    <3>1. CASE UNCHANGED memory
      BY <3>1 DEF memory, Stored
    <3>2. CASE InsertLink(t) \/ InsertBack(t) \/ UnlinkBack(t) \/ UnlinkForward(t)
      <4>1. th[t].pc \in {"ins_link", "ins_back", "un_store", "un_store2"}
        BY <3>2 DEF InsertLink, InsertBack, UnlinkBack, UnlinkForward, At
      <4>2. /\ SubList(th[t].i) \in Lists
            /\ th[t].reg \in Placed(SubList(th[t].i))
            /\ th[t].pc \in {"ins_link", "ins_back"} => th[t].i \in Placed(SubList(th[t].i))
            /\ th[t].pc \in {"un_store", "un_store2"} => th[t].reg2 \in Placed(SubList(th[t].i))
        BY <4>1, ThreadFacts DEF Inserting, Deleting, InsertPlaces, DeletePlaces, UsesReg, UsesReg2,
           Published
      <4>3. QED
        BY <3>2, <4>2 DEF InsertLink, InsertBack, UnlinkBack, UnlinkForward, At, Stored
    <3>3. QED
      BY <1>4, <3>1, <3>2 DEF ThreadMove, OnlyLocal, Fetch, Fetch2, Advance,
         Start, InsertTurn, InsertLock, InsertFirst, InsertWalk, InsertSucc, InsertUnlock,
         InsertEnd, LockNext, AllLocked, LengthsEnd, UnlockNext, LengthsGood, DeleteTurn,
         DeleteLock, LookupFirst, LookupHit, LookupWalk, DeleteNext, DeleteCheckNext, DeletePrev,
         DeleteCheckPrev, UnlinkNext, UnlinkPrev, UnlinkPrev2, UnlinkNext2, DeleteUnlock, Return
  <2>3. QED
    BY <1>1, <2>1, <2>2, StorePlaces DEF MemoryGrows
<1>5. ASSUME NEW a \in Actors, LengthCall(a)
      PROVE  MemoryGrows
  <2>1. \A n : Fresh(n)' = Fresh(n)
    BY <1>1, <1>2, <1>5, CountingStep, SameFresh DEF LengthPlaces
  <2>2. QED
    BY <1>1, <1>5, <2>1, CountingStep, StorePlaces DEF Stored, OnlyLocal, memory, MemoryGrows
<1>6. ASSUME MainMove
      PROVE  MemoryGrows
  <2>1. /\ UNCHANGED <<next, prev>>
        /\ \A t \in Threads : th'[t] = th[t] \/ (th[t].pc = "unborn" /\ th'[t].pc = "start")
    BY <1>6, MainMoves
  <2>2. \A n : Fresh(n)' = Fresh(n)
    <3>1. \A t \in Threads : th'[t].pc = "ins_pred" \/ th[t].pc = "ins_pred" => th'[t] = th[t]
      BY <2>1
    <3>2. ASSUME NEW n PROVE Fresh(n)' <=> Fresh(n)
      BY <1>1, <3>1 DEF Fresh
    <3>3. QED
      BY <3>2 DEF Fresh
  <2>3. QED
    BY <1>1, <2>1, <2>2, StorePlaces DEF Stored, MemoryGrows
<1>7. ASSUME NEW t \in Threads, InsertInit(t)
      PROVE  MemoryGrows
  <2> DEFINE i == th[t].i
             c == th[t].cur
             l == SubList(i)
  <2>1. /\ i \in Elements /\ i \in Nodes /\ l \in Lists /\ i \in NodesOf(l)
        /\ c \in Placed(l) /\ prev[c] \in Placed(l) /\ c \in Nodes
    BY <1>7, ThreadFacts, NodeFacts DEF InsertInit, At, Inserting, InsertPlaces, UsesCur,
       PointerInv, ActorType
  <2>2. next[i] = Wild
    <3>1. i \in i .. my_end(t) - 1
      BY <1>2, <1>7, Arguments, ThreadFacts DEF InsertInit, At, PointerInv, PlaceInv, ThreadPlaceInv,
         Inserting, InsertPlaces, ActorType, my_end, my_start
    <3>2. QED
      BY <1>7, <3>1 DEF InsertInit, At, PointerInv, UnsetInv, UnsetAt
  <2>3. /\ next' = [next EXCEPT ![i] = c]
        /\ prev' = [prev EXCEPT ![i] = prev[c]]
        /\ th' = [th EXCEPT ![t] = [th[t] EXCEPT !.pc = "ins_pred"]]
        /\ th[t].pc = "ins_walk"
    BY <1>7 DEF InsertInit, GoTo, At
  <2>4. /\ th'[t].pc = "ins_pred" /\ th'[t].i = i
        /\ \A u \in Threads : u # t => th'[u] = th[u]
    BY <1>2, <2>3 DEF ActorType
  <2>5. ASSUME NEW n PROVE Fresh(n)' <=> Fresh(n) \/ n = i
    BY <1>1, <2>3, <2>4 DEF Fresh
  <2>6. \A m \in Lists : NodesOf(m) \subseteq Nodes /\ NodesOf(m)' = NodesOf(m)
                         /\ HeadOf(m)' = HeadOf(m) /\ HeadOf(m) \in NodesOf(m)
    BY <1>1, NodeFacts, SameNodes DEF PointerInv
  <2>7. ASSUME NEW m \in Lists PROVE Placed(m)' = Placed(m)
    <3>1. \A n \in NodesOf(m) : n # i => next'[n] = next[n]
      BY <1>2, <2>1, <2>3, <2>6
    <3>2. QED
      BY <1>1, <2>2, <2>5, <2>6, <3>1 DEF Placed
  <2>8. ASSUME NEW m \in Lists
        PROVE  /\ next'[HeadOf(m)] # Wild
               /\ \A n \in NodesOf(m) : next'[n] # Wild =>
                     next'[n] \in Placed(m) /\ prev'[n] \in Placed(m)
    <3>1. HeadOf(m) # i
      BY <2>1, NodeFacts DEF PointerInv
    <3>2. next[HeadOf(m)] # Wild
      BY DEF PointerInv, LinkInv
    <3>3. ASSUME NEW n \in NodesOf(m), n # i, next'[n] # Wild
          PROVE  next'[n] \in Placed(m) /\ prev'[n] \in Placed(m)
      BY <1>2, <2>1, <2>3, <2>6, <3>3 DEF PointerInv, LinkInv
    <3>4. i \in NodesOf(m) => m = l
      BY <2>1, OneList DEF PointerInv
    <3>5. next'[i] = c /\ prev'[i] = prev[c]
      BY <1>2, <2>1, <2>3
    <3>6. QED
      BY <1>2, <2>1, <2>3, <2>6, <3>1, <3>2, <3>3, <3>4, <3>5
  <2>9. LinkInv'
    BY <1>1, <2>6, <2>7, <2>8 DEF LinkInv
  <2>10. \A n \in Nodes : n # i => next'[n] = next[n]
    BY <1>2, <2>3
  <2>11. \A n \in Nodes : n # i => prev'[n] = prev[n]
    BY <1>2, <2>3
  <2>12. ~Fresh(i)
    BY <2>2 DEF Fresh, PointerInv, UnsetInv, UnsetAt
  <2>13. QED
    BY <2>2, <2>3, <2>4, <2>7, <2>9, <2>10, <2>11, <2>12 DEF MemoryGrows
<1>8. ASSUME NEW t \in Threads, InsertPred(t)
      PROVE  MemoryGrows
  <2>1. UNCHANGED <<next, prev>>
    BY <1>8 DEF InsertPred, Fetch, OnlyLocal, memory
  <2>2. /\ th'[t].pc # "ins_pred"
        /\ \A u \in Threads : u # t => th'[u] = th[u]
    BY <1>2, <1>8 DEF InsertPred, Fetch, ActorType
  <2>3. ASSUME NEW n, Fresh(n)' PROVE Fresh(n)
    BY <1>1, <2>2, <2>3 DEF Fresh
  <2>4. \A m \in Lists : Placed(m) \subseteq Placed(m)'
    BY <1>1, <2>1, <2>3, SameNodes DEF Placed
  <2>5. LinkInv'
    BY <1>1, <2>1, <2>4, SameNodes DEF PointerInv, LinkInv
  <2>6. ASSUME NEW m \in Lists, NEW n \in Placed(m)', n \notin Placed(m)
        PROVE  th[t].pc = "ins_pred" /\ th'[t].pc = "ins_link" /\ th[t].i = n
    <3>1. ~Fresh(n)' /\ next[n] # Wild /\ n \in NodesOf(m)
      BY <1>1, <2>1, <2>6, SameNodes DEF Placed
    <3>2. PICK u \in Threads : th[u].pc = "ins_pred" /\ th[u].i = n
      BY <2>6, <3>1 DEF Placed, Fresh
    <3>3. u = t
      BY <1>1, <2>2, <3>1, <3>2 DEF Fresh
    <3>4. th'[t].pc = "ins_link"
      BY <1>2, <1>8 DEF InsertPred, Fetch, ActorType
    <3>5. QED
      BY <3>2, <3>3, <3>4
  <2>7. QED
    BY <2>1, <2>4, <2>5, <2>6 DEF MemoryGrows
<1>9. QED
  <2>1. CASE \E t \in Threads : Thread(t)
    BY <1>2, <1>3, <1>4, <1>5, <1>7, <1>8, <2>1, ThreadSplit, ThreadExits
  <2>2. CASE MainThread
    BY <1>2, <1>5, <1>6, <2>2 DEF MainThread, MainMove
  <2>3. CASE Ended \/ UNCHANGED vars
    BY <1>3, <2>3 DEF Ended, vars, memory
  <2>4. QED
    BY <2>1, <2>2, <2>3 DEF Next

\* What the thread that moves has yet to insert, its element aside, stays unset.
LEMMA UnsetMoves ==
    ASSUME PointerInv, [Next]_vars, NEW t \in Threads, ThreadMove(t)
    PROVE  UnsetAt(t)'
<1> USE DEF At, GoTo, GoToNext, GoToFrom, Fetch, Fetch2, Advance, ActorType
<1> DEFINE k == th[t].i
<1>1. /\ th \in [Actors -> ActorType] /\ t \in Actors /\ Actors' = Actors /\ Threads' = Threads
      /\ k \in Nat /\ my_start(t) \in Nat /\ my_end(t) \in Nat
      /\ my_start(t)' = my_start(t) /\ my_end(t)' = my_end(t)
      /\ Wild' = Wild /\ Locked' = Locked
      /\ th[t].pc \in Inserting \cup {"ins_loop"} => my_start(t) <= k
      /\ UnsetAt(t)
  <2>1. /\ th \in [Actors -> ActorType] /\ t \in Actors
        /\ t \in Nat /\ num_iterations \in Nat
    BY Arguments DEF PointerInv, TypeOK
  <2>2. UNCHANGED num_iterations /\ Wild' = Wild /\ Locked' = Locked /\ Actors' = Actors
        /\ Threads' = Threads
    BY StepSets
  <2>3. t * num_iterations \in Nat
    BY <2>1, Products
  <2>4. QED
    BY <2>1, <2>2, <2>3 DEF my_start, my_end, PointerInv, PlaceInv, ThreadPlaceInv, UnsetInv
<1>2. ASSUME NEW e \in Int, my_start(t) <= e, e < my_end(t), next[e] = Wild,
             ~(th[t].pc = "ins_walk" /\ th'[t].pc = "ins_pred" /\ e = k)
      PROVE  next'[e] = Wild
  <2>1. e \in Nodes
    BY <1>2, OwnElements, NodeFacts DEF PointerInv
  <2>2. \A u \in Threads : u # t => th'[u] = th[u]
    BY ThreadMoves, StepSets, Arguments DEF PointerInv
  <2>3. QED
    BY <1>2, <2>1, <2>2, MemoryStep DEF MemoryGrows
<1>3. CASE Start(t)
  <2>1. th' = [th EXCEPT ![t] = [th[t] EXCEPT !.pc = "ins_loop", !.i = my_start(t)]]
    BY <1>1, <1>3 DEF Start
  <2>2. th'[t].pc = "ins_loop" /\ th'[t].i = my_start(t) /\ th[t].pc = "start"
    BY <1>1, <1>3, <2>1 DEF Start
  <2>3. QED
    BY <1>1, <1>2, <2>2 DEF UnsetAt
<1>4. CASE InsertTurn(t) \/ InsertLock(t) \/ InsertFirst(t) \/ InsertWalk(t)
  <2>1. /\ th[t].pc \in {"ins_loop", "ins_lock", "ins_first", "ins_walk"}
        /\ th'[t].pc \in {"ins_loop", "ins_lock", "ins_first", "ins_walk"}
        /\ th'[t].i = k
    BY <1>1, <1>4 DEF InsertTurn, InsertLock, InsertFirst, InsertWalk
  <2>2. my_start(t) <= k
    BY <1>1, <2>1 DEF Inserting, InsertPlaces
  <2>3. QED
    BY <1>1, <1>2, <2>1, <2>2 DEF UnsetAt
<1>5. CASE InsertInit(t)
  <2>1. th[t].pc = "ins_walk" /\ th'[t].pc = "ins_pred" /\ th'[t].i = k /\ my_start(t) <= k
    BY <1>1, <1>5 DEF InsertInit, Inserting, InsertPlaces
  <2>2. next'[k] # Wild
    <3>1. th[t].cur \in Nodes /\ k \in Nodes /\ next' = [next EXCEPT ![k] = th[t].cur]
      BY <1>5, <2>1, ThreadFacts, NodeFacts DEF PointerInv, InsertInit, Inserting, InsertPlaces
    <3>2. QED
      BY <3>1, NodeFacts DEF PointerInv, TypeOK
  <2>3. QED
    BY <1>1, <1>2, <2>1, <2>2 DEF UnsetAt
<1>6. CASE InsertPred(t) \/ InsertLink(t) \/ InsertSucc(t) \/ (InsertBack(t) /\ Locked)
  <2>1. /\ th[t].pc \in {"ins_pred", "ins_link", "ins_succ", "ins_back"}
        /\ th'[t].pc \in {"ins_link", "ins_succ", "ins_back", "ins_unlock"}
        /\ th'[t].i = k
    BY <1>1, <1>6 DEF InsertPred, InsertLink, InsertSucc, InsertBack
  <2>2. my_start(t) <= k
    BY <1>1, <2>1 DEF Inserting, InsertPlaces
  <2>3. QED
    BY <1>1, <1>2, <2>1, <2>2 DEF UnsetAt
<1>7. CASE InsertUnlock(t) \/ (InsertBack(t) /\ ~Locked)
  <2>1. /\ th[t].pc \in {"ins_back", "ins_unlock"}
        /\ th'[t].pc = "ins_loop"
        /\ th'[t].i = k + 1
    BY <1>1, <1>7 DEF InsertUnlock, InsertBack
  <2>2. my_start(t) <= k
    BY <1>1, <2>1 DEF Inserting, InsertPlaces
  <2>3. QED
    BY <1>1, <1>2, <2>1, <2>2 DEF UnsetAt
<1>8. CASE th'[t].pc \notin {"unborn", "start", "ins_loop", "ins_lock", "ins_first", "ins_walk",
                             "ins_pred", "ins_link", "ins_succ", "ins_back", "ins_unlock"}
  BY <1>8 DEF UnsetAt
<1>9. CASE \/ InsertEnd(t) \/ LockNext(t) \/ AllLocked(t) \/ LengthsEnd(t) \/ UnlockNext(t)
           \/ LengthsGood(t) \/ DeleteTurn(t) \/ DeleteLock(t) \/ LookupFirst(t)
           \/ LookupHit(t) \/ LookupWalk(t) \/ DeleteNext(t) \/ DeleteCheckNext(t)
           \/ DeletePrev(t) \/ DeleteCheckPrev(t) \/ UnlinkNext(t) \/ UnlinkPrev(t)
           \/ UnlinkBack(t) \/ UnlinkPrev2(t) \/ UnlinkNext2(t) \/ UnlinkForward(t)
           \/ DeleteUnlock(t) \/ Return(t)
  BY <1>1, <1>8, <1>9 DEF InsertEnd, LockNext, AllLocked, LengthsEnd, LengthsDone, UnlockNext,
     LengthsGood, DeleteTurn, DeleteLock, LookupFirst, LookupHit, LookupWalk, DeleteNext,
     DeleteCheckNext, DeletePrev, DeleteCheckPrev, UnlinkNext, UnlinkPrev, UnlinkBack,
     UnlinkPrev2, UnlinkNext2, UnlinkForward, DeleteUnlock, Return
<1>10. QED
  BY <1>3, <1>4, <1>5, <1>6, <1>7, <1>9 DEF ThreadMove

LEMMA UnsetStep ==
    ASSUME PointerInv, [Next]_vars
    PROVE  UnsetInv'
<1>1. /\ Threads' = Threads /\ Wild' = Wild /\ UNCHANGED num_iterations
      /\ Threads \subseteq Actors
  BY StepSets, Arguments DEF PointerInv
<1>2. ASSUME NEW t \in Threads, th'[t] = th[t]
      PROVE  UnsetAt(t)'
  <2>1. /\ t \in Nat /\ num_iterations \in Nat /\ th[t].i \in Nat
        /\ t * num_iterations \in Nat
    <3>1. t \in Nat /\ num_iterations \in Nat /\ th[t].i \in Nat
      BY Arguments DEF PointerInv, TypeOK
    <3>2. QED
      BY <3>1, Products
  <2>2. UnsetAt(t) /\ ThreadPlaceInv(t)
    BY DEF PointerInv, UnsetInv, PlaceInv
  <2>3. ASSUME NEW e \in Int, my_start(t) <= e, e < my_end(t)
        PROVE  next'[e] = Wild <=> next[e] = Wild
    <3>1. e \in Nodes
      BY <2>3, OwnElements, NodeFacts DEF PointerInv
    <3>2. ASSUME NEW u \in Threads, th[u].pc = "ins_walk", th'[u].pc = "ins_pred", th[u].i = e
          PROVE  FALSE
      <4>1. my_start(u) <= e /\ e < my_end(u)
        BY <3>2 DEF PointerInv, PlaceInv, ThreadPlaceInv, Inserting, InsertPlaces
      <4>2. u = t
        BY <2>3, <4>1, OneOwner DEF PointerInv
      <4>3. QED
        BY <1>2, <3>2, <4>2
    <3>3. QED
      BY <3>1, <3>2, MemoryStep DEF MemoryGrows
  <2>4. my_start(t)' = my_start(t) /\ my_end(t)' = my_end(t)
        /\ my_start(t) = t * num_iterations /\ my_end(t) \in Nat
    BY <1>1, <2>1 DEF my_start, my_end
  <2>5. QED
    BY <1>1, <1>2, <2>1, <2>2, <2>3, <2>4 DEF UnsetAt, ThreadPlaceInv, Inserting, InsertPlaces
<1>3. ASSUME NEW t \in Threads, Thread(t) PROVE UnsetInv'
  <2>1. CASE ThreadMove(t)
    BY <1>1, <1>2, <2>1, UnsetMoves, ThreadMoves, StepSets DEF UnsetInv
  <2>2. CASE ThreadExit(t)
    BY <1>1, <1>2, <2>2, ThreadExits DEF UnsetInv
  <2>3. CASE LengthCall(t)
    <3>1. UnsetAt(t)'
      BY <1>1, <2>3, CountingStep DEF UnsetAt, LengthPlaces
    <3>2. QED
      BY <1>1, <1>2, <2>3, <3>1, CountingStep DEF UnsetInv
  <2>4. QED
    BY <1>3, <2>1, <2>2, <2>3, ThreadSplit
<1>4. CASE MainThread
  <2>1. CASE LengthCall(Main)
    BY <1>1, <1>2, <2>1, CountingStep, Arguments DEF UnsetInv, PointerInv
  <2>2. CASE MainMove
    <3>1. ASSUME NEW t \in Threads, th[t].pc = "unborn", th'[t].pc = "start"
          PROVE  UnsetAt(t)'
      <4>1. UNCHANGED next
        BY <2>2, MainMoves
      <4>2. UnsetAt(t)
        BY DEF PointerInv, UnsetInv
      <4>3. my_start(t)' = my_start(t) /\ my_end(t)' = my_end(t)
        BY <1>1 DEF my_start, my_end
      <4>4. QED
        BY <1>1, <3>1, <4>1, <4>2, <4>3 DEF UnsetAt
    <3>2. QED
      BY <1>1, <1>2, <2>2, <3>1, MainMoves DEF UnsetInv
  <2>3. QED
    BY <1>4, <2>1, <2>2 DEF MainThread, MainMove
<1>5. CASE Ended \/ UNCHANGED vars
  BY <1>1, <1>2, <1>5 DEF Ended, vars, UnsetInv
<1>6. QED
  BY <1>3, <1>4, <1>5 DEF Next

-----------------------------------------------------------------------------
(* The registers.                                                          *)

LEMMA RegisterMoves ==
    ASSUME PointerInv, [Next]_vars, NEW t \in Threads, ThreadMove(t)
    PROVE  RegistersAt(t)'
<1> USE DEF At, GoTo, GoToNext, GoToFrom, Fetch, Fetch2, Advance, ActorType, UsesCur, UsesReg,
            UsesReg2, Published, InsertPlaces, DeletePlaces
<1> DEFINE p == th[t].pc
<1>0. PICK k, l : k = th[t].i /\ l = SubList(k)
  OBVIOUS
<1>1. /\ th \in [Actors -> ActorType] /\ t \in Actors
      /\ p \in UsesCur \cup {"ins_first", "look_first"} =>
            k \in Elements /\ l \in Lists
      /\ p \in UsesCur => /\ th[t].cur \in Placed(l) /\ next[th[t].cur] \in Placed(l)
                          /\ prev[th[t].cur] \in Placed(l)
      /\ p \in UsesReg => th[t].reg \in Placed(l)
      /\ p \in UsesReg2 => th[t].reg2 \in Placed(l)
      /\ p \in Published => k \in Placed(l) /\ next[k] \in Placed(l)
  BY <1>0, ThreadFacts, Arguments DEF PointerInv, TypeOK, Inserting, Deleting
<1>2. /\ \A e : SubList(e)' = SubList(e)
      /\ l \in Lists => Placed(l) \subseteq Placed(l)'
      /\ l \in Lists => HeadOf(l) \in Placed(l) /\ next[HeadOf(l)] \in Placed(l)
  <2>1. \A e : SubList(e)' = SubList(e)
    BY StepSets, SameNodes
  <2>2. QED
    BY <2>1, MemoryStep, HeadPlaced DEF MemoryGrows
<1>3. ASSUME th'[t].i = k
      PROVE  SubList(th[t].i)' = l
  BY <1>0, <1>2, <1>3 DEF SubList
<1>4. CASE InsertFirst(t) \/ LookupFirst(t)
  <2>1. /\ p \in {"ins_first", "look_first"} /\ th'[t].pc \in {"ins_walk", "look_walk"}
        /\ th'[t].i = k /\ th'[t].cur = next[HeadOf(l)]
    BY <1>0, <1>1, <1>4 DEF InsertFirst, LookupFirst
  <2>2. QED
    BY <1>1, <1>2, <1>3, <2>1 DEF RegistersAt
<1>5. CASE InsertWalk(t) \/ LookupWalk(t)
  <2>1. /\ p \in {"ins_walk", "look_walk"} /\ th'[t].pc = p
        /\ th'[t].i = k /\ th'[t].cur = next[th[t].cur]
    BY <1>0, <1>1, <1>5 DEF InsertWalk, LookupWalk
  <2>2. QED
    BY <1>1, <1>2, <1>3, <2>1 DEF RegistersAt
<1>6. CASE InsertInit(t) \/ LookupHit(t) \/ DeleteCheckNext(t) \/ DeleteCheckPrev(t)
  <2>1. /\ p \in {"ins_walk", "look_walk", "del_c1", "del_c2"}
        /\ th'[t].pc \in {"ins_pred", "del_next", "del_prev", "un_next"}
        /\ th'[t].i = k /\ th'[t].cur = th[t].cur
    BY <1>0, <1>1, <1>6 DEF InsertInit, LookupHit, DeleteCheckNext, DeleteCheckPrev
  <2>2. QED
    BY <1>1, <1>2, <1>3, <2>1 DEF RegistersAt
<1>7. CASE InsertPred(t)
  <2>1. /\ p = "ins_pred" /\ th'[t].pc = "ins_link"
        /\ th'[t].i = k /\ th'[t].cur = th[t].cur /\ th'[t].reg = prev[th[t].cur]
        /\ UNCHANGED next
        /\ \A u \in Threads : u # t => th'[u] = th[u]
    BY <1>0, <1>1, <1>7, Arguments DEF InsertPred, OnlyLocal, memory, PointerInv
  <2>2. k \in Placed(l)'
    <3>1. next[k] # Wild /\ k \in NodesOf(l)
      BY <1>0, <1>1, <2>1, NodeFacts DEF PointerInv, UnsetInv, UnsetAt
    <3>2. ASSUME NEW u \in Threads, th'[u].pc = "ins_pred", th'[u].i = k
          PROVE  FALSE
      <4>1. u # t /\ th[u].pc = "ins_pred" /\ th[u].i = k
        BY <2>1, <3>2
      <4>2. /\ my_start(u) <= k /\ k < my_end(u)
            /\ my_start(t) <= k /\ k < my_end(t)
        BY <1>0, <2>1, <4>1 DEF PointerInv, PlaceInv, ThreadPlaceInv, Inserting
      <4>3. u = t
        BY <1>0, <1>1, <2>1, <4>2, NodeFacts, OneOwner DEF PointerInv
      <4>4. QED
        BY <4>1, <4>3
    <3>3. ~Fresh(k)'
      <4>1. Threads' = Threads /\ k = th'[t].i
        BY <2>1, StepSets
      <4>2. \A u \in Threads : ~(th'[u].pc = "ins_pred" /\ th'[u].i = k)
        BY <3>2
      <4>3. \A n : Fresh(n)' <=> \E u \in Threads : th'[u].pc = "ins_pred" /\ th'[u].i = n
        BY <4>1 DEF Fresh
      <4>4. QED
        BY <4>2, <4>3
    <3>4. QED
      BY <2>1, <3>1, <3>3, SameNodes, StepSets DEF Placed
  <2>3. QED
    BY <1>1, <1>2, <1>3, <2>1, <2>2 DEF RegistersAt
<1>8. CASE InsertLink(t)
  <2>1. /\ p = "ins_link" /\ th'[t].pc = "ins_succ"
        /\ th'[t].i = k /\ th'[t].cur = th[t].cur
    BY <1>0, <1>1, <1>8 DEF InsertLink
  <2>2. QED
    BY <1>1, <1>2, <1>3, <2>1 DEF RegistersAt
<1>9. CASE InsertSucc(t)
  <2>1. /\ p = "ins_succ" /\ th'[t].pc = "ins_back"
        /\ th'[t].i = k /\ th'[t].cur = th[t].cur /\ th'[t].reg = next[k]
    BY <1>0, <1>1, <1>9 DEF InsertSucc
  <2>2. QED
    BY <1>1, <1>2, <1>3, <2>1 DEF RegistersAt
<1>10. CASE DeleteNext(t) \/ DeletePrev(t) \/ UnlinkNext(t) \/ UnlinkPrev2(t)
  <2>1. /\ p \in {"del_next", "del_prev", "un_next", "un_prev2"}
        /\ th'[t].pc \in {"del_c1", "del_c2", "un_prev", "un_next2"}
        /\ th'[t].i = k /\ th'[t].cur = th[t].cur
        /\ th'[t].reg \in {next[th[t].cur], prev[th[t].cur]}
    BY <1>0, <1>1, <1>10 DEF DeleteNext, DeletePrev, UnlinkNext, UnlinkPrev2
  <2>2. QED
    BY <1>1, <1>2, <1>3, <2>1 DEF RegistersAt
<1>11. CASE UnlinkPrev(t) \/ UnlinkNext2(t)
  <2>1. /\ p \in {"un_prev", "un_next2"}
        /\ th'[t].pc \in {"un_store", "un_store2"}
        /\ th'[t].i = k /\ th'[t].cur = th[t].cur /\ th'[t].reg = th[t].reg
        /\ th'[t].reg2 \in {next[th[t].cur], prev[th[t].cur]}
    BY <1>0, <1>1, <1>11 DEF UnlinkPrev, UnlinkNext2
  <2>2. QED
    BY <1>1, <1>2, <1>3, <2>1 DEF RegistersAt
<1>12. CASE UnlinkBack(t)
  <2>1. /\ p = "un_store" /\ th'[t].pc = "un_prev2"
        /\ th'[t].i = k /\ th'[t].cur = th[t].cur
    BY <1>0, <1>1, <1>12 DEF UnlinkBack
  <2>2. QED
    BY <1>1, <1>2, <1>3, <2>1 DEF RegistersAt
<1>13. CASE \/ Start(t) \/ InsertTurn(t) \/ InsertLock(t) \/ InsertBack(t) \/ InsertUnlock(t)
            \/ InsertEnd(t) \/ LockNext(t) \/ AllLocked(t) \/ LengthsEnd(t) \/ UnlockNext(t)
            \/ LengthsGood(t) \/ DeleteTurn(t) \/ DeleteLock(t) \/ UnlinkForward(t)
            \/ DeleteUnlock(t) \/ Return(t)
  <2>1. th'[t].pc \notin UsesCur
    BY <1>0, <1>1, <1>13 DEF Start, InsertTurn, InsertLock, InsertBack, InsertUnlock, InsertEnd, LockNext,
       AllLocked, LengthsEnd, LengthsDone, UnlockNext, LengthsGood, DeleteTurn, DeleteLock,
       UnlinkForward, DeleteUnlock, Return
  <2>2. QED
    BY <2>1 DEF RegistersAt
<1>14. QED
  BY <1>4, <1>5, <1>6, <1>7, <1>8, <1>9, <1>10, <1>11, <1>12, <1>13 DEF ThreadMove

LEMMA CounterMoves ==
    ASSUME PointerInv, [Next]_vars, NEW a \in Actors, LengthCall(a)
    PROVE  CountersAt(a)'
<1> USE DEF At, GoTo, GoToNext, Fetch, ActorType, LengthPlaces
<1> DEFINE p == th[a].pc
<1>0. PICK l : l = th[a].i
  OBVIOUS
<1>1. /\ th \in [Actors -> ActorType]
      /\ p \in LengthPlaces \ {"len_list"} =>
            /\ l \in Lists
            /\ th[a].cur \in Placed(l) /\ next[th[a].cur] \in Placed(l)
            /\ prev[th[a].cur] \in Placed(l)
  BY <1>0, CounterFacts DEF PointerInv, TypeOK
<1>2. l \in Lists => /\ Placed(l) \subseteq Placed(l)'
                     /\ next[HeadOf(l)] \in Placed(l)
  BY MemoryStep, HeadPlaced DEF MemoryGrows
<1>3. CASE LengthFirst(a)
  <2>1. l \in Lists
    BY <1>0, <1>1, <1>3, Arguments DEF LengthFirst, Lists, PointerInv
  <2>2. th'[a].pc = "len_walk" /\ th'[a].i = l /\ th'[a].cur = next[HeadOf(l)]
    BY <1>0, <1>1, <1>3 DEF LengthFirst
  <2>3. QED
    BY <1>0, <1>1, <1>2, <2>1, <2>2 DEF CountersAt
<1>4. CASE LengthReturn(a)
  BY <1>1, <1>4 DEF LengthReturn, CountersAt
<1>5. CASE LengthNext(a) \/ LengthPrev(a)
  <2>1. /\ p \in LengthPlaces \ {"len_list"}
        /\ th'[a].i = l /\ th'[a].cur = th[a].cur
        /\ th'[a].reg \in {next[th[a].cur], prev[th[a].cur]}
    BY <1>0, <1>1, <1>5 DEF LengthNext, LengthPrev
  <2>2. QED
    BY <1>0, <1>1, <1>2, <2>1 DEF CountersAt
<1>6. CASE LengthCheckNext(a) \/ LengthCheckPrev(a)
  <2>1. /\ p \in LengthPlaces \ {"len_list"}
        /\ th'[a].pc \in {"len_prev", "len_step", "len_list"}
        /\ th'[a].i = l /\ th'[a].cur = th[a].cur
    BY <1>0, <1>1, <1>6 DEF LengthCheckNext, LengthCheckPrev, Compare
  <2>2. QED
    BY <1>0, <1>1, <1>2, <2>1 DEF CountersAt
<1>7. CASE LengthStep(a)
  <2>1. /\ p \in LengthPlaces \ {"len_list"} /\ th'[a].pc = "len_walk"
        /\ th'[a].i = l /\ th'[a].cur = next[th[a].cur]
    BY <1>0, <1>1, <1>7 DEF LengthStep
  <2>2. QED
    BY <1>0, <1>1, <1>2, <2>1 DEF CountersAt
<1>8. QED
  BY <1>3, <1>4, <1>5, <1>6, <1>7 DEF LengthCall

\* A record that does not change, or is at none of the places, is fine.
LEMMA RegistersStay ==
    ASSUME PointerInv, [Next]_vars
    PROVE  /\ \A t \in Threads : th'[t] = th[t] \/ th'[t].pc \notin InsertPlaces \cup DeletePlaces
                 => RegistersAt(t)'
           /\ \A a \in Actors : th'[a] = th[a] \/ th'[a].pc \notin LengthPlaces \ {"len_list"}
                 => CountersAt(a)'
<1> USE DEF UsesCur, UsesReg, UsesReg2, Published, InsertPlaces, DeletePlaces, LengthPlaces
<1>1. \A l \in Lists : Placed(l) \subseteq Placed(l)'
  BY MemoryStep DEF MemoryGrows
<1>2. \A e : SubList(e)' = SubList(e)
  BY StepSets, SameNodes
<1>3. ASSUME NEW t \in Threads, th'[t] = th[t] PROVE RegistersAt(t)'
  <2>1. SubList(th[t].i)' = SubList(th[t].i)
    BY <1>2, <1>3 DEF SubList
  <2>2. th[t].pc \in InsertPlaces \cup DeletePlaces => SubList(th[t].i) \in Lists
    BY ThreadFacts DEF Inserting, Deleting
  <2>3. RegistersAt(t)
    BY DEF PointerInv, RegisterInv
  <2>4. QED
    BY <1>1, <1>3, <2>1, <2>2, <2>3 DEF RegistersAt
<1>4. ASSUME NEW a \in Actors, th'[a] = th[a] PROVE CountersAt(a)'
  <2>1. th[a].pc \in LengthPlaces \ {"len_list"} => th[a].i \in Lists
    BY CounterFacts
  <2>2. CountersAt(a)
    BY DEF PointerInv, RegisterInv
  <2>3. QED
    BY <1>1, <1>4, <2>1, <2>2 DEF CountersAt
<1>5. QED
  BY <1>3, <1>4 DEF RegistersAt, CountersAt

LEMMA RegisterStep ==
    ASSUME PointerInv, [Next]_vars
    PROVE  RegisterInv'
<1>1. Threads' = Threads /\ Actors' = Actors /\ Threads \subseteq Actors /\ Main \in Actors
      /\ UNCHANGED <<num_iterations, my_lock>> /\ Main \notin Threads
  BY StepSets, Arguments DEF PointerInv
<1>2. \A a \in Actors : a = Main \/ a \in Threads
  BY Arguments DEF PointerInv, Actors, Threads, Main
<1>3. ASSUME NEW a \in Actors, LengthCall(a) PROVE RegisterInv'
  <2>1. /\ \A b \in Actors : b # a => th'[b] = th[b]
        /\ th'[a].pc \in LengthPlaces
    BY <1>3, CountingStep
  <2>2. \A t \in Threads : RegistersAt(t)'
    BY <1>1, <2>1, RegistersStay DEF LengthPlaces, InsertPlaces, DeletePlaces
  <2>3. \A b \in Actors : CountersAt(b)'
    BY <1>3, <2>1, RegistersStay, CounterMoves
  <2>4. QED
    BY <1>1, <2>2, <2>3 DEF RegisterInv
<1>4. ASSUME NEW t \in Threads, ThreadMove(t) PROVE RegisterInv'
  <2>1. /\ \A a \in Actors : a # t => th'[a] = th[a]
        /\ th'[t].pc \notin LengthPlaces \ {"len_list"}
    BY <1>1, <1>4, ThreadMoves
  <2>2. QED
    BY <1>1, <1>4, <2>1, RegistersStay, RegisterMoves DEF RegisterInv
<1>5. CASE UNCHANGED th
  BY <1>1, <1>5, RegistersStay DEF RegisterInv
<1>6. CASE MainMove
  <2>1. /\ th'[Main].pc \notin LengthPlaces \ {"len_list"}
        /\ \A t \in Threads : th'[t] = th[t] \/ th'[t].pc = "start"
    BY <1>6, MainMoves
  <2>2. QED
    BY <1>1, <1>2, <2>1, RegistersStay DEF RegisterInv, LengthPlaces, InsertPlaces, DeletePlaces
<1>7. QED
  <2>1. CASE \E t \in Threads : Thread(t)
    BY <1>1, <1>3, <1>4, <1>5, <2>1, ThreadSplit, ThreadExits
  <2>2. CASE MainThread
    BY <1>1, <1>3, <1>6, <2>2 DEF MainThread, MainMove
  <2>3. CASE Ended \/ UNCHANGED vars
    BY <1>5, <2>3 DEF Ended, vars
  <2>4. QED
    BY <2>1, <2>2, <2>3 DEF Next

LEMMA PointerInit == Init => PointerInv
<1>1. SUFFICES ASSUME Init PROVE PointerInv
  OBVIOUS
<1>2. /\ num_threads \in Nat /\ num_iterations \in Nat /\ num_lists \in Nat \ {0}
      /\ <<num_threads, num_iterations, num_lists>> \in Sizes
  <2>1. PICK size \in Sizes :
           num_threads = size[1] /\ num_iterations = size[2] /\ num_lists = size[3]
    BY <1>1 DEF Init
  <2>2. size \in Nat \X Nat \X (Nat \ {0})
    BY ArgumentsAssumption
  <2>3. QED
    BY <2>1, <2>2
<1>3. /\ Threads = 0 .. num_threads - 1 /\ Main = num_threads /\ Actors = 0 .. num_threads
      /\ Lists = 0 .. num_lists - 1 /\ 0 \in Lists
      /\ Wild \in Nat /\ Elements = 0 .. Wild - 1
  BY <1>2 DEF Threads, Main, Actors, Lists, Wild, Elements
<1>4. \A l \in Lists : HeadOf(l) \in Nodes /\ IsHead(HeadOf(l))
  BY <1>3 DEF HeadOf, Nodes, IsHead
<1>5. \A n \in Elements : ~IsHead(n) /\ n \in Nodes
  BY <1>3 DEF IsHead, Nodes
<1>6. /\ th \in [Actors -> ActorType]
      /\ th[Main].pc = "create" /\ th[Main].i = 0
      /\ \A t \in Threads : th[t].pc = "unborn"
  <2>1. \A t \in Actors : th[t] \in ActorType
    BY <1>1, <1>3, <1>4 DEF Init, ActorType, ThreadPlaces, MainPlaces
  <2>2. /\ \A t \in Actors : th[t].pc = IF t = Main THEN "create" ELSE "unborn"
        /\ \A t \in Actors : th[t].i = 0
        /\ th \in [Actors -> ActorType]
    BY <1>1, <2>1 DEF Init
  <2>3. Main \in Actors /\ \A t \in Threads : t \in Actors /\ t # Main
    BY <1>2, <1>3
  <2>4. QED
    BY <2>2, <2>3
<1>7. TypeOK
  <2>1. /\ next \in [Nodes -> Nodes \cup {Wild}]
        /\ prev \in [Nodes -> Nodes \cup {Wild}]
    BY <1>1 DEF Init
  <2>2. /\ lock \in [Lists -> Threads \cup {NoThread}]
        /\ mutex_time \in [Threads -> Nat]
        /\ my_lock \in Syncs /\ key \in [Elements -> Keys]
        /\ freed \in BOOLEAN /\ status = "running" /\ total_time = 0
    BY <1>1 DEF Init
  <2>3. QED
    BY <1>2, <1>6, <2>1, <2>2 DEF TypeOK, ActorType
<1>8. PlaceInv
  <2>1. \A t \in Threads : ThreadPlaceInv(t)
    BY <1>6 DEF ThreadPlaceInv, ThreadPlaces, LockPlaces, Inserting, Deleting, InsertPlaces, DeletePlaces
  <2>2. \A a \in Actors : CountingInv(a)
    BY <1>7, <1>6, ActorSplit DEF CountingInv, LengthPlaces
  <2>3. QED
    BY <1>6, <2>1, <2>2 DEF PlaceInv, MainPlaces
<1>9. StartInv
  BY <1>6 DEF StartInv
<1>10. /\ \A l \in Lists : next[HeadOf(l)] = HeadOf(l) /\ prev[HeadOf(l)] = HeadOf(l)
       /\ \A e \in Elements : next[e] = Wild
  BY <1>1, <1>4, <1>5 DEF Init
<1>11. UnsetInv
  <2>1. ASSUME NEW t \in Threads, NEW e \in my_start(t) .. my_end(t) - 1
        PROVE  next[e] = Wild
    <3>1. my_start(t) \in Int /\ my_end(t) \in Int
      <4>1. t \in Nat /\ t * num_iterations \in Nat
        BY <1>2, <1>3, <1>7, Arguments, Products
      <4>2. QED
        BY <1>2, <4>1 DEF my_start, my_end
    <3>2. e \in Elements
      BY <1>7, <2>1, <3>1, OwnElements
    <3>3. QED
      BY <1>10, <3>2
  <2>2. QED
    BY <1>6, <2>1 DEF UnsetInv, UnsetAt
<1>12. \A n : ~Fresh(n)
  BY <1>6 DEF Fresh
<1>13. LinkInv
  <2>1. ASSUME NEW l \in Lists, NEW n \in NodesOf(l), next[n] # Wild
        PROVE  n = HeadOf(l)
    BY <1>7, <1>10, <2>1, NodeFacts DEF NodesOf
  <2>2. \A l \in Lists : HeadOf(l) \in Placed(l) /\ next[HeadOf(l)] # Wild
    BY <1>4, <1>7, <1>10, <1>12, NodeFacts DEF Placed
  <2>3. QED
    BY <1>10, <2>1, <2>2 DEF LinkInv
<1>14. RegisterInv
  <2>1. \A t \in Threads : RegistersAt(t)
    BY <1>6 DEF RegistersAt, UsesCur, UsesReg, UsesReg2, Published, InsertPlaces, DeletePlaces
  <2>2. \A a \in Actors : CountersAt(a)
    BY <1>7, <1>6, ActorSplit DEF CountersAt, LengthPlaces
  <2>3. QED
    BY <2>1, <2>2 DEF RegisterInv
<1>15. QED
  BY <1>7, <1>8, <1>9, <1>11, <1>13, <1>14 DEF PointerInv

LEMMA PointerStep == PointerInv /\ [Next]_vars => PointerInv'
BY PlaceStep, UnsetStep, MemoryStep, RegisterStep DEF PointerInv, MemoryGrows

\* The types, for all arguments.
THEOREM TypeCorrect == Spec => []TypeOK
<1>1. PointerInv => TypeOK
  BY DEF PointerInv
<1>2. QED
  BY <1>1, PointerInit, PointerStep, PTL DEF Spec

\* In every mode, locks or not, every address a thread uses is a node of the
\* list it works on: the loads and stores of concurrent insertions and
\* deletions never lead it to a link that was not set, or to another list.
THEOREM PointersAlwaysValid == Spec => []PointersValid
<1>1. ASSUME PointerInv PROVE PointersValid
  <2>1. \A l \in Lists : Placed(l) \subseteq NodesOf(l)
    BY DEF Placed
  <2>2. \A t \in Threads :
           /\ th[t].pc \in UsesCur \cup UsesReg \cup UsesReg2 => SubList(th[t].i) \in Lists
           /\ RegistersAt(t)
    BY <1>1, ThreadFacts DEF PointerInv, RegisterInv, UsesCur, UsesReg, UsesReg2, Inserting,
       Deleting, InsertPlaces, DeletePlaces
  <2>3. \A t \in Threads :
           /\ th[t].pc \in LengthPlaces \ {"len_list"} => th[t].i \in Lists
           /\ CountersAt(t)
    BY <1>1, CounterFacts, Arguments DEF PointerInv, RegisterInv
  <2>4. QED
    BY <2>1, <2>2, <2>3 DEF PointersValid, RegistersAt, CountersAt, UsesCur, UsesReg, UsesReg2,
       InsertPlaces, DeletePlaces, LengthPlaces
<1>2. QED
  BY <1>1, PointerInit, PointerStep, PTL DEF Spec

-----------------------------------------------------------------------------
(* The locks.                                                              *)

\* The locks of a thread at a place with an index.
LockedAt(p, k) ==
    IF ~Locked THEN {}
    ELSE IF p \in InsertPlaces \cup {"ins_unlock"} \cup DeletePlaces \cup {"del_unlock"}
         THEN {SubList(k)}
    ELSE IF p = "len_lock" THEN {l \in Lists : l < k}
    ELSE IF p = "len_unlock" THEN {l \in Lists : l >= k}
    ELSE IF p \in LengthPlaces THEN Lists
    ELSE {}

LEMMA HoldsByPlace ==
    ASSUME [Next]_vars, NEW t
    PROVE  /\ Holds(t) = LockedAt(th[t].pc, th[t].i)
           /\ Holds(t)' = LockedAt(th'[t].pc, th'[t].i)
<1>1. Holds(t) = LockedAt(th[t].pc, th[t].i)
  BY DEF Holds, LockedAt
<1>2. PICK p, k : p = th'[t].pc /\ k = th'[t].i
  OBVIOUS
<1>3. Locked' = Locked /\ Lists' = Lists /\ \A e : SubList(e)' = SubList(e)
  BY StepSets, SameNodes
<1>4. Holds(t)' = LockedAt(p, k)
  BY <1>2, <1>3 DEF Holds, LockedAt
<1>5. QED
  BY <1>1, <1>2, <1>4

\* When one thread moves, its own locks are all there is to look at.
LEMMA OwnersByThread ==
    ASSUME PointerInv, LockOwnership, [Next]_vars, NEW t \in Threads,
           \A a \in Actors : a # t => th'[a] = th[a],
           \A l \in Lists : \A u \in Threads : u # t => (lock'[l] = u <=> lock[l] = u),
           LockedAt(th'[t].pc, th'[t].i) = {l \in Lists : lock'[l] = t}
    PROVE  LockOwnership'
<1>1. Threads' = Threads /\ Lists' = Lists /\ Threads \subseteq Actors
  BY StepSets, Arguments DEF PointerInv
<1>2. ASSUME NEW u \in Threads PROVE Holds(u)' = {l \in Lists : lock'[l] = u}
  <2>1. CASE u = t
    BY <2>1, HoldsByPlace
  <2>2. CASE u # t
    <3>1. Holds(u)' = Holds(u)
      BY <1>1, <2>2, HoldsByPlace
    <3>2. QED
      BY <2>2, <3>1 DEF LockOwnership
  <2>3. QED
    BY <2>1, <2>2
<1>3. QED
  BY <1>1, <1>2 DEF LockOwnership

LEMMA OwnershipMoves ==
    ASSUME PointerInv, LockOwnership, [Next]_vars, NEW t \in Threads, ThreadMove(t)
    PROVE  LockOwnership'
<1> USE DEF At, GoTo, GoToNext, GoToFrom, Fetch, Fetch2, Advance, ActorType
<1>0. PICK k, p : k = th[t].i /\ p = th[t].pc
  OBVIOUS
<1>1. /\ th \in [Actors -> ActorType] /\ t \in Actors /\ k \in Nat
      /\ lock \in [Lists -> Threads \cup {NoThread}]
      /\ NoThread \notin Threads /\ t # NoThread
      /\ num_lists \in Nat /\ Lists = 0 .. num_lists - 1
      /\ p \in Inserting \cup Deleting => SubList(k) \in Lists
      /\ p \in LockPlaces => Locked
      /\ \A a \in Actors : a # t => th'[a] = th[a]
  <2>1. /\ th \in [Actors -> ActorType] /\ t \in Actors /\ k \in Nat
        /\ lock \in [Lists -> Threads \cup {NoThread}]
        /\ num_lists \in Nat /\ Lists = 0 .. num_lists - 1
    BY <1>0, Arguments DEF PointerInv, TypeOK, Lists
  <2>2. NoThread \notin Threads /\ t # NoThread
    BY Arguments DEF PointerInv, NoThread
  <2>3. p \in Inserting \cup Deleting => SubList(k) \in Lists
    BY <1>0, ThreadFacts
  <2>4. p \in LockPlaces => Locked
    BY <1>0 DEF PointerInv, PlaceInv, ThreadPlaceInv
  <2>5. \A a \in Actors : a # t => th'[a] = th[a]
    BY ThreadMoves, StepSets
  <2>6. QED
    BY <2>1, <2>2, <2>3, <2>4, <2>5
<1>2. LockedAt(p, k) = {l \in Lists : lock[l] = t}
  BY <1>0, HoldsByPlace DEF LockOwnership
<1>3. ASSUME UNCHANGED lock, LockedAt(th'[t].pc, th'[t].i) = LockedAt(p, k)
      PROVE  LockOwnership'
  BY <1>1, <1>2, <1>3, OwnersByThread
<1>4. ASSUME NEW m \in Lists, lock[m] = NoThread, lock' = [lock EXCEPT ![m] = t],
             LockedAt(th'[t].pc, th'[t].i) = LockedAt(p, k) \cup {m}
      PROVE  LockOwnership'
  <2>1. \A l \in Lists : lock'[l] = IF l = m THEN t ELSE lock[l]
    BY <1>1, <1>4
  <2>2. QED
    BY <1>1, <1>2, <1>4, <2>1, OwnersByThread
<1>5. ASSUME NEW m \in Lists, lock' = [lock EXCEPT ![m] = NoThread],
             m \in LockedAt(p, k) \/ ~Locked,
             LockedAt(th'[t].pc, th'[t].i) = LockedAt(p, k) \ {m}
      PROVE  LockOwnership'
  <2>1. \A l \in Lists : lock'[l] = IF l = m THEN NoThread ELSE lock[l]
    BY <1>1, <1>5
  <2>2. lock[m] = t \/ lock[m] = NoThread
    <3>1. ASSUME ~Locked PROVE lock[m] \notin Threads
      <4>1. \A u \in Threads : Holds(u) = {}
        BY <3>1 DEF Holds
      <4>2. QED
        BY <4>1 DEF LockOwnership
    <3>2. QED
      BY <1>1, <1>2, <1>5, <3>1
  <2>3. QED
    BY <1>1, <1>2, <1>5, <2>1, <2>2, OwnersByThread
<1>6. CASE InsertLock(t) \/ DeleteLock(t)
  <2>1. /\ p \in {"ins_lock", "del_lock"} /\ th'[t].pc \in {"ins_first", "look_first"}
        /\ th'[t].i = k /\ lock[SubList(k)] = NoThread
        /\ lock' = [lock EXCEPT ![SubList(k)] = t]
    BY <1>0, <1>1, <1>6 DEF InsertLock, DeleteLock, Acquire
  <2>2. Locked /\ SubList(k) \in Lists
    BY <1>1, <2>1 DEF LockPlaces, Inserting, Deleting
  <2>3. LockedAt(p, k) = {} /\ LockedAt(th'[t].pc, th'[t].i) = {SubList(k)}
    BY <2>1, <2>2 DEF LockedAt, InsertPlaces, DeletePlaces, LengthPlaces
  <2>4. QED
    BY <1>4, <2>1, <2>2, <2>3
<1>7. CASE InsertUnlock(t) \/ DeleteUnlock(t)
  <2>1. /\ p \in {"ins_unlock", "del_unlock"} /\ th'[t].pc \in {"ins_loop", "del_loop"}
        /\ lock' = [lock EXCEPT ![SubList(k)] = NoThread]
    BY <1>0, <1>1, <1>7 DEF InsertUnlock, DeleteUnlock, Release
  <2>2. Locked /\ SubList(k) \in Lists
    BY <1>1, <2>1 DEF LockPlaces, Inserting, Deleting
  <2>3. LockedAt(p, k) = {SubList(k)} /\ LockedAt(th'[t].pc, th'[t].i) = {}
    BY <2>1, <2>2 DEF LockedAt, InsertPlaces, DeletePlaces, LengthPlaces
  <2>4. QED
    BY <1>5, <2>1, <2>2, <2>3
<1>8. CASE LockNext(t)
  <2>1. /\ p = "len_lock" /\ th'[t].pc = "len_lock" /\ th'[t].i = k + 1
        /\ k < num_lists /\ lock[k] = NoThread /\ lock' = [lock EXCEPT ![k] = t]
    BY <1>0, <1>1, <1>8 DEF LockNext, Acquire
  <2>2. k \in Lists /\ Locked
    BY <1>1, <2>1 DEF LockPlaces
  <2>3. LockedAt("len_lock", k + 1) = LockedAt("len_lock", k) \cup {k}
    BY <1>1, <2>2 DEF LockedAt, InsertPlaces, DeletePlaces
  <2>4. QED
    BY <1>4, <2>1, <2>2, <2>3
<1>9. CASE UnlockNext(t)
  <2>1. /\ p = "len_unlock" /\ th'[t].pc = "len_unlock" /\ th'[t].i = k + 1
        /\ k < num_lists /\ lock' = [lock EXCEPT ![k] = NoThread]
    BY <1>0, <1>1, <1>9 DEF UnlockNext, Release
  <2>2. k \in Lists
    BY <1>1, <2>1
  <2>3. LockedAt("len_unlock", k + 1) = LockedAt("len_unlock", k) \ {k}
    BY <1>1, <2>2 DEF LockedAt, InsertPlaces, DeletePlaces
  <2>4. k \in LockedAt("len_unlock", k) \/ ~Locked
    BY <1>1, <2>2 DEF LockedAt, InsertPlaces, DeletePlaces
  <2>5. QED
    BY <1>5, <2>1, <2>2, <2>3, <2>4
<1>10. CASE AllLocked(t) \/ LengthsEnd(t) \/ LengthsGood(t)
  <2>1. UNCHANGED lock
    BY <1>10 DEF AllLocked, LengthsEnd, LengthsGood, OnlyLocal, locks
  <2>2. CASE AllLocked(t)
    <3>1. p = "len_lock" /\ k >= num_lists /\ th'[t].pc = "len_list"
      BY <1>0, <1>1, <2>2 DEF AllLocked
    <3>2. LockedAt("len_lock", k) = LockedAt("len_list", th'[t].i)
      <4>1. {l \in Lists : l < k} = Lists
        BY <1>1, <3>1
      <4>2. QED
        BY <4>1 DEF LockedAt, InsertPlaces, DeletePlaces, LengthPlaces
    <3>3. QED
      BY <1>3, <2>1, <3>1, <3>2
  <2>3. CASE LengthsEnd(t)
    <3>1. p = "len_list" /\ th'[t].pc = "len_unlock" /\ (Locked => th'[t].i = 0)
      BY <1>0, <1>1, <2>3 DEF LengthsEnd, LengthsDone
    <3>2. LockedAt("len_list", k) = LockedAt("len_unlock", th'[t].i)
      <4>1. {l \in Lists : l >= 0} = Lists
        BY <1>1
      <4>2. QED
        BY <3>1, <4>1 DEF LockedAt, InsertPlaces, DeletePlaces, LengthPlaces
    <3>3. QED
      BY <1>3, <2>1, <3>1, <3>2
  <2>4. CASE LengthsGood(t)
    <3>1. p = "len_unlock" /\ k >= num_lists /\ th'[t].pc = "del_loop"
      BY <1>0, <1>1, <2>4 DEF LengthsGood
    <3>2. LockedAt("len_unlock", k) = LockedAt("del_loop", th'[t].i)
      BY <1>1, <3>1 DEF LockedAt, InsertPlaces, DeletePlaces, LengthPlaces
    <3>3. QED
      BY <1>3, <2>1, <3>1, <3>2
  <2>5. QED
    BY <1>10, <2>2, <2>3, <2>4
<1>11. CASE \/ Start(t) \/ InsertTurn(t) \/ InsertEnd(t) \/ DeleteTurn(t) \/ Return(t)
            \/ InsertBack(t) \/ UnlinkForward(t)
  <2>1. UNCHANGED lock
    BY <1>11 DEF Start, InsertTurn, InsertEnd, DeleteTurn, Return, InsertBack, UnlinkForward,
                 OnlyLocal, locks
  <2>2. CASE ~Locked
    BY <1>3, <2>1, <2>2 DEF LockedAt
  <2>3. CASE Locked /\ (InsertBack(t) \/ UnlinkForward(t))
    <3>1. /\ p \in {"ins_back", "un_store2"} /\ th'[t].pc \in {"ins_unlock", "del_unlock"}
          /\ th'[t].i = k
      BY <1>0, <1>1, <2>3 DEF InsertBack, UnlinkForward
    <3>2. LockedAt(p, k) = {SubList(k)} /\ LockedAt(th'[t].pc, k) = {SubList(k)}
      BY <2>3, <3>1 DEF LockedAt, InsertPlaces, DeletePlaces
    <3>3. QED
      BY <1>3, <2>1, <3>1, <3>2
  <2>4. CASE Locked /\ (Start(t) \/ InsertTurn(t) \/ DeleteTurn(t) \/ Return(t))
    <3>1. /\ p \in {"start", "ins_loop", "del_loop"}
          /\ th'[t].pc \in {"ins_loop", "ins_lock", "del_lock", "done"}
      BY <1>0, <1>1, <2>4 DEF Start, InsertTurn, DeleteTurn, Return
    <3>2. LockedAt(p, k) = {} /\ LockedAt(th'[t].pc, th'[t].i) = {}
      BY <3>1 DEF LockedAt, InsertPlaces, DeletePlaces, LengthPlaces
    <3>3. QED
      BY <1>3, <2>1, <3>2
  <2>5. CASE Locked /\ InsertEnd(t)
    <3>1. p = "ins_loop" /\ th'[t].pc = "len_lock" /\ th'[t].i = 0
      BY <1>0, <1>1, <2>5 DEF InsertEnd
    <3>2. LockedAt("ins_loop", k) = {} /\ LockedAt("len_lock", 0) = {}
      BY <1>1 DEF LockedAt, InsertPlaces, DeletePlaces, LengthPlaces
    <3>3. QED
      BY <1>3, <2>1, <3>1, <3>2
  <2>6. QED
    BY <1>11, <2>2, <2>3, <2>4, <2>5
<1>12. CASE \/ InsertFirst(t) \/ InsertWalk(t) \/ InsertInit(t) \/ InsertPred(t) \/ InsertLink(t)
            \/ InsertSucc(t) \/ LookupFirst(t) \/ LookupHit(t) \/ LookupWalk(t) \/ DeleteNext(t)
            \/ DeleteCheckNext(t) \/ DeletePrev(t) \/ DeleteCheckPrev(t) \/ UnlinkNext(t)
            \/ UnlinkPrev(t) \/ UnlinkBack(t) \/ UnlinkPrev2(t) \/ UnlinkNext2(t)
  <2>1. UNCHANGED lock
    BY <1>12 DEF InsertFirst, InsertWalk, InsertInit, InsertPred, InsertLink, InsertSucc,
       LookupFirst, LookupHit, LookupWalk, DeleteNext, DeleteCheckNext, DeletePrev,
       DeleteCheckPrev, UnlinkNext, UnlinkPrev, UnlinkBack, UnlinkPrev2, UnlinkNext2,
       OnlyLocal, locks
  <2>2. /\ p \in InsertPlaces \cup DeletePlaces /\ th'[t].pc \in InsertPlaces \cup DeletePlaces
        /\ th'[t].i = k
    BY <1>0, <1>1, <1>12 DEF InsertFirst, InsertWalk, InsertInit, InsertPred, InsertLink, InsertSucc,
       LookupFirst, LookupHit, LookupWalk, DeleteNext, DeleteCheckNext, DeletePrev,
       DeleteCheckPrev, UnlinkNext, UnlinkPrev, UnlinkBack, UnlinkPrev2, UnlinkNext2,
       InsertPlaces, DeletePlaces
  <2>3. LockedAt(th'[t].pc, k) = LockedAt(p, k)
    BY <2>2 DEF LockedAt
  <2>4. QED
    BY <1>3, <2>1, <2>2, <2>3
<1>13. QED
  BY <1>6, <1>7, <1>8, <1>9, <1>10, <1>11, <1>12 DEF ThreadMove

LEMMA OwnershipStep ==
    ASSUME PointerInv, LockOwnership, [Next]_vars
    PROVE  LockOwnership'
<1>1. /\ Threads' = Threads /\ Lists' = Lists /\ Threads \subseteq Actors
      /\ Main \in Actors /\ Main \notin Threads
  BY StepSets, Arguments DEF PointerInv
<1>2. ASSUME UNCHANGED lock, \A t \in Threads : Holds(t)' = Holds(t)
      PROVE  LockOwnership'
  BY <1>1, <1>2 DEF LockOwnership
<1>3. ASSUME NEW t, th'[t] = th[t] PROVE Holds(t)' = Holds(t)
  BY <1>3, HoldsByPlace
<1>4. ASSUME NEW a \in Actors, LengthCall(a) PROVE LockOwnership'
  <2>1. /\ \A b \in Actors : b # a => th'[b] = th[b]
        /\ th[a].pc \in LengthPlaces /\ th'[a].pc \in LengthPlaces
        /\ UNCHANGED lock
    BY <1>4, CountingStep DEF OnlyLocal, locks
  <2>2. Holds(a)' = Holds(a)
    BY <2>1, HoldsByPlace DEF LockedAt, LengthPlaces, InsertPlaces, DeletePlaces
  <2>3. QED
    BY <1>1, <1>2, <1>3, <2>1, <2>2
<1>5. CASE UNCHANGED <<th, lock>>
  BY <1>2, <1>3, <1>5
<1>6. CASE MainMove
  <2>1. /\ UNCHANGED lock
        /\ \A t \in Threads : th'[t] = th[t] \/ (th[t].pc = "unborn" /\ th'[t].pc = "start")
    BY <1>6, MainMoves
  <2>2. ASSUME NEW t \in Threads, th[t].pc = "unborn", th'[t].pc = "start"
        PROVE  Holds(t)' = Holds(t)
    BY <2>2, HoldsByPlace DEF LockedAt, LengthPlaces, InsertPlaces, DeletePlaces
  <2>3. QED
    BY <1>2, <1>3, <2>1, <2>2
<1>7. QED
  <2>1. CASE \E t \in Threads : Thread(t)
    BY <1>1, <1>4, <1>5, <2>1, ThreadSplit, ThreadExits, OwnershipMoves
  <2>2. CASE MainThread
    BY <1>1, <1>4, <1>6, <2>2 DEF MainThread, MainMove
  <2>3. CASE Ended \/ UNCHANGED vars
    BY <1>5, <2>3 DEF Ended, vars, locks
  <2>4. QED
    BY <2>1, <2>2, <2>3 DEF Next

LEMMA OwnershipInit ==
    ASSUME Init
    PROVE  LockOwnership
<1>1. TypeOK
  BY PointerInit DEF PointerInv
<1>2. \A t \in Threads : th[t].pc = "unborn" /\ t # NoThread
  BY <1>1, Arguments DEF Init, NoThread
<1>3. \A l \in Lists : lock[l] = NoThread
  BY DEF Init
<1>4. QED
  BY <1>2, <1>3 DEF LockOwnership, Holds, LengthPlaces, InsertPlaces, DeletePlaces

\* Each lock is held by the thread that took it and has yet to release it,
\* and by nobody else, however many threads and lists there are.
THEOREM LocksOwned == Spec => []LockOwnership
BY PointerInit, PointerStep, OwnershipInit, OwnershipStep, PTL DEF Spec

-----------------------------------------------------------------------------
(* The ranks.                                                              *)

LEMMA BeforeStays ==
    ASSUME [Next]_vars, NEW r
    PROVE  \A a, b : Before(r, a, b)' <=> Before(r, a, b)
BY StepSets DEF Before

LEMMA RankedPlaced ==
    ASSUME PointerInv, NEW r, Ranked(r), NEW l \in Lists, NEW n \in Placed(l)
    PROVE  n \in Elements => Before(r, n, next[n]) /\ Before(r, prev[n], n)
BY PlacedFacts DEF Ranked, RankedLinks, PointerInv

\* Who moves without a store to a placed element, or without moving at all.
LEMMA RankedAtStays ==
    ASSUME PointerInv, [Next]_vars, NEW r, Ranked(r), NEW t \in Threads,
           th'[t] = th[t] \/ th'[t].pc \notin InsertPlaces \cup DeletePlaces
    PROVE  RankedAt(r, t)'
<1>1. CASE th'[t].pc \notin InsertPlaces \cup DeletePlaces
  BY <1>1 DEF RankedAt, InsertPlaces, DeletePlaces, Deletes
<1>2. CASE th'[t] = th[t]
  <2>1. PICK p, e, c, x, y : /\ p = th[t].pc /\ e = th[t].i /\ c = th[t].cur
                             /\ x = th[t].reg /\ y = th[t].reg2
    OBVIOUS
  <2>2. p = "ins_pred" => next'[e] = next[e] /\ prev'[e] = prev[e]
    <3>1. ASSUME p = "ins_pred" PROVE Fresh(e) /\ e \in Nodes
      BY <2>1, <3>1, ThreadFacts, NodeFacts DEF Fresh, Inserting, InsertPlaces, PointerInv
    <3>2. QED
      BY <3>1, MemoryStep DEF MemoryGrows
  <2>3. PICK q : q = prev[e]
    OBVIOUS
  <2>4. RankedAt(r, t)
    BY DEF Ranked
  <2>5. th'[t].pc = p /\ th'[t].i = e /\ th'[t].cur = c /\ th'[t].reg = x /\ th'[t].reg2 = y
    BY <1>2, <2>1
  <2>6. (c \in Elements)' <=> c \in Elements
    BY StepSets
  <2>7. QED
    BY <2>1, <2>2, <2>3, <2>4, <2>5, <2>6, StepSets, BeforeStays DEF RankedAt, Before
<1>3. QED
  BY <1>1, <1>2

\* What a store puts into a placed element is before or after it as it should be.
LEMMA RankedStores ==
    ASSUME PointerInv, [Next]_vars, NEW r \in [Elements -> Nat], Ranked(r), NEW t \in Threads,
           ThreadMove(t), ~InsertPred(t)
    PROVE  RankedLinks(r)'
<1> USE DEF At
<1>1. /\ next \in [Nodes -> Nodes \cup {Wild}] /\ prev \in [Nodes -> Nodes \cup {Wild}]
      /\ Elements' = Elements /\ Lists' = Lists /\ Wild' = Wild
  BY StepSets DEF PointerInv, TypeOK
<1>2. ASSUME NEW n \in Elements, next'[n] # Wild, ~Fresh(n)'
      PROVE  Before(r, n, next'[n]) /\ Before(r, prev'[n], n)
  <2>1. PICK l \in Lists : n \in NodesOf(l)
    BY NodeFacts DEF PointerInv
  <2>2. n \in Placed(l)'
    BY <1>1, <1>2, <2>1, StepSets, SameNodes DEF Placed
  <2>3. n \in Placed(l)
    <3>1. ASSUME NEW u \in Threads, th[u].pc = "ins_pred", th'[u].pc = "ins_link"
          PROVE  FALSE
      <4>1. u = t
        BY <3>1, ThreadMoves, StepSets, Arguments DEF PointerInv
      <4>2. th[t].pc # "ins_pred"
        BY DEF ThreadMove,
           Start, InsertTurn, InsertLock, InsertFirst, InsertWalk, InsertInit, InsertLink, InsertSucc,
           InsertBack, InsertUnlock, InsertEnd, LockNext, AllLocked, LengthsEnd, LengthsDone,
           UnlockNext, LengthsGood, DeleteTurn, DeleteLock, LookupFirst, LookupHit, LookupWalk,
           DeleteNext, DeleteCheckNext, DeletePrev, DeleteCheckPrev, UnlinkNext, UnlinkPrev,
           UnlinkBack, UnlinkPrev2, UnlinkNext2, UnlinkForward, DeleteUnlock, Return
      <4>3. QED
        BY <3>1, <4>1, <4>2
    <3>2. QED
      BY <2>2, <3>1, MemoryStep DEF MemoryGrows
  <2>4. /\ Before(r, n, next[n]) /\ Before(r, prev[n], n) /\ n \in Nodes
        /\ next[n] # Wild
    BY <1>2, <2>3, RankedPlaced, PlacedFacts DEF PointerInv
  <2>5. RankedAt(r, t)
    BY DEF Ranked
  <2>6. CASE UNCHANGED memory
    BY <2>4, <2>6 DEF memory
  <2>7. CASE InsertInit(t)
    <3>1. n # th[t].i
      <4>1. next[th[t].i] = Wild
        <5>1. /\ th[t].pc = "ins_walk" /\ th[t].i \in Nat /\ my_end(t) \in Int
              /\ th[t].i < my_end(t)
          BY <2>7, Arguments, ThreadFacts DEF InsertInit, PointerInv, PlaceInv, ThreadPlaceInv,
             Inserting, InsertPlaces, ActorType, my_end, my_start
        <5>2. th[t].i \in th[t].i .. my_end(t) - 1
          BY <5>1
        <5>3. QED
          BY <5>1, <5>2 DEF PointerInv, UnsetInv, UnsetAt
      <4>2. QED
        BY <2>4, <4>1
    <3>2. next'[n] = next[n] /\ prev'[n] = prev[n]
      BY <1>1, <2>4, <2>7, <3>1 DEF InsertInit
    <3>3. QED
      BY <2>4, <3>2
  <2>8. CASE InsertLink(t)
    <3>1. Before(r, th[t].reg, th[t].i)
      BY <2>5, <2>8 DEF InsertLink, RankedAt
    <3>2. /\ next'[n] = IF n = th[t].reg THEN th[t].i ELSE next[n]
          /\ prev'[n] = prev[n]
      BY <1>1, <2>4, <2>8 DEF InsertLink
    <3>3. QED
      BY <2>4, <3>1, <3>2
  <2>9. CASE InsertBack(t)
    <3>1. Before(r, th[t].i, th[t].reg)
      BY <2>5, <2>9 DEF InsertBack, RankedAt
    <3>2. /\ prev'[n] = IF n = th[t].reg THEN th[t].i ELSE prev[n]
          /\ next'[n] = next[n]
      BY <1>1, <2>4, <2>9 DEF InsertBack
    <3>3. QED
      BY <2>4, <3>1, <3>2
  <2>10. CASE UnlinkBack(t)
    <3>1. /\ th[t].cur \in Elements
          /\ Before(r, th[t].cur, th[t].reg) /\ Before(r, th[t].reg2, th[t].cur)
      BY <2>5, <2>10 DEF UnlinkBack, RankedAt, Deletes, DeletePlaces
    <3>2. Before(r, th[t].reg2, th[t].reg)
      BY <3>1 DEF Before
    <3>3. /\ prev'[n] = IF n = th[t].reg THEN th[t].reg2 ELSE prev[n]
          /\ next'[n] = next[n]
      BY <1>1, <2>4, <2>10 DEF UnlinkBack
    <3>4. QED
      BY <2>4, <3>2, <3>3
  <2>11. CASE UnlinkForward(t)
    <3>1. /\ th[t].cur \in Elements
          /\ Before(r, th[t].reg, th[t].cur) /\ Before(r, th[t].cur, th[t].reg2)
      BY <2>5, <2>11 DEF UnlinkForward, RankedAt, Deletes, DeletePlaces
    <3>2. Before(r, th[t].reg, th[t].reg2)
      BY <3>1 DEF Before
    <3>3. /\ next'[n] = IF n = th[t].reg THEN th[t].reg2 ELSE next[n]
          /\ prev'[n] = prev[n]
      BY <1>1, <2>4, <2>11 DEF UnlinkForward
    <3>4. QED
      BY <2>4, <3>2, <3>3
  <2>12. QED
    BY <2>6, <2>7, <2>8, <2>9, <2>10, <2>11 DEF ThreadMove, OnlyLocal, Fetch, Fetch2, Advance,
       Start, InsertTurn, InsertLock, InsertFirst, InsertWalk, InsertSucc, InsertUnlock,
       InsertEnd, LockNext, AllLocked, LengthsEnd, UnlockNext, LengthsGood, DeleteTurn,
       DeleteLock, LookupFirst, LookupHit, LookupWalk, DeleteNext, DeleteCheckNext, DeletePrev,
       DeleteCheckPrev, UnlinkNext, UnlinkPrev, UnlinkPrev2, UnlinkNext2, DeleteUnlock, Return
<1>3. QED
  BY <1>1, <1>2, StepSets DEF RankedLinks, Before

\* What a thread loads is before or after its element as it should be.
LEMMA RankedLoads ==
    ASSUME PointerInv, [Next]_vars, NEW r \in [Elements -> Nat], Ranked(r), NEW t \in Threads,
           ThreadMove(t), ~InsertPred(t)
    PROVE  RankedAt(r, t)'
<1> USE DEF At, GoTo, GoToNext, GoToFrom, Fetch, Fetch2, Advance, ActorType, InsertPlaces,
            DeletePlaces, Deletes
<1>0. PICK k, c, x, l : /\ k = th[t].i /\ c = th[t].cur /\ x = th[t].reg
                        /\ l = SubList(k)
  OBVIOUS
<1>1. /\ th \in [Actors -> ActorType] /\ t \in Actors
      /\ th[t].pc \in UsesCur => c \in Placed(l) /\ l \in Lists /\ k \in Elements
      /\ th[t].pc \in Published => k \in Placed(l)
      /\ Elements' = Elements
  BY <1>0, ThreadFacts, Arguments, StepSets DEF PointerInv, TypeOK, Inserting, Deleting, UsesCur
<1>2. /\ \A n \in Placed(l) : l \in Lists /\ n \in Elements =>
            Before(r, n, next[n]) /\ Before(r, prev[n], n)
      /\ \A a, b : Before(r, a, b)' <=> Before(r, a, b)
  BY RankedPlaced, BeforeStays
<1>3. RankedAt(r, t)
  BY DEF Ranked
<1>4. CASE InsertInit(t)
  <2>1. /\ th[t].pc = "ins_walk" /\ th'[t].pc = "ins_pred" /\ th'[t].i = k /\ th'[t].cur = c
        /\ next' = [next EXCEPT ![k] = c] /\ prev' = [prev EXCEPT ![k] = prev[c]]
    BY <1>0, <1>1, <1>4 DEF InsertInit
  <2>2. k \in Nodes /\ c \in Placed(l) /\ l \in Lists
    BY <1>1, <2>1, NodeFacts DEF UsesCur, PointerInv
  <2>3. next'[k] = c /\ prev'[k] = prev[c]
    BY <2>1, <2>2 DEF PointerInv, TypeOK
  <2>4. PICK q : q = prev[c]
    OBVIOUS
  <2>5. Before(r, q, c)
    BY <1>2, <2>2, <2>4 DEF Before
  <2>6. QED
    BY <1>2, <2>1, <2>3, <2>4, <2>5 DEF RankedAt
<1>5. CASE InsertLink(t)
  <2>1. th'[t].pc = "ins_succ"
    BY <1>1, <1>5 DEF InsertLink
  <2>2. QED
    BY <2>1 DEF RankedAt
<1>6. CASE InsertFirst(t) \/ InsertWalk(t) \/ LookupFirst(t) \/ LookupWalk(t)
  <2>1. th'[t].pc \in {"ins_walk", "look_walk"}
    BY <1>1, <1>6 DEF InsertFirst, InsertWalk, LookupFirst, LookupWalk
  <2>2. QED
    BY <2>1 DEF RankedAt
<1>7. CASE InsertSucc(t)
  <2>1. PICK q : q = next[k]
    OBVIOUS
  <2>2. th[t].pc = "ins_succ" /\ th'[t].pc = "ins_back" /\ th'[t].i = k /\ th'[t].reg = q
    BY <1>0, <1>1, <1>7, <2>1 DEF InsertSucc
  <2>3. Before(r, k, q)
    BY <1>1, <1>2, <2>1, <2>2 DEF Published, UsesCur
  <2>4. QED
    BY <1>2, <2>2, <2>3 DEF RankedAt
<1>8. CASE LookupHit(t)
  <2>1. /\ th[t].pc = "look_walk" /\ th'[t].pc = "del_next" /\ th'[t].cur = c /\ ~IsHead(c)
    BY <1>0, <1>1, <1>8 DEF LookupHit, SameKey
  <2>2. c \in Elements
    BY <1>1, <2>1, PlacedFacts, NodeFacts DEF UsesCur, PointerInv
  <2>3. QED
    BY <1>1, <2>1, <2>2 DEF RankedAt
<1>9. CASE DeleteNext(t) \/ DeleteCheckNext(t) \/ DeletePrev(t) \/ DeleteCheckPrev(t) \/ UnlinkBack(t)
  <2>1. /\ th[t].pc \in Deletes
        /\ th'[t].pc \in {"del_c1", "del_prev", "del_c2", "un_next", "un_prev2"}
        /\ th'[t].cur = c
    BY <1>0, <1>1, <1>9 DEF DeleteNext, DeleteCheckNext, DeletePrev, DeleteCheckPrev, UnlinkBack
  <2>2. c \in Elements
    BY <1>0, <1>3, <2>1 DEF RankedAt
  <2>3. QED
    BY <1>1, <2>1, <2>2 DEF RankedAt
<1>10. CASE UnlinkNext(t)
  <2>1. PICK q : q = next[c]
    OBVIOUS
  <2>2. /\ th[t].pc = "un_next" /\ th'[t].pc = "un_prev"
        /\ th'[t].cur = c /\ th'[t].reg = q
    BY <1>0, <1>1, <1>10, <2>1 DEF UnlinkNext
  <2>3. c \in Elements /\ Before(r, c, q)
    BY <1>0, <1>1, <1>2, <1>3, <2>1, <2>2 DEF RankedAt, UsesCur
  <2>4. QED
    BY <1>1, <1>2, <2>2, <2>3 DEF RankedAt
<1>11. CASE UnlinkPrev(t)
  <2>1. PICK q : q = prev[c]
    OBVIOUS
  <2>2. /\ th[t].pc = "un_prev" /\ th'[t].pc = "un_store"
        /\ th'[t].cur = c /\ th'[t].reg = x /\ th'[t].reg2 = q
    BY <1>0, <1>1, <1>11, <2>1 DEF UnlinkPrev
  <2>3. c \in Elements /\ Before(r, q, c) /\ Before(r, c, x)
    BY <1>0, <1>1, <1>2, <1>3, <2>1, <2>2 DEF RankedAt, UsesCur
  <2>4. QED
    BY <1>1, <1>2, <2>2, <2>3 DEF RankedAt
<1>12. CASE UnlinkPrev2(t)
  <2>1. PICK q : q = prev[c]
    OBVIOUS
  <2>2. /\ th[t].pc = "un_prev2" /\ th'[t].pc = "un_next2"
        /\ th'[t].cur = c /\ th'[t].reg = q
    BY <1>0, <1>1, <1>12, <2>1 DEF UnlinkPrev2
  <2>3. c \in Elements /\ Before(r, q, c)
    BY <1>0, <1>1, <1>2, <1>3, <2>1, <2>2 DEF RankedAt, UsesCur
  <2>4. QED
    BY <1>1, <1>2, <2>2, <2>3 DEF RankedAt
<1>13. CASE UnlinkNext2(t)
  <2>1. PICK q : q = next[c]
    OBVIOUS
  <2>2. /\ th[t].pc = "un_next2" /\ th'[t].pc = "un_store2"
        /\ th'[t].cur = c /\ th'[t].reg = x /\ th'[t].reg2 = q
    BY <1>0, <1>1, <1>13, <2>1 DEF UnlinkNext2
  <2>3. c \in Elements /\ Before(r, c, q) /\ Before(r, x, c)
    BY <1>0, <1>1, <1>2, <1>3, <2>1, <2>2 DEF RankedAt, UsesCur
  <2>4. QED
    BY <1>1, <1>2, <2>2, <2>3 DEF RankedAt
<1>14. CASE \/ Start(t) \/ InsertTurn(t) \/ InsertLock(t) \/ InsertBack(t) \/ InsertUnlock(t)
            \/ InsertEnd(t) \/ LockNext(t) \/ AllLocked(t) \/ LengthsEnd(t) \/ UnlockNext(t)
            \/ LengthsGood(t) \/ DeleteTurn(t) \/ DeleteLock(t) \/ UnlinkForward(t)
            \/ DeleteUnlock(t) \/ Return(t)
  <2>1. th'[t].pc \notin {"ins_pred", "ins_link", "ins_back"} \cup Deletes
    BY <1>1, <1>14 DEF Start, InsertTurn, InsertLock, InsertBack, InsertUnlock, InsertEnd, LockNext,
       AllLocked, LengthsEnd, LengthsDone, UnlockNext, LengthsGood, DeleteTurn, DeleteLock,
       UnlinkForward, DeleteUnlock, Return
  <2>2. QED
    BY <2>1 DEF RankedAt
<1>15. QED
  BY <1>4, <1>5, <1>6, <1>7, <1>8, <1>9, <1>10, <1>11, <1>12, <1>13, <1>14 DEF ThreadMove

\* Placing an element: it gets a rank just above the element it was put
\* before, and what was there or above moves up by one.
Shifted(r, e, c) ==
    LET b == IF c \in Elements THEN r[c] + 1 ELSE 0
    IN  [n \in Elements |-> IF n = e THEN b ELSE IF r[n] >= b THEN r[n] + 1 ELSE r[n]]

LEMMA ShiftedRanks ==
    ASSUME NEW r \in [Elements -> Nat], NEW e \in Elements, NEW c, c # e
    PROVE  /\ Shifted(r, e, c) \in [Elements -> Nat]
           /\ Before(Shifted(r, e, c), e, c)
           /\ \A a : a # e /\ Before(r, a, c) => Before(Shifted(r, e, c), a, c)
           /\ \A a : a # e /\ Before(r, a, c) => Before(Shifted(r, e, c), a, e)
           /\ \A a, b : a # e /\ b # e /\ Before(r, a, b) => Before(Shifted(r, e, c), a, b)
<1>1. PICK b \in Nat : b = IF c \in Elements THEN r[c] + 1 ELSE 0
  OBVIOUS
<1>2. Shifted(r, e, c) = [n \in Elements |-> IF n = e THEN b ELSE IF r[n] >= b THEN r[n] + 1 ELSE r[n]]
  BY <1>1 DEF Shifted
<1>3. PICK s \in [Elements -> Nat] : s = Shifted(r, e, c)
  BY <1>2
<1>4. \A n \in Elements : s[n] = IF n = e THEN b ELSE IF r[n] >= b THEN r[n] + 1 ELSE r[n]
  BY <1>2, <1>3
<1>5. Before(s, e, c)
  BY <1>1, <1>4 DEF Before
<1>6. ASSUME NEW a, a # e, Before(r, a, c) PROVE Before(s, a, e)
  BY <1>1, <1>4, <1>6 DEF Before
<1>7. ASSUME NEW a, NEW d, a # e, d # e, Before(r, a, d) PROVE Before(s, a, d)
  BY <1>1, <1>4, <1>7 DEF Before
<1>8. QED
  BY <1>3, <1>5, <1>6, <1>7

LEMMA RankedPlacing ==
    ASSUME PointerInv, [Next]_vars, NEW r \in [Elements -> Nat], Ranked(r), NEW t \in Threads,
           InsertPred(t)
    PROVE  RankInv'
<1> USE DEF At, Fetch, ActorType
<1>0. PICK e, c, l : e = th[t].i /\ c = th[t].cur /\ l = SubList(e)
  OBVIOUS
<1>1. /\ th \in [Actors -> ActorType] /\ t \in Actors /\ Threads \subseteq Actors
      /\ Elements' = Elements /\ Threads' = Threads /\ Wild' = Wild
  BY Arguments, StepSets DEF PointerInv, TypeOK
<1>2. /\ th[t].pc = "ins_pred" /\ th'[t].pc = "ins_link"
      /\ th'[t].i = e /\ th'[t].cur = c /\ th'[t].reg = prev[c]
      /\ \A u \in Threads : u # t => th'[u] = th[u]
      /\ UNCHANGED <<next, prev>>
  BY <1>0, <1>1 DEF InsertPred, OnlyLocal, memory
<1>3. Fresh(e) /\ \A m \in Lists : e \notin Placed(m)
  BY <1>0, <1>2 DEF Fresh, Placed
<1>4. /\ e \in Elements /\ e \in NodesOf(l) /\ l \in Lists /\ next[e] # Wild
      /\ c \in Placed(l) /\ prev[c] \in Placed(l)
      /\ next[e] = c /\ Before(r, prev[e], c) /\ prev[e] \in Placed(l)
  <2>1. /\ e \in Elements /\ l \in Lists /\ c \in Placed(l) /\ prev[c] \in Placed(l)
        /\ next[e] # Wild
    BY <1>0, <1>2, ThreadFacts
       DEF Inserting, InsertPlaces, UsesCur, PointerInv, UnsetInv, UnsetAt
  <2>2. e \in NodesOf(l)
    BY <1>0, <2>1, NodeFacts DEF PointerInv
  <2>3. prev[e] \in Placed(l)
    BY <2>1, <2>2 DEF PointerInv, LinkInv
  <2>4. next[e] = c /\ Before(r, prev[e], c)
    BY <1>0, <1>2 DEF Ranked, RankedAt
  <2>5. QED
    BY <2>1, <2>2, <2>3, <2>4
<1>5. Before(r, prev[c], c)
  BY <1>4, RankedPlaced DEF Before
<1>6. PICK s \in [Elements -> Nat] :
         /\ Before(s, e, c)
         /\ \A a : a # e /\ Before(r, a, c) => Before(s, a, c)
         /\ \A a : a # e /\ Before(r, a, c) => Before(s, a, e)
         /\ \A a, b : a # e /\ b # e /\ Before(r, a, b) => Before(s, a, b)
  BY <1>3, <1>4, ShiftedRanks
<1>7. RankedLinks(s)'
  <2>1. ASSUME NEW n \in Elements, next[n] # Wild, ~Fresh(n)'
        PROVE  Before(s, n, next[n]) /\ Before(s, prev[n], n)
    <3>1. CASE n = e
      BY <1>3, <1>4, <1>6, <3>1
    <3>2. CASE n # e
      <4>1. PICK m \in Lists : n \in NodesOf(m)
        BY NodeFacts DEF PointerInv
      <4>2. ~Fresh(n)
        <5>1. ASSUME NEW u \in Threads, th[u].pc = "ins_pred", th[u].i = n
              PROVE  FALSE
          BY <1>0, <1>1, <1>2, <2>1, <3>2, <5>1 DEF Fresh
        <5>2. QED
          BY <5>1 DEF Fresh
      <4>3. n \in Placed(m)
        BY <2>1, <4>1, <4>2 DEF Placed
      <4>4. /\ next[n] \in Placed(m) /\ prev[n] \in Placed(m)
            /\ Before(r, n, next[n]) /\ Before(r, prev[n], n)
        BY <4>3, PlacedFacts, RankedPlaced DEF PointerInv
      <4>5. QED
        BY <1>3, <1>6, <3>2, <4>4
    <3>3. QED
      BY <3>1, <3>2
  <2>2. QED
    BY <1>1, <1>2, <2>1 DEF RankedLinks, Before
<1>8. RankedAt(s, t)'
  <2>1. PICK q : q = prev[c]
    OBVIOUS
  <2>2. Before(s, q, e)
    BY <1>3, <1>4, <1>5, <1>6, <2>1
  <2>3. QED
    BY <1>2, <2>1, <2>2, BeforeStays DEF RankedAt, Deletes, DeletePlaces
<1>9. ASSUME NEW u \in Threads, u # t PROVE RankedAt(s, u)'
  <2>1. PICK p, eu, cu, x, y, q, m : /\ p = th[u].pc /\ eu = th[u].i /\ cu = th[u].cur
                                     /\ x = th[u].reg /\ y = th[u].reg2 /\ q = prev[eu]
                                     /\ m = SubList(eu)
    OBVIOUS
  <2>2. th'[u].pc = p /\ th'[u].i = eu /\ th'[u].cur = cu /\ th'[u].reg = x /\ th'[u].reg2 = y
        /\ prev'[eu] = q /\ next'[eu] = next[eu]
    BY <1>2, <1>9, <2>1
  <2>3. RankedAt(r, u)
    BY DEF Ranked
  <2>4. /\ p \in UsesCur \cup UsesReg \cup UsesReg2 \cup Published => m \in Lists
        /\ p \in UsesCur => cu \in Placed(m)
        /\ p \in UsesReg => x \in Placed(m)
        /\ p \in UsesReg2 => y \in Placed(m)
        /\ p \in Published => eu \in Placed(m)
    BY <2>1, ThreadFacts DEF Inserting, Deleting, InsertPlaces, DeletePlaces, UsesCur, UsesReg,
       UsesReg2, Published
  <2>5. p = "ins_pred" => q \in Placed(m)
    <3>1. p = "ins_pred" => next[eu] # Wild /\ eu \in NodesOf(m) /\ m \in Lists
      BY <2>1, ThreadFacts, NodeFacts
         DEF PointerInv, UnsetInv, UnsetAt, Inserting, InsertPlaces
    <3>2. QED
      BY <2>1, <3>1 DEF PointerInv, LinkInv
  <2>6. /\ p \in UsesCur => cu # e
        /\ p \in UsesReg => x # e
        /\ p \in UsesReg2 => y # e
        /\ p \in Published => eu # e
        /\ p = "ins_pred" => q # e
    BY <1>3, <2>4, <2>5 DEF UsesCur, UsesReg, UsesReg2, Published, InsertPlaces, DeletePlaces
  <2>7. /\ p = "ins_pred" => next[eu] = cu /\ Before(s, q, cu)
        /\ p = "ins_link" => Before(s, x, eu)
        /\ p = "ins_back" => Before(s, eu, x)
        /\ p \in Deletes => cu \in Elements
        /\ p \in {"un_prev", "un_store"} => Before(s, cu, x)
        /\ p = "un_store" => Before(s, y, cu)
        /\ p \in {"un_next2", "un_store2"} => Before(s, x, cu)
        /\ p = "un_store2" => Before(s, cu, y)
    BY <1>6, <2>1, <2>3, <2>6 DEF RankedAt, UsesCur, UsesReg, UsesReg2, Published, InsertPlaces,
       DeletePlaces
  <2>8. QED
    BY <1>1, <2>2, <2>7, BeforeStays DEF RankedAt
<1>10. QED
  BY <1>1, <1>7, <1>8, <1>9 DEF RankInv, Ranked

LEMMA RankStep ==
    ASSUME PointerInv, RankInv, [Next]_vars
    PROVE  RankInv'
<1>1. PICK r \in [Elements -> Nat] : Ranked(r)
  BY DEF RankInv
<1>2. /\ Threads' = Threads /\ Elements' = Elements /\ Wild' = Wild
      /\ Threads \subseteq Actors /\ Main \in Actors /\ Main \notin Threads
  BY StepSets, Arguments DEF PointerInv
<1>3. ASSUME Ranked(r)' PROVE RankInv'
  BY <1>2, <1>3 DEF RankInv
<1>4. ASSUME NEW t \in Threads, ThreadMove(t) PROVE RankInv'
  <2>1. CASE InsertPred(t)
    BY <1>1, <2>1, RankedPlacing
  <2>2. CASE ~InsertPred(t)
    <3>1. \A u \in Threads : u # t => th'[u] = th[u]
      BY <1>2, <1>4, ThreadMoves, StepSets
    <3>2. RankedLinks(r)' /\ RankedAt(r, t)'
      BY <1>1, <1>4, <2>2, RankedStores, RankedLoads
    <3>3. \A u \in Threads : RankedAt(r, u)'
      BY <1>1, <3>1, <3>2, RankedAtStays
    <3>4. QED
      BY <1>2, <1>3, <3>2, <3>3 DEF Ranked
  <2>3. QED
    BY <2>1, <2>2
\* The steps that leave the memory and the fresh elements alone.
<1>5. ASSUME UNCHANGED <<next, prev>>, \A n : Fresh(n)' = Fresh(n),
             \A t \in Threads : th'[t] = th[t] \/ th'[t].pc \notin InsertPlaces \cup DeletePlaces
      PROVE  RankInv'
  <2>1. RankedLinks(r)'
    BY <1>1, <1>2, <1>5 DEF Ranked, RankedLinks, Before
  <2>2. \A t \in Threads : RankedAt(r, t)'
    BY <1>1, <1>5, RankedAtStays
  <2>3. QED
    BY <1>2, <1>3, <2>1, <2>2 DEF Ranked
<1>6. ASSUME NEW a \in Actors, LengthCall(a) PROVE RankInv'
  <2>1. /\ \A b \in Actors : b # a => th'[b] = th[b]
        /\ th[a].pc \in LengthPlaces /\ th'[a].pc \in LengthPlaces
        /\ UNCHANGED <<next, prev>>
    BY <1>6, CountingStep DEF OnlyLocal, memory
  <2>2. \A n : Fresh(n)' = Fresh(n)
    BY <1>2, <2>1, SameFresh DEF PointerInv, TypeOK, ActorType, LengthPlaces
  <2>3. QED
    BY <1>2, <1>5, <2>1, <2>2 DEF LengthPlaces, InsertPlaces, DeletePlaces
<1>7. CASE UNCHANGED <<next, prev, th>>
  BY <1>2, <1>5, <1>7 DEF Fresh
<1>8. CASE MainMove
  <2>1. /\ UNCHANGED <<next, prev>>
        /\ \A t \in Threads : th'[t] = th[t] \/ (th[t].pc = "unborn" /\ th'[t].pc = "start")
    BY <1>8, MainMoves
  <2>2. ASSUME NEW n PROVE Fresh(n)' <=> Fresh(n)
    BY <1>2, <2>1 DEF Fresh
  <2>3. QED
    BY <1>5, <2>1, <2>2 DEF Fresh, InsertPlaces, DeletePlaces
<1>9. QED
  <2>1. CASE \E t \in Threads : Thread(t)
    BY <1>2, <1>4, <1>6, <1>7, <2>1, ThreadSplit, ThreadExits
  <2>2. CASE MainThread
    BY <1>2, <1>6, <1>8, <2>2 DEF MainThread, MainMove
  <2>3. CASE Ended \/ UNCHANGED vars
    BY <1>7, <2>3 DEF Ended, vars, memory
  <2>4. QED
    BY <2>1, <2>2, <2>3 DEF Next

LEMMA SmallestNumber ==
    ASSUME NEW T \in SUBSET Nat, T # {}
    PROVE  \E x \in T : \A y \in T : x <= y
<1> DEFINE R == {p \in Nat \X Nat : p[1] < p[2]}
<1>1. IsWellFoundedOn(R, Nat)
  BY NatLessThanWellFounded DEF OpToRel
<1> HIDE DEF R
<1>2. PICK x \in T : \A y \in T : ~(<<y, x>> \in R)
  BY <1>1, WFMin
<1>3. ASSUME NEW y \in T PROVE x <= y
  <2>1. x \in Nat /\ y \in Nat
    OBVIOUS
  <2>2. ~(y < x)
    BY <1>2, <2>1 DEF R
  <2>3. QED
    BY <2>1, <2>2
<1>4. QED
  BY <1>3

LEMMA RankInit ==
    ASSUME Init
    PROVE  RankInv
<1>1. TypeOK
  BY PointerInit DEF PointerInv
<1>2. \A e \in Elements : next[e] = Wild
  BY <1>1, NodeFacts DEF Init
<1>3. \A t \in Threads : th[t].pc = "unborn"
  BY <1>1, Arguments DEF Init
<1>4. Ranked([e \in Elements |-> 0])
  BY <1>2, <1>3 DEF Ranked, RankedLinks, RankedAt, Deletes, DeletePlaces
<1>5. QED
  BY <1>4 DEF RankInv

\* In every mode, locks or not, next never leads around a circle of elements:
\* whoever walks a list comes to its head, whatever the others do.
THEOREM WalksEnd == Spec => []LinksAcyclic
<1>1. ASSUME PointerInv, RankInv PROVE LinksAcyclic
  <2>1. SUFFICES ASSUME NEW S \in SUBSET Elements, S # {}, \A n \in S : next[n] \in S
                 PROVE  FALSE
    BY DEF LinksAcyclic
  <2>2. PICK r \in [Elements -> Nat] : Ranked(r)
    BY <1>1 DEF RankInv
  <2>3. ASSUME NEW n \in S
        PROVE  /\ next[n] # Wild /\ ~Fresh(next[n])
               /\ ~Fresh(n) => r[next[n]] < r[n]
    <3>1. next[n] \in S /\ next[n] \in Elements /\ n \in Elements
      BY <2>1
    <3>2. next[n] # Wild
      BY <1>1, <3>1, NodeFacts DEF PointerInv
    <3>3. PICK l \in Lists : n \in NodesOf(l)
      BY <1>1, <3>1, NodeFacts DEF PointerInv
    <3>4. next[n] \in Placed(l)
      BY <1>1, <3>2, <3>3 DEF PointerInv, LinkInv
    <3>5. QED
      BY <2>2, <3>1, <3>2, <3>4 DEF Placed, Ranked, RankedLinks, Before
  <2>4. PICK n \in S : ~Fresh(n)
    BY <2>1, <2>3
  <2> DEFINE T == {r[m] : m \in {m \in S : ~Fresh(m)}}
  <2>5. PICK x \in T : \A y \in T : x <= y
    <3>1. T \in SUBSET Nat
      BY <2>1, <2>2
    <3>2. T # {}
      BY <2>4
    <3> HIDE DEF T
    <3>3. QED
      BY <3>1, <3>2, SmallestNumber
  <2>6. PICK m \in S : ~Fresh(m) /\ r[m] = x
    BY <2>5
  <2>7. r[next[m]] < r[m] /\ x <= r[next[m]]
    BY <2>1, <2>3, <2>5, <2>6
  <2>8. r[m] \in Nat /\ r[next[m]] \in Nat
    BY <2>1, <2>2, <2>6
  <2>9. QED
    BY <2>6, <2>7, <2>8
<1>2. QED
  BY <1>1, PointerInit, PointerStep, RankInit, RankStep, PTL DEF Spec


-----------------------------------------------------------------------------
(* What the locks are for. *)

\* The nodes in c are linked to each other, prev being the inverse of next, but
\* for those in h, which their successor does not lead back to.
Linked(nx, pv, c, h) ==
    \A n \in c :
        /\ nx[n] \in c /\ pv[n] \in c
        /\ pv[nx[n]] = IF n \in h THEN pv[n] ELSE n
        /\ nx[pv[n]] = n \/ (nx[pv[n]] \in h /\ nx[nx[pv[n]]] = n)

InOrder(a, b) == IsHead(a) \/ IsHead(b) \/ key[a] <= key[b]
Sorted(nx, c) == \A n \in c : InOrder(n, nx[n])

-----------------------------------------------------------------------------
(* What the four stores of an insertion and of a deletion do to the links. *)

\* InsertLink: x gets into the list before y.
LEMMA LinkIn ==
    ASSUME NEW nx, NEW pv, NEW mx, NEW c, NEW x, NEW y, Linked(nx, pv, c, {}),
           y \in c, x \notin c, nx[x] = y, pv[x] = pv[y],
           \A n \in c \cup {x} : mx[n] = IF n = pv[y] THEN x ELSE nx[n]
    PROVE  Linked(mx, pv, c \cup {x}, {x})
<1>1. pv[y] \in c /\ nx[pv[y]] = y /\ pv[y] # x
  BY DEF Linked
<1>2. mx[x] = y /\ mx[pv[y]] = x
  BY <1>1
<1>3. ASSUME NEW n \in c, n # pv[y] PROVE mx[n] = nx[n] /\ nx[n] \in c /\ pv[nx[n]] = n
  BY <1>3 DEF Linked
<1>4. ASSUME NEW n \in c PROVE pv[n] \in c /\ (mx[pv[n]] = n \/ (mx[pv[n]] = x /\ y = n))
  BY <1>1, <1>4 DEF Linked
<1>5. QED
  BY <1>1, <1>2, <1>3, <1>4 DEF Linked

\* InsertBack: the successor of x is linked back to it.
LEMMA LinkBack ==
    ASSUME NEW nx, NEW pv, NEW qv, NEW c, NEW x \in c, Linked(nx, pv, c, {x}), nx[x] # x,
           \A n \in c : qv[n] = IF n = nx[x] THEN x ELSE pv[n]
    PROVE  Linked(nx, qv, c, {})
<1>1. /\ nx[x] \in c /\ pv[nx[x]] = pv[x] /\ pv[x] \in c
      /\ nx[pv[x]] = x
  BY DEF Linked
<1>2. ASSUME NEW n \in c PROVE qv[nx[n]] = n
  <2>1. CASE n = x
    BY <1>1, <2>1
  <2>2. CASE n # x
    <3>1. nx[n] \in c /\ pv[nx[n]] = n
      BY <2>2 DEF Linked
    <3>2. nx[n] # nx[x]
      BY <1>1, <3>1
    <3>3. QED
      BY <3>1, <3>2
  <2>3. QED
    BY <2>1, <2>2
<1>3. ASSUME NEW n \in c PROVE qv[n] \in c /\ nx[qv[n]] = n
  BY <1>3 DEF Linked
<1>4. QED
  BY <1>2, <1>3 DEF Linked

\* UnlinkBack: the successor of x is linked back to the predecessor.
LEMMA UnlinkBackwards ==
    ASSUME NEW nx, NEW pv, NEW qv, NEW c, NEW x \in c, Linked(nx, pv, c, {}), nx[x] # x,
           \A n \in c : qv[n] = IF n = nx[x] THEN pv[x] ELSE pv[n]
    PROVE  Linked(nx, qv, c, {x})
<1>1. nx[x] \in c /\ pv[x] \in c /\ qv[x] = pv[x] /\ nx[pv[x]] = x
  BY DEF Linked
<1>2. ASSUME NEW n \in c PROVE nx[n] \in c /\ qv[nx[n]] = IF n = x THEN qv[x] ELSE n
  <2>1. nx[n] \in c /\ pv[nx[n]] = n /\ (nx[n] = nx[x] => n = x)
    BY DEF Linked
  <2>2. QED
    BY <1>1, <2>1
<1>3. ASSUME NEW n \in c PROVE qv[n] \in c /\ (nx[qv[n]] = n \/ (nx[qv[n]] = x /\ nx[x] = n))
  BY <1>1 DEF Linked
<1>4. QED
  BY <1>2, <1>3 DEF Linked

\* UnlinkForward: the predecessor of x is linked past it, and x is out.
LEMMA UnlinkForwards ==
    ASSUME NEW nx, NEW pv, NEW mx, NEW c, NEW x \in c, Linked(nx, pv, c, {x}),
           nx[x] # x, pv[x] # x,
           \A n \in c : mx[n] = IF n = pv[x] THEN nx[x] ELSE nx[n]
    PROVE  Linked(mx, pv, c \ {x}, {})
<1>1. /\ nx[x] \in c /\ pv[x] \in c /\ pv[nx[x]] = pv[x]
      /\ nx[pv[x]] = x /\ mx[pv[x]] = nx[x]
  BY DEF Linked
<1>2. ASSUME NEW n \in c \ {x} PROVE mx[n] \in c \ {x} /\ pv[mx[n]] = n
  <2>1. CASE n = pv[x]
    BY <1>1, <2>1
  <2>2. CASE n # pv[x]
    <3>1. mx[n] = nx[n] /\ nx[n] \in c /\ pv[nx[n]] = n
      BY <2>2 DEF Linked
    <3>2. nx[n] # x
      BY <2>2, <3>1
    <3>3. QED
      BY <3>1, <3>2
  <2>3. QED
    BY <2>1, <2>2
<1>3. ASSUME NEW n \in c \ {x} PROVE pv[n] \in c \ {x} /\ mx[pv[n]] = n
  <2>1. pv[n] \in c /\ (nx[pv[n]] = n \/ (nx[pv[n]] = x /\ nx[x] = n))
    BY DEF Linked
  <2>2. CASE n = nx[x]
    BY <1>1, <2>2
  <2>3. CASE n # nx[x]
    <3>1. pv[n] # x /\ nx[pv[n]] = n
      BY <1>1, <2>1, <2>3
    <3>2. pv[n] # pv[x]
      BY <1>1, <3>1
    <3>3. QED
      BY <2>1, <3>1, <3>2
  <2>4. QED
    BY <2>2, <2>3
<1>4. QED
  BY <1>2, <1>3 DEF Linked

-----------------------------------------------------------------------------
(* The invariant.  C is the nodes of each list: what the operations between *)
(* the stores of one thread leave it, as nobody else works on that list.   *)

Within == InsertPlaces \cup DeletePlaces
HalfIn == {"ins_succ", "ins_back"}
HalfOut == {"un_prev2", "un_next2", "un_store2"}

\* Thread t has linked n from its predecessor, or unlinked it from its
\* successor, and not yet the other way.
HalfAt(t, n) ==
    \/ th[t].pc \in HalfIn /\ th[t].i = n
    \/ th[t].pc \in HalfOut /\ th[t].cur = n
Half(n) == \E t \in Threads : HalfAt(t, n)

SoundAt(c, l) ==
    /\ c \subseteq NodesOf(l)
    /\ HeadOf(l) \in c
    /\ Linked(next, prev, c, {n \in c : Half(n)})
    /\ Sorted(next, c)

Below(n, e) == IsHead(n) \/ key[n] < key[e]

\* Who walks from n to the list head comes by an element with the key of e.
Ahead(nx, c, n, e) ==
    \A S \in SUBSET c :
        (n \in S /\ \A m \in S : IsHead(m) \/ nx[m] \in S)
            => \E x \in S \cap Elements : key[x] = key[e]

\* What a thread with record r knows of the list it has locked.
HandOf(r, nx, pv, c) ==
    LET p == r.pc  e == r.i  n == r.cur
    IN  /\ p \in {"ins_walk", "ins_pred", "ins_link"} =>
              n \in c /\ e \notin c /\ Below(pv[n], e)
        /\ p \in {"ins_pred", "ins_link"} =>
              ~ComesAfter(e, n) /\ nx[e] = n /\ pv[e] = pv[n]
        /\ p = "ins_link" => r.reg = pv[n]
        /\ p \in HalfIn => e \in c
        /\ p = "ins_back" => r.reg = nx[e]
        /\ p = "look_walk" => n \in c /\ Ahead(nx, c, n, e)
        /\ p \in Deletes => n \in c /\ n \in Elements /\ key[n] = key[e]
        /\ p \in {"del_c1", "un_prev", "un_store"} => r.reg = nx[n]
        /\ p \in {"del_c2", "un_next2", "un_store2"} => r.reg = pv[n]
        /\ p = "un_store" => r.reg2 = pv[n]
        /\ p = "un_store2" => r.reg2 = nx[n]

\* What an actor that counts list l knows, and that no length was negative.
CountOf(r, nx, pv, C) ==
    /\ r.len >= 0
    /\ r.pc \in LengthPlaces \ {"len_list"} => r.cur \in C[r.i]
    /\ r.pc = "len_next" => r.reg = nx[r.cur]
    /\ r.pc = "len_back" => r.reg = pv[r.cur]

\* Of each key there are as many elements in the lists as threads have
\* inserted and not removed, although not the same.
Pending(e) == InsertDone(e) /\ ~RemoveDone(e)
PendingOf(k) == {e \in Elements : key[e] = k /\ Pending(e)}
PresentOf(C, k) == {e \in Elements : key[e] = k /\ e \in C[SubList(e)]}
Matched(C) == \A k \in Keys : Cardinality(PendingOf(k)) = Cardinality(PresentOf(C, k))

ListsInv(C) == \A l \in Lists : SoundAt(C[l], l)
HandsInv(C) ==
    \A t \in Threads :
        th[t].pc \in Within => HandOf(th[t], next, prev, C[SubList(th[t].i)])
CountsInv(C) == \A a \in Actors : CountOf(th[a], next, prev, C)
SyncAt(C) ==
    /\ C \in [Lists -> SUBSET Nodes]
    /\ ListsInv(C)
    /\ HandsInv(C)
    /\ CountsInv(C)
    /\ Matched(C)

-----------------------------------------------------------------------------
(* Nobody else works on a list that is locked.                             *)

LEMMA WithinFacts ==
    ASSUME PointerInv, LockOwnership, Locked, NEW t \in Threads
    PROVE  /\ th[t].pc \in Within =>
                 /\ th[t].i \in Elements /\ SubList(th[t].i) \in Lists
                 /\ lock[SubList(th[t].i)] = t
           /\ th[t].pc \in LengthPlaces => \A l \in Lists : lock[l] = t
<1>1. ASSUME th[t].pc \in Within
      PROVE  th[t].i \in Elements /\ SubList(th[t].i) \in Lists
  BY <1>1, ThreadFacts DEF Within, Inserting, Deleting
<1>2. ASSUME th[t].pc \in Within PROVE SubList(th[t].i) \in Holds(t)
  BY <1>2 DEF Holds, Within
<1>3. ASSUME th[t].pc \in LengthPlaces PROVE Lists \subseteq Holds(t)
  BY <1>3 DEF Holds, LengthPlaces, InsertPlaces, DeletePlaces
<1>4. Holds(t) = {l \in Lists : lock[l] = t}
  BY DEF LockOwnership
<1>5. QED
  BY <1>1, <1>2, <1>3, <1>4

LEMMA AloneWithin ==
    ASSUME PointerInv, LockOwnership, Locked, NEW t \in Threads, th[t].pc \in Within,
           NEW u \in Threads, u # t
    PROVE  /\ th[u].pc \in Within => SubList(th[u].i) # SubList(th[t].i)
           /\ th[u].pc \notin LengthPlaces
BY WithinFacts

\* A half linked element is one in the list its thread has locked.
LEMMA HalfNodes ==
    ASSUME NEW C, HandsInv(C), NEW t \in Threads, NEW n, HalfAt(t, n)
    PROVE  th[t].pc \in Within /\ n \in C[SubList(th[t].i)]
BY DEF HandsInv, HandOf, HalfAt, HalfIn, HalfOut, Within, InsertPlaces, DeletePlaces, Deletes

LEMMA HalfHere ==
    ASSUME PointerInv, LockOwnership, Locked, NEW C, ListsInv(C), HandsInv(C),
           NEW l \in Lists, NEW n \in NodesOf(l), NEW t \in Threads, HalfAt(t, n)
    PROVE  th[t].pc \in Within /\ SubList(th[t].i) = l /\ lock[l] = t
<1>1. th[t].pc \in Within /\ n \in C[SubList(th[t].i)]
  BY HalfNodes
<1>2. SubList(th[t].i) \in Lists /\ lock[SubList(th[t].i)] = t
  BY <1>1, WithinFacts
<1>3. n \in NodesOf(SubList(th[t].i))
  BY <1>1, <1>2 DEF ListsInv, SoundAt
<1>4. SubList(th[t].i) = l
  BY <1>2, <1>3, OneList DEF PointerInv
<1>5. QED
  BY <1>1, <1>2, <1>4

\* Who works on a list has the only half linked element there.
LEMMA HalfOfHolder ==
    ASSUME PointerInv, LockOwnership, Locked, NEW C, ListsInv(C), HandsInv(C),
           NEW t \in Threads, NEW l \in Lists, lock[l] = t, NEW n \in NodesOf(l)
    PROVE  Half(n) <=> HalfAt(t, n)
BY HalfHere DEF Half

\* While nobody does, all links of a list are inverse to each other.
LEMMA WholeList ==
    ASSUME PointerInv, LockOwnership, Locked, NEW C, ListsInv(C), HandsInv(C), NEW l \in Lists,
           \A t \in Threads : lock[l] = t => \A n \in C[l] : ~HalfAt(t, n)
    PROVE  /\ C[l] \subseteq NodesOf(l) /\ HeadOf(l) \in C[l]
           /\ Linked(next, prev, C[l], {}) /\ Sorted(next, C[l])
<1>1. SoundAt(C[l], l)
  BY DEF ListsInv
<1>2. {n \in C[l] : Half(n)} = {}
  BY <1>1, HalfHere DEF Half, SoundAt
<1>3. QED
  BY <1>1, <1>2 DEF SoundAt

\* The links of the elements in a list were set, and are not between InsertInit
\* and InsertPred: they are ranked.
LEMMA NotFresh ==
    ASSUME PointerInv, LockOwnership, Locked, NEW C, ListsInv(C), HandsInv(C),
           NEW l \in Lists, NEW n \in C[l]
    PROVE  /\ n \in Nodes /\ n \in NodesOf(l)
           /\ next[n] \in C[l] /\ prev[n] \in C[l]
           /\ next[n] \in Nodes /\ prev[n] \in Nodes
           /\ next[n] # Wild /\ ~Fresh(n)
<1>1. /\ C[l] \subseteq NodesOf(l) /\ NodesOf(l) \subseteq Nodes
      /\ next[n] \in C[l] /\ prev[n] \in C[l]
  BY NodeFacts DEF ListsInv, SoundAt, Linked, PointerInv
<1>2. next[n] # Wild
  BY <1>1, NodeFacts DEF PointerInv
<1>3. ~Fresh(n)
  <2>1. SUFFICES ASSUME NEW t \in Threads, th[t].pc = "ins_pred", th[t].i = n PROVE FALSE
    BY DEF Fresh
  <2>2. th[t].pc \in Within
    BY <2>1 DEF Within, InsertPlaces
  <2>3. n \in Elements /\ n \notin C[SubList(n)]
    BY <2>1, <2>2, WithinFacts DEF HandsInv, HandOf
  <2>4. SubList(n) = l
    BY <1>1, <2>3, NodeFacts DEF NodesOf, PointerInv
  <2>5. QED
    BY <2>3, <2>4
<1>4. QED
  BY <1>1, <1>2, <1>3

LEMMA NotItself ==
    ASSUME PointerInv, RankInv, LockOwnership, Locked, NEW C, ListsInv(C), HandsInv(C),
           NEW l \in Lists, NEW n \in C[l], n \in Elements
    PROVE  next[n] # n /\ prev[n] # n
<1>1. PICK r \in [Elements -> Nat] : Ranked(r)
  BY DEF RankInv
<1>2. next[n] # Wild /\ ~Fresh(n)
  BY NotFresh
<1>3. Before(r, n, next[n]) /\ Before(r, prev[n], n)
  BY <1>1, <1>2 DEF Ranked, RankedLinks
<1>4. r[n] \in Nat
  OBVIOUS
<1>5. QED
  BY <1>3, <1>4 DEF Before

\* A set of nodes of a list that next does not leave but at the head has the
\* head ...
LEMMA ToHead ==
    ASSUME PointerInv, RankInv, LockOwnership, Locked, NEW C, ListsInv(C), HandsInv(C),
           NEW l \in Lists, NEW S \in SUBSET C[l], S # {},
           \A n \in S : IsHead(n) \/ next[n] \in S
    PROVE  HeadOf(l) \in S
<1>1. PICK r \in [Elements -> Nat] : Ranked(r)
  BY DEF RankInv
<1>2. SUFFICES ASSUME HeadOf(l) \notin S PROVE FALSE
  OBVIOUS
<1>3. ASSUME NEW n \in S
      PROVE  n \in Elements /\ next[n] \in S /\ next[n] # Wild /\ ~Fresh(n)
  <2>1. n \in Nodes /\ n \in NodesOf(l) /\ next[n] # Wild /\ ~Fresh(n)
    BY NotFresh
  <2>2. ~IsHead(n)
    BY <1>2, <2>1, NodeFacts DEF PointerInv
  <2>3. QED
    BY <2>1, <2>2, NodeFacts DEF PointerInv
<1>4. ASSUME NEW n \in S PROVE r[next[n]] < r[n]
  BY <1>1, <1>3, <1>4 DEF Ranked, RankedLinks, Before
<1> DEFINE T == {r[n] : n \in S}
<1>5. PICK x \in T : \A y \in T : x <= y
  <2>1. T \in SUBSET Nat /\ T # {}
    BY <1>3
  <2> HIDE DEF T
  <2>2. QED
    BY <2>1, SmallestNumber
<1>6. PICK n \in S : r[n] = x
  BY <1>5
<1>7. x <= r[next[n]] /\ r[next[n]] < r[n]
  BY <1>3, <1>4, <1>5, <1>6
<1>8. r[n] \in Nat /\ r[next[n]] \in Nat
  BY <1>3, <1>6
<1>9. QED
  BY <1>6, <1>7, <1>8

LEMMA NatSets ==
    ASSUME NEW T, 0 \in T, \A n \in Nat : n \in T => n + 1 \in T
    PROVE  Nat \subseteq T
<1> DEFINE bad == Nat \ T
<1> SUFFICES ASSUME bad # {} PROVE FALSE
  OBVIOUS
<1>1. PICK k \in bad : \A j \in bad : k <= j
  BY SmallestNumber
<1>2. k \in Nat /\ k # 0 /\ k \notin T
  OBVIOUS
<1>3. k - 1 \in Nat /\ k - 1 \notin bad
  BY <1>1, <1>2
<1>4. (k - 1) + 1 \in T
  BY <1>3
<1>5. QED
  BY <1>2, <1>4

\* There are finitely many elements: their ranks have a bound.
LEMMA RankBound ==
    ASSUME TypeOK, NEW r \in [Elements -> Nat]
    PROVE  \E b \in Nat : \A e \in Elements : r[e] <= b
<1> DEFINE T == {n \in Nat : \E b \in Nat : \A e \in Elements : e < n => r[e] <= b}
<1>1. 0 \in T
  BY NodeFacts
<1>2. ASSUME NEW n \in Nat, n \in T PROVE n + 1 \in T
  <2>1. PICK b \in Nat : \A e \in Elements : e < n => r[e] <= b
    BY <1>2
  <2>2. \A e \in Elements : e \in Nat /\ r[e] \in Nat
    BY NodeFacts
  <2>3. CASE n \in Elements
    <3>1. b + r[n] \in Nat
      BY <2>2, <2>3
    <3>2. \A e \in Elements : e < n + 1 => r[e] <= b + r[n]
      BY <2>1, <2>2, <2>3
    <3>3. QED
      BY <3>1, <3>2
  <2>4. CASE n \notin Elements
    <3>1. \A e \in Elements : e < n + 1 => r[e] <= b
      BY <2>1, <2>2, <2>4
    <3>2. QED
      BY <3>1
  <2>5. QED
    BY <2>3, <2>4
<1>3. Wild \in T
  <2> HIDE DEF T
  <2>1. Nat \subseteq T
    BY <1>1, <1>2, NatSets
  <2>2. QED
    BY <2>1, Arguments
<1>4. \A e \in Elements : e < Wild
  BY Arguments DEF Elements, Wild
<1>5. QED
  BY <1>3, <1>4

\* ... and one that has the head and that next does not leave is all of it:
\* from every other node prev leads on to another one, for ever.
LEMMA Reached ==
    ASSUME PointerInv, RankInv, LockOwnership, Locked, NEW C, ListsInv(C), HandsInv(C),
           NEW l \in Lists, NEW S \in SUBSET C[l], HeadOf(l) \in S, \A n \in S : next[n] \in S
    PROVE  S = C[l]
<1>1. PICK r \in [Elements -> Nat] : Ranked(r)
  BY DEF RankInv
<1>2. PICK b \in Nat : \A e \in Elements : r[e] <= b
  BY RankBound DEF PointerInv
<1> DEFINE D == C[l] \ S
<1>3. SUFFICES ASSUME D # {} PROVE FALSE
  OBVIOUS
<1>4. ASSUME NEW n \in D
      PROVE  n \in Elements /\ prev[n] \in D /\ next[n] # Wild /\ ~Fresh(n)
  <2>1. n \in C[l] /\ n \in Nodes /\ n \in NodesOf(l) /\ next[n] # Wild /\ ~Fresh(n) /\ prev[n] \in C[l]
    BY NotFresh
  <2>2. n \in Elements
    BY <2>1, NodeFacts DEF PointerInv
  <2>3. next[prev[n]] = n \/ next[next[prev[n]]] = n
    BY <2>1 DEF ListsInv, SoundAt, Linked
  <2>4. prev[n] \notin S
    BY <2>3
  <2>5. QED
    BY <2>1, <2>2, <2>4
<1>5. ASSUME NEW n \in D PROVE r[n] < r[prev[n]]
  BY <1>1, <1>4, <1>5 DEF Ranked, RankedLinks, Before
<1>6. ASSUME NEW n \in D
      PROVE  r[n] \in Nat /\ b - r[n] \in Nat /\ r[prev[n]] \in Nat /\ b - r[prev[n]] < b - r[n]
  BY <1>2, <1>4, <1>5
<1> DEFINE T == {b - r[n] : n \in D}
<1>7. PICK x \in T : \A y \in T : x <= y
  <2>1. T \in SUBSET Nat /\ T # {}
    BY <1>3, <1>6
  <2> HIDE DEF T
  <2>2. QED
    BY <2>1, SmallestNumber
<1>8. PICK n \in D : b - r[n] = x
  BY <1>7
<1>9. x <= b - r[prev[n]] /\ b - r[prev[n]] < b - r[n]
  BY <1>4, <1>6, <1>7, <1>8
<1>10. b - r[n] \in Int /\ b - r[prev[n]] \in Int
  BY <1>6
<1>11. QED
  BY <1>8, <1>9, <1>10

\* A walk from the head along next comes by all nodes of the list.
LEMMA AllAround ==
    ASSUME PointerInv, RankInv, LockOwnership, Locked, NEW C, ListsInv(C), HandsInv(C),
           NEW l \in Lists, NEW S \in SUBSET C[l], next[HeadOf(l)] \in S,
           \A n \in S : IsHead(n) \/ next[n] \in S
    PROVE  S = C[l]
<1>1. HeadOf(l) \in S
  BY ToHead
<1>2. \A n \in S : next[n] \in S
  <2>1. SUFFICES ASSUME NEW n \in S, IsHead(n) PROVE next[n] \in S
    OBVIOUS
  <2>2. n = HeadOf(l)
    BY <2>1, NotFresh, NodeFacts DEF PointerInv
  <2>3. QED
    BY <2>2
<1>3. QED
  BY <1>1, <1>2, Reached

-----------------------------------------------------------------------------
(* The parts of the invariant after a step.                                *)

\* What the definitions say of the new state, key being the same.
LEMMA NextSound ==
    ASSUME [Next]_vars, NEW l \in Lists, NEW c,
           c \subseteq NodesOf(l), HeadOf(l) \in c,
           Linked(next', prev', c, {n \in c : Half(n)'}), Sorted(next', c)
    PROVE  SoundAt(c, l)'
<1>1. NodesOf(l)' = NodesOf(l) /\ HeadOf(l)' = HeadOf(l) /\ key' = key
  BY StepSets, SameNodes
<1>2. Sorted(next, c)'
  BY <1>1 DEF Sorted, InOrder, IsHead
<1>3. Linked(next, prev, c, {n \in c : Half(n)})'
  BY DEF Linked
<1>4. QED
  BY <1>1, <1>2, <1>3 DEF SoundAt

LEMMA NextHands ==
    ASSUME [Next]_vars, NEW C,
           \A u \in Threads :
               th'[u].pc \in Within => HandOf(th'[u], next', prev', C[SubList(th'[u].i)])
    PROVE  HandsInv(C)'
<1>1. /\ Threads' = Threads /\ key' = key /\ Elements' = Elements
      /\ \A e : SubList(e)' = SubList(e)
  BY StepSets, SameNodes
<1>2. SUFFICES ASSUME NEW u \in Threads, th'[u].pc \in Within
               PROVE  HandOf(th[u], next, prev, C[SubList(th[u].i)])'
  BY <1>1 DEF HandsInv
<1>3. PICK r, nx, pv, c :
         r = th'[u] /\ nx = next' /\ pv = prev' /\ c = C[SubList(th'[u].i)]
  OBVIOUS
<1>4. HandOf(r, nx, pv, c)
  BY <1>2, <1>3
<1>5. (C[SubList(th[u].i)])' = c
  BY <1>1, <1>3
<1>6. \A n : Below(n, r.i)' = Below(n, r.i) /\ (ComesAfter(r.i, n)' <=> ComesAfter(r.i, n))
  BY <1>1 DEF Below, ComesAfter, IsHead
<1>7. Ahead(next, C[SubList(th[u].i)], th[u].cur, th[u].i)' = Ahead(nx, c, r.cur, r.i)
  BY <1>1, <1>3, <1>5 DEF Ahead, IsHead
<1>8. QED
  BY <1>1, <1>3, <1>4, <1>5, <1>6, <1>7 DEF HandOf

LEMMA NextCounts ==
    ASSUME [Next]_vars, NEW C, \A a \in Actors : CountOf(th'[a], next', prev', C)
    PROVE  CountsInv(C)'
<1>1. Actors' = Actors
  BY StepSets
<1>2. QED
  BY <1>1 DEF CountsInv, CountOf

\* What a thread knows of its list it still knows when others write elsewhere.
LEMMA HandStays ==
    ASSUME NEW r, NEW nx, NEW pv, NEW mx, NEW qv, NEW c, HandOf(r, nx, pv, c),
           \A n \in c \cup {r.i} : mx[n] = nx[n] /\ qv[n] = pv[n]
    PROVE  HandOf(r, mx, qv, c)
<1>1. Ahead(nx, c, r.cur, r.i) => Ahead(mx, c, r.cur, r.i)
  BY DEF Ahead
<1>2. QED
  BY <1>1 DEF HandOf, Deletes, DeletePlaces, HalfIn

\* A step that writes to no link and links nothing half.
LEMMA QuietStep ==
    ASSUME [Next]_vars, NEW C, ListsInv(C), HandsInv(C), CountsInv(C),
           UNCHANGED <<next, prev>>, \A n : Half(n)' <=> Half(n),
           \A u \in Threads : \/ th'[u] = th[u]
                              \/ th'[u].pc \in Within =>
                                    HandOf(th'[u], next, prev, C[SubList(th'[u].i)]),
           \A a \in Actors : \/ th'[a] = th[a]
                             \/ CountOf(th'[a], next, prev, C)
    PROVE  ListsInv(C)' /\ HandsInv(C)' /\ CountsInv(C)'
<1>1. Lists' = Lists
  BY StepSets
<1>2. ASSUME NEW l \in Lists PROVE SoundAt(C[l], l)'
  <2>1. /\ C[l] \subseteq NodesOf(l) /\ HeadOf(l) \in C[l]
        /\ Linked(next, prev, C[l], {n \in C[l] : Half(n)}) /\ Sorted(next, C[l])
    BY DEF ListsInv, SoundAt
  <2>2. {n \in C[l] : Half(n)'} = {n \in C[l] : Half(n)}
    OBVIOUS
  <2>3. QED
    BY <2>1, <2>2, NextSound
<1>3. HandsInv(C)'
  BY NextHands DEF HandsInv
<1>4. CountsInv(C)'
  BY NextCounts DEF CountsInv
<1>5. QED
  BY <1>1, <1>2, <1>3, <1>4 DEF ListsInv

\* A thread writes to links of the list it has locked, after which d are the
\* nodes of the list, h of them half linked.
Writes(t, l, d, h) ==
    /\ th[t].pc \in Within
    /\ \A a \in Actors : a # t => th'[a] = th[a]
    /\ th'[t].i = th[t].i /\ th'[t].len = th[t].len /\ th'[t].pc \notin LengthPlaces
    /\ l = SubList(th[t].i)
    /\ \A n \in Nodes : n \notin NodesOf(l) => next'[n] = next[n] /\ prev'[n] = prev[n]
    /\ d \subseteq NodesOf(l) /\ HeadOf(l) \in d /\ h \subseteq d
    /\ \A n : HalfAt(t, n)' <=> n \in h
    /\ Linked(next', prev', d, h)
    /\ Sorted(next', d)
    /\ th'[t].pc \in Within => HandOf(th'[t], next', prev', d)

\* What a store leaves C.
Stores(C, D) ==
    D \in [Lists -> SUBSET Nodes] /\ ListsInv(D)' /\ HandsInv(D)' /\ CountsInv(D)'

LEMMA WriteStep ==
    ASSUME PointerInv, LockOwnership, Locked, [Next]_vars, th[Main].pc \notin LengthPlaces,
           NEW C \in [Lists -> SUBSET Nodes], ListsInv(C), HandsInv(C), CountsInv(C),
           NEW t \in Threads, NEW l, NEW d, NEW h, Writes(t, l, d, h)
    PROVE  Stores(C, [C EXCEPT ![l] = d])
<1>0. /\ th[t].pc \in Within /\ l \in Lists /\ l = SubList(th[t].i)
      /\ \A a \in Actors : a # t => th'[a] = th[a]
      /\ th'[t].i = th[t].i /\ th'[t].len = th[t].len /\ th'[t].pc \notin LengthPlaces
      /\ \A n \in Nodes : n \notin NodesOf(l) => next'[n] = next[n] /\ prev'[n] = prev[n]
      /\ d \subseteq NodesOf(l) /\ HeadOf(l) \in d /\ h \subseteq d
      /\ \A n : HalfAt(t, n)' <=> n \in h
      /\ Linked(next', prev', d, h)
      /\ Sorted(next', d)
      /\ th'[t].pc \in Within => HandOf(th'[t], next', prev', d)
  BY WithinFacts DEF Writes
<1> DEFINE D == [C EXCEPT ![l] = d]
<1>1. /\ Threads' = Threads /\ Lists' = Lists /\ Actors' = Actors
      /\ Threads \subseteq Actors /\ Main \in Actors /\ Main \notin Threads
      /\ \A a \in Actors : a = Main \/ a \in Threads
      /\ \A m \in Lists : NodesOf(m) \subseteq Nodes
      /\ \A m \in Lists : m # l => \A n \in NodesOf(m) : n \notin NodesOf(l)
  BY <1>0, StepSets, Arguments, ActorSplit, NodeFacts, OneList DEF PointerInv
<1>2. D[l] = d /\ \A m \in Lists : m # l => D[m] = C[m]
  BY <1>0
<1>3. D \in [Lists -> SUBSET Nodes]
  BY <1>0, <1>1
<1> HIDE DEF D
<1>4. lock[l] = t
  BY <1>0, WithinFacts
<1>5. ASSUME NEW n PROVE Half(n)' <=> n \in h \/ \E u \in Threads : u # t /\ HalfAt(u, n)
  <2>1. \A u \in Threads : u # t => (HalfAt(u, n)' <=> HalfAt(u, n))
    BY <1>0, <1>1 DEF HalfAt
  <2>2. QED
    BY <1>0, <1>1, <2>1 DEF Half
<1>6. ASSUME NEW m \in Lists PROVE SoundAt(D[m], m)'
  <2>1. CASE m = l
    <3>1. {n \in d : Half(n)'} = h
      <4>1. ASSUME NEW n \in d, NEW u \in Threads, HalfAt(u, n) PROVE u = t
        BY <1>0, <1>4, <4>1, HalfHere
      <4>2. QED
        BY <1>0, <1>5, <4>1
    <3>2. QED
      BY <1>0, <1>2, <2>1, <3>1, NextSound
  <2>2. CASE m # l
    <3>1. /\ C[m] \subseteq NodesOf(m) /\ HeadOf(m) \in C[m]
          /\ Linked(next, prev, C[m], {n \in C[m] : Half(n)}) /\ Sorted(next, C[m])
      BY DEF ListsInv, SoundAt
    <3>2. \A n \in C[m] : /\ next'[n] = next[n] /\ prev'[n] = prev[n]
                          /\ next[n] \in C[m] /\ prev[n] \in C[m]
                          /\ n \notin NodesOf(l)
      BY <1>0, <1>1, <2>2, <3>1 DEF Linked
    <3>3. {n \in C[m] : Half(n)'} = {n \in C[m] : Half(n)}
      <4>1. ASSUME NEW n \in C[m], HalfAt(t, n) PROVE FALSE
        <5>1. SubList(th[t].i) = m
          BY <1>0, <3>1, <4>1, HalfHere
        <5>2. QED
          BY <1>0, <2>2, <5>1
      <4>2. \A n \in C[m] : n \notin h
        BY <1>0, <3>2
      <4>3. \A n \in C[m] : Half(n)' <=> Half(n)
        BY <1>5, <4>1, <4>2 DEF Half
      <4>4. QED
        BY <4>3
    <3>4. Linked(next', prev', C[m], {n \in C[m] : Half(n)})
      BY <3>1, <3>2 DEF Linked
    <3>5. Sorted(next', C[m])
      BY <3>1, <3>2 DEF Sorted
    <3>6. QED
      BY <1>2, <2>2, <3>1, <3>3, <3>4, <3>5, NextSound
  <2>3. QED
    BY <2>1, <2>2
<1>7. ASSUME NEW u \in Threads, th'[u].pc \in Within
      PROVE  HandOf(th'[u], next', prev', D[SubList(th'[u].i)])
  <2>1. CASE u = t
    BY <1>0, <1>2, <1>7, <2>1
  <2>2. CASE u # t
    <3>1. th'[u] = th[u] /\ th[u].pc \in Within
      BY <1>0, <1>1, <1>7, <2>2
    <3>2. PICK m : m = SubList(th[u].i)
      OBVIOUS
    <3>3. m \in Lists /\ m # l /\ th[u].i \in Elements
      BY <1>0, <2>2, <3>1, <3>2, AloneWithin, WithinFacts
    <3>4. HandOf(th[u], next, prev, C[m])
      BY <3>1, <3>2 DEF HandsInv
    <3>5. \A n \in C[m] \cup {th[u].i} : next'[n] = next[n] /\ prev'[n] = prev[n]
      <4>1. th[u].i \in NodesOf(m)
        BY <3>2, <3>3, NodeFacts DEF PointerInv
      <4>2. C[m] \subseteq NodesOf(m)
        BY <3>3 DEF ListsInv, SoundAt
      <4>3. QED
        BY <1>0, <1>1, <3>3, <4>1, <4>2
    <3>6. HandOf(th[u], next', prev', C[m])
      BY <3>4, <3>5, HandStays
    <3>7. QED
      BY <1>2, <3>1, <3>2, <3>3, <3>6
  <2>3. QED
    BY <2>1, <2>2
<1>8. ASSUME NEW a \in Actors PROVE CountOf(th'[a], next', prev', D)
  <2>1. th'[a].pc \notin LengthPlaces
    <3>1. CASE a = t
      BY <1>0, <3>1
    <3>2. CASE a = Main
      BY <1>0, <1>1, <3>2
    <3>3. CASE a \in Threads /\ a # t
      BY <1>0, <1>1, <3>3, AloneWithin
    <3>4. QED
      BY <1>1, <3>1, <3>2, <3>3
  <2>2. th'[a].len >= 0
    BY <1>0 DEF CountsInv, CountOf
  <2>3. QED
    BY <2>1, <2>2 DEF CountOf, LengthPlaces
<1>9. QED
  BY <1>1, <1>3, <1>6, <1>7, <1>8, NextHands, NextCounts DEF ListsInv, Stores, D

-----------------------------------------------------------------------------
(* The stores.                                                             *)

Working(C) ==
    /\ PointerInv /\ RankInv /\ LockOwnership /\ Locked
    /\ C \in [Lists -> SUBSET Nodes] /\ ListsInv(C) /\ HandsInv(C) /\ CountsInv(C)

\* What a thread finds in the list it has locked.
LEMMA AtWork ==
    ASSUME NEW C, Working(C), NEW t \in Threads, th[t].pc \in Within, NEW l, l = SubList(th[t].i)
    PROVE  /\ l \in Lists /\ th[t].i \in Elements /\ th[t].i \in NodesOf(l)
           /\ th[t] \in ActorType
           /\ C[l] \subseteq NodesOf(l) /\ HeadOf(l) \in C[l]
           /\ HandOf(th[t], next, prev, C[l])
           /\ th[t].pc \notin HalfIn \cup HalfOut => Linked(next, prev, C[l], {})
           /\ th[t].pc \in HalfIn => Linked(next, prev, C[l], {th[t].i})
           /\ th[t].pc \in HalfOut => Linked(next, prev, C[l], {th[t].cur})
           /\ Sorted(next, C[l])
           /\ \A n \in C[l] : n \in Nodes /\ next[n] \in C[l] /\ prev[n] \in C[l]
<1>1. /\ l \in Lists /\ th[t].i \in Elements /\ lock[l] = t
      /\ th[t].i \in NodesOf(l) /\ th[t] \in ActorType
  BY WithinFacts, NodeFacts, ThreadFacts DEF Working, PointerInv
<1>2. HandOf(th[t], next, prev, C[l])
  BY DEF Working, HandsInv
<1>3. /\ C[l] \subseteq NodesOf(l) /\ HeadOf(l) \in C[l]
      /\ Linked(next, prev, C[l], {n \in C[l] : Half(n)}) /\ Sorted(next, C[l])
  BY <1>1 DEF Working, ListsInv, SoundAt
<1>4. \A n \in C[l] : Half(n) <=> HalfAt(t, n)
  BY <1>1, <1>3, HalfOfHolder DEF Working
<1>5. {n \in C[l] : Half(n)} = {n \in C[l] : HalfAt(t, n)}
  BY <1>4
<1>6. /\ th[t].pc \notin HalfIn \cup HalfOut => {n \in C[l] : HalfAt(t, n)} = {}
      /\ th[t].pc \in HalfIn => {n \in C[l] : HalfAt(t, n)} = {th[t].i}
      /\ th[t].pc \in HalfOut => {n \in C[l] : HalfAt(t, n)} = {th[t].cur}
  BY <1>2 DEF HalfAt, HandOf, HalfIn, HalfOut, Deletes, DeletePlaces
<1>7. \A n \in C[l] : n \in Nodes /\ next[n] \in C[l] /\ prev[n] \in C[l]
  BY <1>1, NotFresh DEF Working
<1>8. QED
  BY <1>1, <1>2, <1>3, <1>5, <1>6, <1>7

LEMMA InsertInitStep ==
    ASSUME NEW C, Working(C), [Next]_vars, th[Main].pc \notin LengthPlaces,
           NEW t \in Threads, InsertInit(t)
    PROVE  Stores(C, C)
<1> DEFINE l == SubList(th[t].i)
           c == C[l]
<1>1. PICK e, n, p : e = th[t].i /\ n = th[t].cur /\ p = prev[n]
  OBVIOUS
<1>2. /\ th[t].pc = "ins_walk" /\ th[t].pc \in Within /\ ~ComesAfter(e, n)
      /\ next' = [next EXCEPT ![e] = n] /\ prev' = [prev EXCEPT ![e] = p]
      /\ th' = [th EXCEPT ![t].pc = "ins_pred"]
  BY <1>1 DEF InsertInit, At, GoTo, Within, InsertPlaces
<1>3. /\ l \in Lists /\ e \in Elements /\ e \in NodesOf(l)
      /\ th[t] \in ActorType /\ c \subseteq NodesOf(l) /\ HeadOf(l) \in c
      /\ HandOf(th[t], next, prev, c) /\ Linked(next, prev, c, {}) /\ Sorted(next, c)
      /\ \A m \in c : m \in Nodes /\ next[m] \in c /\ prev[m] \in c
  BY <1>1, <1>2, AtWork DEF HalfIn, HalfOut
<1>4. n \in c /\ e \notin c /\ Below(p, e)
  BY <1>1, <1>2, <1>3 DEF HandOf
<1>5. /\ next \in [Nodes -> Nodes \cup {Wild}] /\ prev \in [Nodes -> Nodes \cup {Wild}]
      /\ th \in [Actors -> ActorType] /\ t \in Actors /\ e \in Nodes
  BY <1>3, Arguments, NodeFacts DEF Working, PointerInv, TypeOK, ActorType
<1>6. /\ th'[t].pc = "ins_pred" /\ th'[t].i = e /\ th'[t].cur = n /\ th'[t].len = th[t].len
      /\ \A a \in Actors : a # t => th'[a] = th[a]
  BY <1>1, <1>2, <1>5 DEF ActorType
<1>7. /\ next'[e] = n /\ prev'[e] = p
      /\ \A m \in Nodes : m # e => next'[m] = next[m] /\ prev'[m] = prev[m]
  BY <1>2, <1>5
<1>8. \A m \in c : next'[m] = next[m] /\ prev'[m] = prev[m]
  BY <1>3, <1>4, <1>7
<1>9. Linked(next', prev', c, {}) /\ Sorted(next', c)
  BY <1>3, <1>8 DEF Linked, Sorted
<1>10. HandOf(th'[t], next', prev', c)
  BY <1>1, <1>2, <1>4, <1>6, <1>7, <1>8 DEF HandOf, HalfIn, Deletes, DeletePlaces
<1>11. \A m : HalfAt(t, m)' <=> m \in {}
  BY <1>6 DEF HalfAt, HalfIn, HalfOut
<1>12. \A m \in Nodes : m \notin NodesOf(l) => next'[m] = next[m] /\ prev'[m] = prev[m]
  BY <1>3, <1>7
<1>13. [C EXCEPT ![l] = c] = C
  BY DEF Working
<1>14. th'[t].i = th[t].i /\ th'[t].pc \notin LengthPlaces
  BY <1>1, <1>6 DEF LengthPlaces
<1> HIDE DEF l, c
<1>15. Writes(t, l, c, {})
  BY <1>2, <1>3, <1>6, <1>9, <1>10, <1>11, <1>12, <1>14 DEF Writes, l
<1>16. QED
  BY <1>13, <1>15, WriteStep DEF Working

LEMMA InsertLinkStep ==
    ASSUME NEW C, Working(C), [Next]_vars, th[Main].pc \notin LengthPlaces,
           NEW t \in Threads, InsertLink(t), NEW l, l = SubList(th[t].i)
    PROVE  /\ th[t].i \in Elements /\ th[t].i \notin C[l]
           /\ Stores(C, [C EXCEPT ![l] = C[l] \cup {th[t].i}])
<1> DEFINE c == C[l]
<1>1. PICK e, n, p : e = th[t].i /\ n = th[t].cur /\ p = prev[n]
  OBVIOUS
<1> DEFINE d == c \cup {e}
<1>2. /\ th[t].pc = "ins_link" /\ th[t].pc \in Within
      /\ next' = [next EXCEPT ![th[t].reg] = e] /\ prev' = prev
      /\ th' = [th EXCEPT ![t].pc = "ins_succ"]
  BY <1>1 DEF InsertLink, At, GoTo, Within, InsertPlaces
<1>3. /\ l \in Lists /\ e \in Elements /\ e \in NodesOf(l)
      /\ th[t] \in ActorType /\ c \subseteq NodesOf(l) /\ HeadOf(l) \in c
      /\ HandOf(th[t], next, prev, c) /\ Linked(next, prev, c, {}) /\ Sorted(next, c)
      /\ \A m \in c : m \in Nodes /\ next[m] \in c /\ prev[m] \in c
  BY <1>1, <1>2, AtWork DEF HalfIn, HalfOut
<1>4. /\ n \in c /\ e \notin c /\ Below(p, e) /\ ~ComesAfter(e, n)
      /\ next[e] = n /\ prev[e] = p /\ th[t].reg = p
  BY <1>1, <1>2, <1>3 DEF HandOf
<1>5. /\ next \in [Nodes -> Nodes \cup {Wild}]
      /\ th \in [Actors -> ActorType] /\ t \in Actors /\ e \in Nodes /\ p \in c /\ p \in Nodes
  BY <1>1, <1>3, <1>4, Arguments, NodeFacts DEF Working, PointerInv, TypeOK, ActorType
<1>6. /\ th'[t].pc = "ins_succ" /\ th'[t].i = e /\ th'[t].len = th[t].len
      /\ \A a \in Actors : a # t => th'[a] = th[a]
  BY <1>1, <1>2, <1>5 DEF ActorType
<1>7. \A m \in Nodes : next'[m] = IF m = p THEN e ELSE next[m]
  BY <1>2, <1>4, <1>5
<1>8. Linked(next', prev', d, {e})
  <2>1. \A m \in d : next'[m] = IF m = prev[n] THEN e ELSE next[m]
    BY <1>1, <1>3, <1>5, <1>7
  <2>2. /\ n \in c /\ e \notin c /\ Linked(next, prev, c, {})
        /\ next[e] = n /\ prev[e] = prev[n]
    BY <1>1, <1>3, <1>4
  <2>3. Linked(next', prev, d, {e})
    BY <2>1, <2>2, LinkIn
  <2>4. QED
    BY <1>2, <2>3
<1>9. Sorted(next', d)
  <2>1. next'[e] = n /\ next'[p] = e
    BY <1>3, <1>4, <1>5, <1>7
  <2>2. \A m \in Elements : key[m] \in Nat
    BY ArgumentsAssumption DEF Working, PointerInv, TypeOK
  <2>3. \A m \in c : ~IsHead(m) => m \in Elements
    BY <1>3, NodeFacts DEF Working, PointerInv
  <2>4. InOrder(p, e) /\ InOrder(e, n)
    BY <1>3, <1>4, <1>5, <2>2, <2>3 DEF InOrder, Below, ComesAfter
  <2>5. \A m \in c : m # p => InOrder(m, next'[m])
    BY <1>3, <1>7 DEF Sorted
  <2>6. QED
    BY <2>1, <2>4, <2>5 DEF Sorted
<1>10. HandOf(th'[t], next', prev', d)
  BY <1>6 DEF HandOf, HalfIn, Deletes, DeletePlaces
<1>11. \A m : HalfAt(t, m)' <=> m \in {e}
  BY <1>6 DEF HalfAt, HalfIn, HalfOut
<1>12. \A m \in Nodes : m \notin NodesOf(l) => next'[m] = next[m] /\ prev'[m] = prev[m]
  BY <1>2, <1>3, <1>5, <1>7
<1>13. th'[t].pc \notin LengthPlaces
  BY <1>6 DEF LengthPlaces
<1>14. d \subseteq NodesOf(l) /\ HeadOf(l) \in d /\ {e} \subseteq d
  BY <1>3
<1> HIDE DEF d
<1>15. Writes(t, l, d, {e})
  BY <1>1, <1>2, <1>6, <1>8, <1>9, <1>10, <1>11, <1>12, <1>13, <1>14 DEF Writes
<1>16. Stores(C, [C EXCEPT ![l] = d])
  BY <1>15, WriteStep DEF Working
<1>17. QED
  BY <1>1, <1>3, <1>4, <1>16 DEF d

LEMMA InsertBackStep ==
    ASSUME NEW C, Working(C), [Next]_vars, th[Main].pc \notin LengthPlaces,
           NEW t \in Threads, InsertBack(t)
    PROVE  Stores(C, C)
<1>1. PICK l, c, e, n : l = SubList(th[t].i) /\ c = C[l] /\ e = th[t].i /\ n = next[e]
  OBVIOUS
<1>2. /\ th[t].pc = "ins_back" /\ th[t].pc \in Within /\ th[t].pc \in HalfIn
      /\ prev' = [prev EXCEPT ![th[t].reg] = e] /\ next' = next
      /\ th' = [th EXCEPT ![t].pc = "ins_unlock"]
  BY <1>1 DEF InsertBack, At, GoTo, Within, InsertPlaces, HalfIn, Working
<1>3. /\ l \in Lists /\ e \in Elements /\ e \in NodesOf(l)
      /\ th[t] \in ActorType /\ c \subseteq NodesOf(l) /\ HeadOf(l) \in c
      /\ HandOf(th[t], next, prev, c) /\ Linked(next, prev, c, {e}) /\ Sorted(next, c)
      /\ \A m \in c : m \in Nodes /\ next[m] \in c /\ prev[m] \in c
  BY <1>1, <1>2, AtWork
<1>4. e \in c /\ th[t].reg = n /\ n \in c /\ n \in Nodes /\ n # e
  <2>1. e \in c /\ th[t].reg = n
    BY <1>1, <1>2, <1>3 DEF HandOf
  <2>2. n # e
    BY <1>1, <1>3, <2>1, NotItself DEF Working
  <2>3. QED
    BY <1>1, <1>3, <2>1, <2>2
<1>5. /\ prev \in [Nodes -> Nodes \cup {Wild}]
      /\ th \in [Actors -> ActorType] /\ t \in Actors
  BY Arguments DEF Working, PointerInv, TypeOK, ActorType
<1>6. /\ th'[t].pc = "ins_unlock" /\ th'[t].i = e /\ th'[t].len = th[t].len
      /\ \A a \in Actors : a # t => th'[a] = th[a]
  BY <1>1, <1>2, <1>5 DEF ActorType
<1>7. \A m \in Nodes : prev'[m] = IF m = n THEN e ELSE prev[m]
  BY <1>2, <1>4, <1>5
<1>8. Linked(next', prev', c, {})
  <2>1. \A m \in c : prev'[m] = IF m = next[e] THEN e ELSE prev[m]
    BY <1>1, <1>3, <1>7
  <2>2. e \in c /\ Linked(next, prev, c, {e}) /\ next[e] # e
    BY <1>1, <1>3, <1>4
  <2>3. Linked(next, prev', c, {})
    BY <2>1, <2>2, LinkBack
  <2>4. QED
    BY <1>2, <2>3
<1>9. \A m : HalfAt(t, m)' <=> m \in {}
  BY <1>6 DEF HalfAt, HalfIn, HalfOut
<1>10. \A m \in Nodes : m \notin NodesOf(l) => next'[m] = next[m] /\ prev'[m] = prev[m]
  BY <1>2, <1>3, <1>4, <1>7
<1>11. th'[t].pc \notin LengthPlaces /\ th'[t].pc \notin Within
  BY <1>6 DEF LengthPlaces, Within, InsertPlaces, DeletePlaces
<1>12. Writes(t, l, c, {})
  BY <1>1, <1>2, <1>3, <1>6, <1>8, <1>9, <1>10, <1>11 DEF Writes
<1>13. [C EXCEPT ![l] = c] = C
  BY <1>1 DEF Working
<1>14. QED
  BY <1>12, <1>13, WriteStep DEF Working

LEMMA UnlinkBackStep ==
    ASSUME NEW C, Working(C), [Next]_vars, th[Main].pc \notin LengthPlaces,
           NEW t \in Threads, UnlinkBack(t)
    PROVE  Stores(C, C)
<1>1. PICK l, c, x, n, p :
         l = SubList(th[t].i) /\ c = C[l] /\ x = th[t].cur /\ n = next[x] /\ p = prev[x]
  OBVIOUS
<1>2. /\ th[t].pc = "un_store" /\ th[t].pc \in Within /\ th[t].pc \notin HalfIn \cup HalfOut
      /\ prev' = [prev EXCEPT ![th[t].reg] = th[t].reg2] /\ next' = next
      /\ th' = [th EXCEPT ![t].pc = "un_prev2"]
  BY <1>1 DEF UnlinkBack, At, GoTo, Within, DeletePlaces, HalfIn, HalfOut
<1>3. /\ l \in Lists /\ th[t].i \in Elements
      /\ th[t] \in ActorType /\ c \subseteq NodesOf(l) /\ HeadOf(l) \in c
      /\ HandOf(th[t], next, prev, c) /\ Linked(next, prev, c, {}) /\ Sorted(next, c)
      /\ \A m \in c : m \in Nodes /\ next[m] \in c /\ prev[m] \in c
  BY <1>1, <1>2, AtWork
<1>4. /\ x \in c /\ x \in Elements /\ key[x] = key[th[t].i]
      /\ th[t].reg = n /\ th[t].reg2 = p /\ n \in c /\ n \in Nodes /\ n # x /\ p \in c
  <2>1. /\ x \in c /\ x \in Elements /\ key[x] = key[th[t].i]
        /\ th[t].reg = n /\ th[t].reg2 = p
    BY <1>1, <1>2, <1>3 DEF HandOf, Deletes, DeletePlaces
  <2>2. n # x
    BY <1>1, <1>3, <2>1, NotItself DEF Working
  <2>3. QED
    BY <1>1, <1>3, <2>1, <2>2
<1>5. /\ prev \in [Nodes -> Nodes \cup {Wild}]
      /\ th \in [Actors -> ActorType] /\ t \in Actors
  BY Arguments DEF Working, PointerInv, TypeOK, ActorType
<1>6. /\ th'[t].pc = "un_prev2" /\ th'[t].i = th[t].i /\ th'[t].len = th[t].len /\ th'[t].cur = x
      /\ \A a \in Actors : a # t => th'[a] = th[a]
  BY <1>1, <1>2, <1>5 DEF ActorType
<1>7. \A m \in Nodes : prev'[m] = IF m = n THEN p ELSE prev[m]
  BY <1>2, <1>4, <1>5
<1>8. Linked(next', prev', c, {x})
  <2>1. \A m \in c : prev'[m] = IF m = next[x] THEN prev[x] ELSE prev[m]
    BY <1>1, <1>3, <1>7
  <2>2. x \in c /\ Linked(next, prev, c, {}) /\ next[x] # x
    BY <1>1, <1>3, <1>4
  <2>3. Linked(next, prev', c, {x})
    BY <2>1, <2>2, UnlinkBackwards
  <2>4. QED
    BY <1>2, <2>3
<1>9. \A m : HalfAt(t, m)' <=> m \in {x}
  BY <1>6 DEF HalfAt, HalfIn, HalfOut
<1>10. \A m \in Nodes : m \notin NodesOf(l) => next'[m] = next[m] /\ prev'[m] = prev[m]
  BY <1>2, <1>3, <1>4, <1>7
<1>11. th'[t].pc \notin LengthPlaces
  BY <1>6 DEF LengthPlaces
<1>12. HandOf(th'[t], next', prev', c)
  BY <1>4, <1>6 DEF HandOf, HalfIn
<1>13. Writes(t, l, c, {x})
  BY <1>1, <1>2, <1>3, <1>4, <1>6, <1>8, <1>9, <1>10, <1>11, <1>12 DEF Writes
<1>14. [C EXCEPT ![l] = c] = C
  BY <1>1 DEF Working
<1>15. QED
  BY <1>13, <1>14, WriteStep DEF Working

LEMMA UnlinkForwardStep ==
    ASSUME NEW C, Working(C), [Next]_vars, th[Main].pc \notin LengthPlaces,
           NEW t \in Threads, UnlinkForward(t), NEW l, l = SubList(th[t].i)
    PROVE  /\ th[t].cur \in C[l] /\ th[t].cur \in Elements /\ key[th[t].cur] = key[th[t].i]
           /\ Stores(C, [C EXCEPT ![l] = C[l] \ {th[t].cur}])
<1>1. PICK c, x, n, p : c = C[l] /\ x = th[t].cur /\ n = next[x] /\ p = prev[x]
  OBVIOUS
<1> DEFINE d == c \ {x}
<1>2. /\ th[t].pc = "un_store2" /\ th[t].pc \in Within /\ th[t].pc \in HalfOut
      /\ next' = [next EXCEPT ![th[t].reg] = th[t].reg2] /\ prev' = prev
      /\ th' = [th EXCEPT ![t].pc = "del_unlock"]
  BY <1>1 DEF UnlinkForward, At, GoTo, Within, DeletePlaces, HalfIn, HalfOut, Working
<1>3. /\ l \in Lists /\ th[t].i \in Elements
      /\ th[t] \in ActorType /\ c \subseteq NodesOf(l) /\ HeadOf(l) \in c
      /\ HandOf(th[t], next, prev, c) /\ Linked(next, prev, c, {x}) /\ Sorted(next, c)
      /\ \A m \in c : m \in Nodes /\ next[m] \in c /\ prev[m] \in c
  BY <1>1, <1>2, AtWork
<1>4. /\ x \in c /\ x \in Elements /\ key[x] = key[th[t].i]
      /\ th[t].reg = p /\ th[t].reg2 = n /\ n \in c /\ n # x
      /\ p \in c /\ p \in Nodes /\ p # x
  <2>1. /\ x \in c /\ x \in Elements /\ key[x] = key[th[t].i]
        /\ th[t].reg = p /\ th[t].reg2 = n
    BY <1>1, <1>2, <1>3 DEF HandOf, Deletes, DeletePlaces
  <2>2. n # x /\ p # x
    BY <1>1, <1>3, <2>1, NotItself DEF Working
  <2>3. QED
    BY <1>1, <1>3, <2>1, <2>2
<1>5. /\ next \in [Nodes -> Nodes \cup {Wild}]
      /\ th \in [Actors -> ActorType] /\ t \in Actors
  BY Arguments DEF Working, PointerInv, TypeOK, ActorType
<1>6. /\ th'[t].pc = "del_unlock" /\ th'[t].i = th[t].i /\ th'[t].len = th[t].len
      /\ \A a \in Actors : a # t => th'[a] = th[a]
  BY <1>1, <1>2, <1>5 DEF ActorType
<1>7. \A m \in Nodes : next'[m] = IF m = p THEN n ELSE next[m]
  BY <1>2, <1>4, <1>5
<1>8. Linked(next', prev', d, {})
  <2>1. \A m \in c : next'[m] = IF m = prev[x] THEN next[x] ELSE next[m]
    BY <1>1, <1>3, <1>7
  <2>2. x \in c /\ Linked(next, prev, c, {x}) /\ next[x] # x /\ prev[x] # x
    BY <1>1, <1>3, <1>4
  <2>3. Linked(next', prev, d, {})
    BY <2>1, <2>2, UnlinkForwards
  <2>4. QED
    BY <1>2, <2>3
<1>9. Sorted(next', d)
  <2>1. \A m \in Elements : key[m] \in Nat
    BY ArgumentsAssumption DEF Working, PointerInv, TypeOK
  <2>2. \A m \in c : IsHead(m) \/ m \in Elements
    BY <1>3, NodeFacts DEF Working, PointerInv
  <2>3. InOrder(p, x) /\ InOrder(x, n) /\ ~IsHead(x)
    <3>1. next[p] = x
      BY <1>1, <1>4, <1>3 DEF Linked
    <3>2. x \in Nodes
      BY <1>3, <1>4
    <3>3. QED
      BY <1>1, <1>3, <1>4, <3>1, <3>2, NodeFacts DEF Sorted, Working, PointerInv
  <2>4. InOrder(p, n)
    BY <1>4, <2>1, <2>2, <2>3 DEF InOrder
  <2>5. ASSUME NEW m \in d PROVE InOrder(m, next'[m])
    <3>1. CASE m = p
      BY <1>4, <1>7, <2>4, <3>1
    <3>2. CASE m # p
      BY <1>3, <1>7, <3>2 DEF Sorted
    <3>3. QED
      BY <3>1, <3>2
  <2>6. QED
    BY <2>5 DEF Sorted
<1>10. \A m : HalfAt(t, m)' <=> m \in {}
  BY <1>6 DEF HalfAt, HalfIn, HalfOut
<1>11. \A m \in Nodes : m \notin NodesOf(l) => next'[m] = next[m] /\ prev'[m] = prev[m]
  BY <1>2, <1>3, <1>4, <1>7
<1>12. th'[t].pc \notin LengthPlaces /\ th'[t].pc \notin Within
  BY <1>6 DEF LengthPlaces, Within, InsertPlaces, DeletePlaces
<1>13. d \subseteq NodesOf(l) /\ HeadOf(l) \in d /\ {} \subseteq d
  <2>1. x # HeadOf(l)
    BY <1>3, <1>4, NodeFacts DEF Working, PointerInv
  <2>2. QED
    BY <1>3, <2>1
<1> HIDE DEF d
<1>14. Writes(t, l, d, {})
  BY <1>2, <1>6, <1>8, <1>9, <1>10, <1>11, <1>12, <1>13 DEF Writes
<1>15. Stores(C, [C EXCEPT ![l] = d])
  BY <1>14, WriteStep DEF Working
<1>16. QED
  BY <1>1, <1>4, <1>15 DEF d

-----------------------------------------------------------------------------
(* The loads of the insertions and deletions.                              *)

InsertLoad(t) == InsertFirst(t) \/ InsertWalk(t) \/ InsertPred(t) \/ InsertSucc(t)
DeleteLoad(t) ==
    \/ LookupHit(t) \/ LookupWalk(t) \/ DeleteNext(t) \/ DeleteCheckNext(t)
    \/ DeletePrev(t) \/ DeleteCheckPrev(t) \/ UnlinkNext(t) \/ UnlinkPrev(t)
    \/ UnlinkPrev2(t) \/ UnlinkNext2(t)

LEMMA LoadMoves ==
    ASSUME NEW C, Working(C), NEW t \in Threads,
           InsertLoad(t) \/ LookupFirst(t) \/ DeleteLoad(t)
    PROVE  /\ UNCHANGED <<next, prev>>
           /\ th[t].pc \in Within /\ th'[t].pc \in Within
           /\ th'[t].i = th[t].i /\ th'[t].len = th[t].len
           /\ \A a \in Actors : a # t => th'[a] = th[a]
           /\ \A n : HalfAt(t, n)' <=> HalfAt(t, n)
<1> USE DEF At, GoTo, Fetch, Fetch2, Advance, OnlyLocal, memory
<1>1. th \in [Actors -> ActorType] /\ t \in Actors
  BY Arguments DEF Working, PointerInv, TypeOK, ActorType
<1>2. CASE InsertLoad(t)
  BY <1>1, <1>2 DEF InsertLoad, InsertFirst, InsertWalk, InsertPred, InsertSucc, ActorType,
     Within, InsertPlaces, HalfAt, HalfIn, HalfOut
<1>3. CASE LookupFirst(t) \/ LookupHit(t) \/ LookupWalk(t) \/ DeleteNext(t) \/ DeleteCheckNext(t)
           \/ DeletePrev(t) \/ DeleteCheckPrev(t)
  BY <1>1, <1>3 DEF LookupFirst, LookupHit, LookupWalk, DeleteNext, DeleteCheckNext,
     DeletePrev, DeleteCheckPrev, ActorType, Within, DeletePlaces, HalfAt, HalfIn, HalfOut
<1>4. CASE UnlinkNext(t) \/ UnlinkPrev(t) \/ UnlinkPrev2(t) \/ UnlinkNext2(t)
  BY <1>1, <1>4 DEF UnlinkNext, UnlinkPrev, UnlinkPrev2, UnlinkNext2, ActorType,
     Within, DeletePlaces, HalfAt, HalfIn, HalfOut
<1>5. QED
  BY <1>2, <1>3, <1>4 DEF DeleteLoad

\* An element that is yet to be inserted is in no list.
LEMMA NotInYet ==
    ASSUME NEW C, Working(C), NEW t \in Threads, th[t].pc = "ins_first"
    PROVE  th[t].i \notin C[SubList(th[t].i)]
<1>1. th[t].pc \in Within /\ th[t].pc \in Inserting
  BY DEF Within, Inserting, InsertPlaces
<1>2. SubList(th[t].i) \in Lists /\ th[t].i \in Nat
  BY <1>1, WithinFacts, NodeFacts DEF Working, PointerInv
<1>3. my_start(t) <= th[t].i /\ th[t].i < my_end(t)
  BY <1>1 DEF Working, PointerInv, PlaceInv, ThreadPlaceInv
<1>4. my_end(t) \in Int
  BY Arguments DEF Working, PointerInv, my_end, my_start
<1>5. th[t].i \in th[t].i .. my_end(t) - 1
  BY <1>2, <1>3, <1>4
<1>6. next[th[t].i] = Wild
  BY <1>5 DEF Working, PointerInv, UnsetInv, UnsetAt
<1>7. QED
  BY <1>2, <1>6, NotFresh DEF Working

LEMMA InsertLoads ==
    ASSUME NEW C, Working(C), NEW t \in Threads, InsertLoad(t)
    PROVE  HandOf(th'[t], next, prev, C[SubList(th[t].i)])
<1> USE DEF At, GoTo, Fetch, Fetch2, Advance, HalfIn
<1>1. PICK l, c, e, n : l = SubList(th[t].i) /\ c = C[l] /\ e = th[t].i /\ n = th[t].cur
  OBVIOUS
<1>2. /\ l \in Lists /\ e \in Elements /\ HeadOf(l) \in c /\ HandOf(th[t], next, prev, c)
      /\ th[t].pc # "ins_succ" => Linked(next, prev, c, {})
      /\ \A m \in c : m \in Nodes /\ next[m] \in c /\ prev[m] \in c
      /\ IsHead(HeadOf(l))
  <2>1. th[t].pc \in Within /\ (th[t].pc # "ins_succ" => th[t].pc \notin HalfIn \cup HalfOut)
    BY DEF InsertLoad, InsertFirst, InsertWalk, InsertPred, InsertSucc, Within, InsertPlaces, HalfOut
  <2>2. QED
    BY <1>1, <2>1, AtWork, NodeFacts DEF Working, PointerInv
<1> USE DEF ActorType, HandOf, Deletes, DeletePlaces
<1>3. th \in [Actors -> ActorType] /\ t \in Actors
  BY Arguments DEF Working, PointerInv, TypeOK
<1>4. CASE InsertFirst(t)
  <2>1. th'[t].pc = "ins_walk" /\ th'[t].cur = next[HeadOf(l)] /\ th'[t].i = e
    BY <1>1, <1>3, <1>4 DEF InsertFirst
  <2>2. e \notin c
    BY <1>1, <1>4, NotInYet DEF InsertFirst
  <2>3. next[HeadOf(l)] \in c /\ prev[next[HeadOf(l)]] = HeadOf(l)
    BY <1>2, <1>4 DEF InsertFirst, Linked
  <2>4. Below(prev[next[HeadOf(l)]], e)
    BY <1>2, <2>3 DEF Below
  <2>5. QED
    BY <1>1, <2>1, <2>2, <2>3, <2>4
<1>5. CASE InsertWalk(t)
  <2>1. th'[t].pc = "ins_walk" /\ th'[t].cur = next[n] /\ th'[t].i = e
    BY <1>1, <1>3, <1>5 DEF InsertWalk
  <2>2. n \in c /\ e \notin c /\ ComesAfter(e, n)
    BY <1>1, <1>2, <1>5 DEF InsertWalk
  <2>3. next[n] \in c /\ prev[next[n]] = n
    BY <1>2, <1>5, <2>2 DEF InsertWalk, Linked
  <2>4. key[e] \in Nat /\ (~IsHead(n) => key[n] \in Nat)
    <3>1. ~IsHead(n) => n \in Elements
      BY <1>2, <2>2, NodeFacts DEF Working, PointerInv
    <3>2. QED
      BY <1>2, <3>1, ArgumentsAssumption DEF Working, PointerInv, TypeOK
  <2>5. Below(n, e)
    BY <2>2, <2>4 DEF ComesAfter, Below
  <2>6. QED
    BY <1>1, <2>1, <2>2, <2>3, <2>5
<1>6. CASE InsertPred(t)
  <2>1. th'[t].pc = "ins_link" /\ th'[t].cur = n /\ th'[t].i = e /\ th'[t].reg = prev[n]
    BY <1>1, <1>3, <1>6 DEF InsertPred
  <2>2. th[t].pc = "ins_pred"
    BY <1>6 DEF InsertPred
  <2>3. QED
    BY <1>1, <1>2, <2>1, <2>2
<1>7. CASE InsertSucc(t)
  <2>1. th'[t].pc = "ins_back" /\ th'[t].i = e /\ th'[t].reg = next[e]
    BY <1>1, <1>3, <1>7 DEF InsertSucc
  <2>2. th[t].pc = "ins_succ"
    BY <1>7 DEF InsertSucc
  <2>3. QED
    BY <1>1, <1>2, <2>1, <2>2
<1>8. QED
  BY <1>4, <1>5, <1>6, <1>7 DEF InsertLoad

\* As long as the key is in the list, a lookup is on the way to it.
LEMMA LookupFirstLoad ==
    ASSUME NEW C, Working(C), NEW t \in Threads, LookupFirst(t),
           NEW x \in Elements, x \in C[SubList(th[t].i)], key[x] = key[th[t].i]
    PROVE  HandOf(th'[t], next, prev, C[SubList(th[t].i)])
<1>1. PICK l, c, e : l = SubList(th[t].i) /\ c = C[l] /\ e = th[t].i
  OBVIOUS
<1>2. th \in [Actors -> ActorType] /\ t \in Actors
  BY Arguments DEF Working, PointerInv, TypeOK, ActorType
<1>3. th[t].pc = "look_first" /\ th[t].pc \in Within
  BY DEF LookupFirst, At, Within, DeletePlaces
<1>4. th'[t].pc = "look_walk" /\ th'[t].cur = next[HeadOf(l)] /\ th'[t].i = e
  BY <1>1, <1>2 DEF LookupFirst, Advance, ActorType
<1>5. l \in Lists /\ HeadOf(l) \in c /\ next[HeadOf(l)] \in c
  BY <1>1, <1>3, AtWork
<1>6. Ahead(next, c, next[HeadOf(l)], e)
  <2>1. SUFFICES ASSUME NEW S \in SUBSET c, next[HeadOf(l)] \in S,
                        \A m \in S : IsHead(m) \/ next[m] \in S
                 PROVE  x \in S
    BY <1>1 DEF Ahead
  <2>2. S = c
    BY <1>1, <1>5, <2>1, AllAround DEF Working
  <2>3. QED
    BY <1>1, <2>2
<1>7. QED
  BY <1>1, <1>4, <1>5, <1>6 DEF HandOf, Deletes, HalfIn, DeletePlaces

LEMMA DeleteLoads ==
    ASSUME NEW C, Working(C), NEW t \in Threads, DeleteLoad(t)
    PROVE  HandOf(th'[t], next, prev, C[SubList(th[t].i)])
<1> USE DEF At, GoTo, Fetch, Fetch2, Advance, HalfIn
<1>1. PICK l, c, e, n : l = SubList(th[t].i) /\ c = C[l] /\ e = th[t].i /\ n = th[t].cur
  OBVIOUS
<1>2. /\ l \in Lists /\ e \in Elements /\ HandOf(th[t], next, prev, c)
      /\ \A m \in c : m \in Nodes /\ next[m] \in c /\ prev[m] \in c
  <2>1. th[t].pc \in Within
    BY LoadMoves
  <2>2. QED
    BY <1>1, <2>1, AtWork
<1> USE DEF ActorType, HandOf, Deletes, DeletePlaces
<1>3. th \in [Actors -> ActorType] /\ t \in Actors
  BY Arguments DEF Working, PointerInv, TypeOK
<1>4. CASE LookupHit(t)
  <2>1. th[t].pc = "look_walk" /\ SameKey(e, n)
    BY <1>1, <1>4 DEF LookupHit
  <2>2. th'[t].pc = "del_next" /\ th'[t].cur = n /\ th'[t].i = e
    BY <1>1, <1>3, <1>4 DEF LookupHit
  <2>3. n \in c /\ n \in Elements /\ key[n] = key[e]
    BY <1>1, <1>2, <2>1, NodeFacts DEF SameKey, Working, PointerInv
  <2>4. QED
    BY <1>1, <2>2, <2>3
<1>5. CASE LookupWalk(t)
  <2>1. th[t].pc = "look_walk" /\ ~IsHead(n) /\ ~SameKey(e, n)
    BY <1>1, <1>5 DEF LookupWalk
  <2>2. th'[t].pc = "look_walk" /\ th'[t].cur = next[n] /\ th'[t].i = e
    BY <1>1, <1>3, <1>5 DEF LookupWalk
  <2>3. n \in c /\ next[n] \in c /\ Ahead(next, c, n, e)
    BY <1>1, <1>2, <2>1
  <2>4. Ahead(next, c, next[n], e)
    <3>1. SUFFICES ASSUME NEW S \in SUBSET c, next[n] \in S,
                          \A m \in S : IsHead(m) \/ next[m] \in S
                   PROVE  \E x \in S \cap Elements : key[x] = key[e]
      BY DEF Ahead
    <3>2. S \cup {n} \in SUBSET c /\ n \in S \cup {n}
      BY <2>3
    <3>3. \A m \in S \cup {n} : IsHead(m) \/ next[m] \in S \cup {n}
      BY <3>1
    <3>4. PICK x \in (S \cup {n}) \cap Elements : key[x] = key[e]
      BY <2>3, <3>2, <3>3 DEF Ahead
    <3>5. x # n
      BY <2>1, <3>4 DEF SameKey
    <3>6. QED
      BY <3>4, <3>5
  <2>5. QED
    BY <1>1, <2>2, <2>3, <2>4
<1>6. CASE DeleteNext(t) \/ DeletePrev(t) \/ UnlinkNext(t) \/ UnlinkPrev2(t)
  <2>1. th'[t].cur = n /\ th'[t].i = e
    BY <1>1, <1>3, <1>6 DEF DeleteNext, DeletePrev, UnlinkNext, UnlinkPrev2
  <2>2. \/ th[t].pc \in {"del_next", "un_next"} /\ th'[t].pc \in {"del_c1", "un_prev"} /\ th'[t].reg = next[n]
        \/ th[t].pc \in {"del_prev", "un_prev2"} /\ th'[t].pc \in {"del_c2", "un_next2"} /\ th'[t].reg = prev[n]
    BY <1>1, <1>3, <1>6 DEF DeleteNext, DeletePrev, UnlinkNext, UnlinkPrev2
  <2>3. n \in c /\ n \in Elements /\ key[n] = key[e]
    BY <1>1, <1>2, <2>2
  <2>4. QED
    BY <1>1, <2>1, <2>2, <2>3
<1>7. CASE UnlinkPrev(t) \/ UnlinkNext2(t)
  <2>1. th'[t].cur = n /\ th'[t].i = e /\ th'[t].reg = th[t].reg
    BY <1>1, <1>3, <1>7 DEF UnlinkPrev, UnlinkNext2
  <2>2. \/ th[t].pc = "un_prev" /\ th'[t].pc = "un_store" /\ th'[t].reg2 = prev[n]
        \/ th[t].pc = "un_next2" /\ th'[t].pc = "un_store2" /\ th'[t].reg2 = next[n]
    BY <1>1, <1>3, <1>7 DEF UnlinkPrev, UnlinkNext2
  <2>3. /\ n \in c /\ n \in Elements /\ key[n] = key[e]
        /\ th[t].pc = "un_prev" => th[t].reg = next[n]
        /\ th[t].pc = "un_next2" => th[t].reg = prev[n]
    BY <1>1, <1>2, <2>2
  <2>4. QED
    BY <1>1, <2>1, <2>2, <2>3
<1>8. CASE DeleteCheckNext(t) \/ DeleteCheckPrev(t)
  <2>1. th'[t].cur = n /\ th'[t].i = e /\ th'[t].pc \in {"del_prev", "un_next"}
    BY <1>1, <1>3, <1>8 DEF DeleteCheckNext, DeleteCheckPrev
  <2>2. th[t].pc \in {"del_c1", "del_c2"}
    BY <1>8 DEF DeleteCheckNext, DeleteCheckPrev
  <2>3. n \in c /\ n \in Elements /\ key[n] = key[e]
    BY <1>1, <1>2, <2>2
  <2>4. QED
    BY <1>1, <2>1, <2>3
<1>9. QED
  BY <1>4, <1>5, <1>6, <1>7, <1>8 DEF DeleteLoad

\* No load but the first of a lookup depends on what is in the list.
LEMMA LoadStep ==
    ASSUME NEW C, Working(C), [Next]_vars, NEW t \in Threads,
           InsertLoad(t) \/ LookupFirst(t) \/ DeleteLoad(t),
           LookupFirst(t) =>
               \E x \in Elements : x \in C[SubList(th[t].i)] /\ key[x] = key[th[t].i]
    PROVE  Stores(C, C)
<1>1. /\ UNCHANGED <<next, prev>>
      /\ th[t].pc \in Within /\ th'[t].pc \in Within
      /\ th'[t].i = th[t].i /\ th'[t].len = th[t].len
      /\ \A a \in Actors : a # t => th'[a] = th[a]
      /\ \A n : HalfAt(t, n)' <=> HalfAt(t, n)
  BY LoadMoves
<1>2. HandOf(th'[t], next, prev, C[SubList(th'[t].i)])
  BY <1>1, InsertLoads, LookupFirstLoad, DeleteLoads
<1>3. Threads' = Threads /\ Threads \subseteq Actors
  BY StepSets, Arguments DEF Working, PointerInv
<1>4. \A n : Half(n)' <=> Half(n)
  <2>1. \A u \in Threads : \A n : HalfAt(u, n)' <=> HalfAt(u, n)
    BY <1>1, <1>3 DEF HalfAt
  <2>2. QED
    BY <1>3, <2>1 DEF Half
<1>5. CountOf(th'[t], next, prev, C)
  <2>1. th'[t].len >= 0
    BY <1>1, <1>3 DEF Working, CountsInv, CountOf
  <2>2. QED
    BY <1>1, <2>1 DEF CountOf, Within, InsertPlaces, DeletePlaces, LengthPlaces
<1>6. \A u \in Threads : th'[u] = th[u] \/ (th'[u].pc \in Within =>
          HandOf(th'[u], next, prev, C[SubList(th'[u].i)]))
  BY <1>1, <1>2, <1>3
<1>7. \A a \in Actors : th'[a] = th[a] \/ CountOf(th'[a], next, prev, C)
  BY <1>1, <1>5
<1>8. QED
  BY <1>1, <1>4, <1>6, <1>7, QuietStep DEF Working, Stores

-----------------------------------------------------------------------------
(* The other steps of a thread, and the counting of the lengths.           *)

TurnMove(t) ==
    \/ Start(t) \/ InsertTurn(t) \/ InsertLock(t) \/ InsertUnlock(t) \/ InsertEnd(t)
    \/ LockNext(t) \/ AllLocked(t) \/ LengthsEnd(t) \/ UnlockNext(t) \/ LengthsGood(t)
    \/ DeleteTurn(t) \/ DeleteLock(t) \/ DeleteUnlock(t) \/ Return(t)

LEMMA TurnStep ==
    ASSUME NEW C, Working(C), [Next]_vars, NEW t \in Threads, TurnMove(t)
    PROVE  Stores(C, C)
<1> USE DEF At, GoTo, GoToNext, GoToFrom, OnlyLocal, memory
<1>1. /\ th \in [Actors -> ActorType] /\ t \in Actors /\ Threads \subseteq Actors
      /\ Threads' = Threads /\ Locked
  BY StepSets, Arguments DEF Working, PointerInv, TypeOK, ActorType
<1>2. /\ UNCHANGED <<next, prev>>
      /\ \A a \in Actors : a # t => th'[a] = th[a]
      /\ th[t].pc \notin HalfIn \cup HalfOut /\ th'[t].pc \notin HalfIn \cup HalfOut
      /\ th'[t].pc \in Within => th'[t].pc \in {"ins_first", "look_first"}
      /\ th'[t].pc \notin LengthPlaces \ {"len_list"}
      /\ th'[t].len = th[t].len
  <2>1. CASE Start(t) \/ InsertTurn(t) \/ InsertLock(t) \/ InsertUnlock(t) \/ InsertEnd(t)
    BY <1>1, <2>1 DEF Start, InsertTurn, InsertLock, InsertUnlock, InsertEnd, ActorType,
       Within, InsertPlaces, DeletePlaces, LengthPlaces, HalfIn, HalfOut
  <2>2. CASE LockNext(t) \/ AllLocked(t) \/ LengthsEnd(t) \/ UnlockNext(t) \/ LengthsGood(t)
    BY <1>1, <2>2 DEF LockNext, AllLocked, LengthsEnd, LengthsDone, UnlockNext, LengthsGood,
       ActorType, Within, InsertPlaces, DeletePlaces, LengthPlaces, HalfIn, HalfOut
  <2>3. CASE DeleteTurn(t) \/ DeleteLock(t) \/ DeleteUnlock(t) \/ Return(t)
    BY <1>1, <2>3 DEF DeleteTurn, DeleteLock, DeleteUnlock, Return, ActorType,
       Within, InsertPlaces, DeletePlaces, LengthPlaces, HalfIn, HalfOut
  <2>4. QED
    BY <2>1, <2>2, <2>3 DEF TurnMove
<1>3. th'[t].pc \in Within => HandOf(th'[t], next, prev, C[SubList(th'[t].i)])
  BY <1>2 DEF HandOf, HalfIn, Deletes, DeletePlaces
<1>4. CountOf(th'[t], next, prev, C)
  <2>1. th'[t].len >= 0
    BY <1>1, <1>2 DEF Working, CountsInv, CountOf
  <2>2. QED
    BY <1>2, <2>1 DEF CountOf, LengthPlaces
<1>5. \A n : Half(n)' <=> Half(n)
  <2>1. \A u \in Threads : \A n : HalfAt(u, n)' <=> HalfAt(u, n)
    BY <1>1, <1>2 DEF HalfAt
  <2>2. QED
    BY <1>1, <2>1 DEF Half
<1>6. \A u \in Threads : th'[u] = th[u] \/ (th'[u].pc \in Within =>
          HandOf(th'[u], next, prev, C[SubList(th'[u].i)]))
  BY <1>1, <1>2, <1>3
<1>7. \A a \in Actors : th'[a] = th[a] \/ CountOf(th'[a], next, prev, C)
  BY <1>2, <1>4
<1>8. QED
  BY <1>2, <1>5, <1>6, <1>7, QuietStep DEF Working, Stores

\* Who counts a list finds it whole: no other thread is at work on it.
LEMMA CountedWhole ==
    ASSUME NEW C, Working(C), NEW a \in Actors, th[a].pc \in LengthPlaces,
           a = Main => \A t \in Threads : th[t].pc = "done",
           NEW l \in Lists
    PROVE  HeadOf(l) \in C[l] /\ Linked(next, prev, C[l], {})
<1>1. ASSUME NEW t \in Threads, lock[l] = t, NEW n PROVE ~HalfAt(t, n)
  <2>1. a = Main \/ a \in Threads
    BY ActorSplit DEF Working, PointerInv
  <2>2. CASE a = Main
    BY <2>2 DEF HalfAt, HalfIn, HalfOut
  <2>3. CASE a \in Threads
    <3>1. lock[l] = a
      BY <2>3, WithinFacts DEF Working
    <3>2. QED
      BY <1>1, <3>1 DEF HalfAt, HalfIn, HalfOut, LengthPlaces
  <2>4. QED
    BY <2>1, <2>2, <2>3
<1>2. QED
  BY <1>1, WholeList DEF Working

LEMMA CountStep ==
    ASSUME NEW C, Working(C), [Next]_vars, NEW a \in Actors, LengthCall(a),
           a = Main => \A t \in Threads : th[t].pc = "done"
    PROVE  Stores(C, C)
<1>1. /\ th \in [Actors -> ActorType] /\ Threads' = Threads /\ Threads \subseteq Actors
      /\ \A b \in Actors : b # a => th'[b] = th[b]
      /\ th[a].pc \in LengthPlaces /\ th'[a].pc \in LengthPlaces
      /\ UNCHANGED <<next, prev>>
  BY StepSets, Arguments, CountingStep DEF Working, PointerInv, TypeOK, ActorType, OnlyLocal, memory
<1>2. PICK l, n : l = th[a].i /\ n = th[a].cur
  OBVIOUS
<1>3. /\ th[a].len >= 0
      /\ th[a].pc \in LengthPlaces \ {"len_list"} => n \in C[l] /\ l \in Lists
      /\ th[a].pc = "len_next" => th[a].reg = next[n]
      /\ th[a].pc = "len_back" => th[a].reg = prev[n]
  BY <1>2, CounterFacts DEF Working, CountsInv, CountOf
<1>4. l \in Lists => HeadOf(l) \in C[l] /\ Linked(next, prev, C[l], {})
  BY <1>1, CountedWhole
<1>5. CountOf(th'[a], next, prev, C)
  <2> USE DEF At, GoTo, GoToNext, Fetch, Compare, CountOf, ActorType
  <2>1. CASE LengthFirst(a)
    <3>1. l \in Lists
      BY <1>1, <1>2, <2>1, Arguments DEF LengthFirst, Lists, Working, PointerInv
    <3>2. th'[a].pc = "len_walk" /\ th'[a].len = 0 /\ th'[a].cur = next[HeadOf(l)] /\ th'[a].i = l
      BY <1>1, <1>2, <2>1 DEF LengthFirst
    <3>3. next[HeadOf(l)] \in C[l]
      BY <1>4, <3>1 DEF Linked
    <3>4. QED
      BY <3>2, <3>3
  <2>2. CASE LengthReturn(a)
    <3>1. th'[a].pc = "len_list" /\ th'[a].len = th[a].len
      BY <1>1, <2>2 DEF LengthReturn
    <3>2. QED
      BY <1>3, <3>1
  <2>3. CASE LengthNext(a)
    <3>1. /\ th'[a].pc = "len_next" /\ th'[a].len = th[a].len /\ th'[a].i = l
          /\ th'[a].cur = n /\ th'[a].reg = next[n] /\ th[a].pc = "len_walk"
      BY <1>1, <1>2, <2>3 DEF LengthNext
    <3>2. QED
      BY <1>3, <3>1 DEF LengthPlaces
  <2>4. CASE LengthPrev(a)
    <3>1. /\ th'[a].pc = "len_back" /\ th'[a].len = th[a].len /\ th'[a].i = l
          /\ th'[a].cur = n /\ th'[a].reg = prev[n] /\ th[a].pc = "len_prev"
      BY <1>1, <1>2, <2>4 DEF LengthPrev
    <3>2. QED
      BY <1>3, <3>1 DEF LengthPlaces
  <2>5. CASE LengthCheckNext(a)
    <3>1. th[a].pc = "len_next" /\ prev[th[a].reg] = n
      BY <1>3, <1>4, <2>5 DEF LengthCheckNext, Linked, LengthPlaces
    <3>2. th'[a].pc = "len_prev" /\ th'[a].len = th[a].len /\ th'[a].i = l /\ th'[a].cur = n
      BY <1>1, <1>2, <2>5, <3>1 DEF LengthCheckNext
    <3>3. QED
      BY <1>3, <3>1, <3>2 DEF LengthPlaces
  <2>6. CASE LengthCheckPrev(a)
    <3>1. th[a].pc = "len_back" /\ next[th[a].reg] = n
      BY <1>3, <1>4, <2>6 DEF LengthCheckPrev, Linked, LengthPlaces
    <3>2. th'[a].pc = "len_step" /\ th'[a].len = th[a].len /\ th'[a].i = l /\ th'[a].cur = n
      BY <1>1, <1>2, <2>6, <3>1 DEF LengthCheckPrev
    <3>3. QED
      BY <1>3, <3>1, <3>2 DEF LengthPlaces
  <2>7. CASE LengthStep(a)
    <3>1. /\ th'[a].pc = "len_walk" /\ th'[a].len = 1 /\ th'[a].i = l
          /\ th'[a].cur = next[n] /\ th[a].pc = "len_step"
      BY <1>1, <1>2, <2>7 DEF LengthStep
    <3>2. next[n] \in C[l]
      BY <1>3, <1>4, <3>1 DEF Linked, LengthPlaces
    <3>3. QED
      BY <3>1, <3>2
  <2>8. QED
    BY <2>1, <2>2, <2>3, <2>4, <2>5, <2>6, <2>7 DEF LengthCall
<1>6. \A m : Half(m)' <=> Half(m)
  <2>1. \A u \in Threads : \A m : HalfAt(u, m)' <=> HalfAt(u, m)
    BY <1>1 DEF HalfAt, HalfIn, HalfOut, LengthPlaces
  <2>2. QED
    BY <1>1, <2>1 DEF Half
<1>7. \A u \in Threads : th'[u] = th[u] \/ (th'[u].pc \in Within =>
          HandOf(th'[u], next, prev, C[SubList(th'[u].i)]))
  BY <1>1 DEF Within, InsertPlaces, DeletePlaces, LengthPlaces
<1>8. \A b \in Actors : th'[b] = th[b] \/ CountOf(th'[b], next, prev, C)
  BY <1>1, <1>5
<1>9. QED
  BY <1>1, <1>6, <1>7, <1>8, QuietStep DEF Working, Stores

-----------------------------------------------------------------------------
(* Which insertions and removals are done.                                 *)

LEMMA Quotients ==
    ASSUME NEW k \in Nat, k > 0
    PROVE  \A m \in Nat : \E q \in Nat : q * k <= m /\ m < q * k + k
<1> DEFINE T == {m \in Nat : \E q \in Nat : q * k <= m /\ m < q * k + k}
<1>1. 0 \in T
  <2>1. 0 * k <= 0 /\ 0 < 0 * k + k
    BY SMT
  <2>2. QED
    BY <2>1
<1>2. ASSUME NEW m \in Nat, m \in T PROVE m + 1 \in T
  <2>1. PICK q \in Nat : q * k <= m /\ m < q * k + k
    BY <1>2
  <2>2. PICK p \in Nat : p = q * k
    OBVIOUS
  <2>3. PICK o \in Nat : o = q + 1 /\ o * k = p + k
    <3>1. (q + 1) * k = p + k /\ q + 1 \in Nat
      BY <2>2, SMT
    <3>2. QED
      BY <3>1
  <2>4. CASE m + 1 < p + k
    BY <2>1, <2>2, <2>4
  <2>5. CASE ~(m + 1 < p + k)
    <3>1. o * k <= m + 1 /\ m + 1 < o * k + k
      BY <2>1, <2>2, <2>3, <2>5
    <3>2. \E j \in Nat : j * k <= m + 1 /\ m + 1 < j * k + k
      BY <3>1, Zenon
    <3>3. QED
      BY <3>2
  <2>6. QED
    BY <2>4, <2>5
<1> HIDE DEF T
<1>3. Nat \subseteq T
  BY <1>1, <1>2, NatSets
<1>4. QED
  BY <1>3 DEF T

Owns(t, e) == my_start(t) <= e /\ e < my_end(t)

\* Each element has its owner.
LEMMA OwnerFacts ==
    ASSUME TypeOK, NEW e \in Elements
    PROVE  Owner(e) \in Threads /\ Owns(Owner(e), e)
<1>1. num_threads \in Nat /\ num_iterations \in Nat /\ e \in Nat /\ e < num_threads * num_iterations
  <2>1. num_threads * num_iterations \in Nat /\ num_threads \in Nat /\ num_iterations \in Nat
    BY Arguments DEF Wild
  <2>2. QED
    BY <2>1 DEF Elements
<1>2. num_iterations > 0
  <2>1. num_threads * 0 = 0
    BY <1>1
  <2>2. QED
    BY <1>1, <2>1
<1>3. PICK q \in Nat : q * num_iterations <= e /\ e < q * num_iterations + num_iterations
  BY <1>1, <1>2, Quotients
<1>4. q < num_threads
  <2>1. SUFFICES ASSUME num_threads <= q PROVE FALSE
    BY <1>1
  <2>2. CASE num_threads = q
    BY <1>1, <1>3, <2>2
  <2>3. CASE num_threads < q
    <3>1. /\ num_threads * num_iterations \in Nat
          /\ num_threads * num_iterations + num_iterations <= q * num_iterations
      BY <1>1, <2>3, Products
    <3>2. q * num_iterations \in Nat
      BY <1>1
    <3>3. QED
      BY <1>1, <1>3, <3>1, <3>2
  <2>4. QED
    BY <1>1, <2>1, <2>2, <2>3
<1>5. q \in Threads /\ my_start(q) <= e /\ e < my_end(q)
  BY <1>1, <1>3, <1>4 DEF Threads, my_start, my_end
<1>6. QED
  BY <1>5 DEF Owner, Owns

\* A thread's index while it has nothing to insert yet, and when it is done.
EndsAt(t) ==
    /\ th[t].pc \in {"unborn", "start"} => th[t].i = 0
    /\ th[t].pc = "done" => th[t].i >= my_end(t)
EndsInv == \A t \in Threads : EndsAt(t)

\* InsertDone and RemoveDone of an element whose owner has record r.
InsertedBy(r, e) ==
    \/ r.i > e
    \/ r.i = e /\ r.pc \in {"ins_succ", "ins_back", "ins_unlock"}
    \/ r.pc \notin InsertPlaces \cup {"unborn", "start", "ins_loop", "ins_lock", "ins_unlock"}
RemovedBy(r, e) ==
    /\ r.pc \in DeletePlaces \cup {"del_loop", "del_lock", "del_unlock", "done"}
    /\ r.i > e \/ (r.i = e /\ r.pc = "del_unlock")

Inserted == {e \in Elements : InsertDone(e)}
Removed == {e \in Elements : RemoveDone(e)}

\* A thread moves one of its elements at a time, with the stores into the next
\* of the predecessor.
LEMMA DoneMoves ==
    ASSUME PointerInv, EndsInv, Locked, [Next]_vars, NEW t \in Threads, ThreadMove(t),
           NEW e \in Elements, Owns(t, e)
    PROVE  /\ InsertedBy(th'[t], e) <=> InsertedBy(th[t], e) \/ (InsertLink(t) /\ e = th[t].i)
           /\ RemovedBy(th'[t], e) <=> RemovedBy(th[t], e) \/ (UnlinkForward(t) /\ e = th[t].i)
           /\ InsertLink(t) => ~InsertedBy(th[t], th[t].i) /\ ~RemovedBy(th[t], th[t].i)
           /\ UnlinkForward(t) => InsertedBy(th[t], th[t].i) /\ ~RemovedBy(th[t], th[t].i)
<1> USE DEF At, GoTo, GoToNext, GoToFrom, Fetch, Fetch2, Advance, ActorType, InsertedBy, RemovedBy,
            InsertPlaces, DeletePlaces
<1>1. /\ th \in [Actors -> ActorType] /\ t \in Actors /\ th[t].i \in Nat /\ e \in Nat
      /\ my_start(t) \in Nat /\ my_end(t) \in Nat /\ my_start(t) <= e /\ e < my_end(t)
      /\ th[t].pc \in {"unborn", "start"} => th[t].i = 0
  <2>1. /\ th \in [Actors -> ActorType] /\ t \in Actors /\ th[t].i \in Nat /\ e \in Nat
        /\ t \in Nat /\ num_iterations \in Nat
    BY Arguments, NodeFacts DEF PointerInv, TypeOK
  <2>2. my_start(t) \in Nat /\ my_end(t) \in Nat
    BY <2>1 DEF my_start, my_end
  <2>3. QED
    BY <2>1, <2>2 DEF Owns, EndsInv, EndsAt
<1>2. CASE Start(t)
  <2>1. th[t].pc = "start" /\ th'[t].pc = "ins_loop" /\ th'[t].i = my_start(t) /\ th[t].i = 0
    BY <1>1, <1>2 DEF Start
  <2>2. ~InsertLink(t) /\ ~UnlinkForward(t)
    BY <2>1 DEF InsertLink, UnlinkForward
  <2>3. QED
    BY <1>1, <2>1, <2>2
<1>3. CASE InsertTurn(t) \/ InsertLock(t) \/ InsertFirst(t) \/ InsertWalk(t) \/ InsertInit(t)
           \/ InsertPred(t)
  <2>1. /\ th[t].pc \in {"ins_loop", "ins_lock", "ins_first", "ins_walk", "ins_pred"}
        /\ th'[t].pc \in {"ins_lock", "ins_first", "ins_walk", "ins_pred", "ins_link"}
        /\ th'[t].i = th[t].i
    BY <1>1, <1>3 DEF InsertTurn, InsertLock, InsertFirst, InsertWalk, InsertInit, InsertPred
  <2>2. ~InsertLink(t) /\ ~UnlinkForward(t)
    BY <2>1 DEF InsertLink, UnlinkForward
  <2>3. QED
    BY <1>1, <2>1, <2>2
<1>4. CASE InsertLink(t)
  <2>1. th[t].pc = "ins_link" /\ th'[t].pc = "ins_succ" /\ th'[t].i = th[t].i
    BY <1>1, <1>4 DEF InsertLink
  <2>2. ~UnlinkForward(t)
    BY <2>1 DEF UnlinkForward
  <2>3. QED
    BY <1>1, <1>4, <2>1, <2>2
<1>5. CASE InsertSucc(t) \/ InsertBack(t) \/ InsertUnlock(t)
  <2>1. \/ /\ th[t].pc \in {"ins_succ", "ins_back"} /\ th'[t].pc \in {"ins_back", "ins_unlock"}
           /\ th'[t].i = th[t].i
        \/ th[t].pc = "ins_unlock" /\ th'[t].pc = "ins_loop" /\ th'[t].i = th[t].i + 1
    BY <1>1, <1>5 DEF InsertSucc, InsertBack, InsertUnlock
  <2>2. ~InsertLink(t) /\ ~UnlinkForward(t)
    BY <2>1 DEF InsertLink, UnlinkForward
  <2>3. QED
    BY <1>1, <2>1, <2>2
<1>6. CASE InsertEnd(t)
  <2>1. /\ th[t].pc = "ins_loop" /\ th[t].i >= my_end(t) /\ th'[t].pc = "len_lock"
    BY <1>1, <1>6 DEF InsertEnd
  <2>2. ~InsertLink(t) /\ ~UnlinkForward(t)
    BY <2>1 DEF InsertLink, UnlinkForward
  <2>3. QED
    BY <1>1, <2>1, <2>2
<1>7. CASE LockNext(t) \/ AllLocked(t) \/ LengthsEnd(t) \/ UnlockNext(t)
  <2>1. /\ th[t].pc \in {"len_lock", "len_list", "len_unlock"}
        /\ th'[t].pc \in {"len_lock", "len_list", "len_unlock"}
    BY <1>1, <1>7 DEF LockNext, AllLocked, LengthsEnd, LengthsDone, UnlockNext
  <2>2. ~InsertLink(t) /\ ~UnlinkForward(t)
    BY <2>1 DEF InsertLink, UnlinkForward
  <2>3. QED
    BY <1>1, <2>1, <2>2
<1>8. CASE LengthsGood(t)
  <2>1. th[t].pc = "len_unlock" /\ th'[t].pc = "del_loop" /\ th'[t].i = my_start(t)
    BY <1>1, <1>8 DEF LengthsGood
  <2>2. ~InsertLink(t) /\ ~UnlinkForward(t)
    BY <2>1 DEF InsertLink, UnlinkForward
  <2>3. QED
    BY <1>1, <2>1, <2>2
<1>9. CASE DeleteTurn(t) \/ DeleteLock(t) \/ LookupFirst(t) \/ LookupHit(t) \/ LookupWalk(t)
           \/ DeleteNext(t) \/ DeleteCheckNext(t) \/ DeletePrev(t) \/ DeleteCheckPrev(t)
           \/ UnlinkNext(t) \/ UnlinkPrev(t) \/ UnlinkBack(t) \/ UnlinkPrev2(t) \/ UnlinkNext2(t)
  <2>1. /\ th[t].pc \in (DeletePlaces \cup {"del_loop", "del_lock"}) \ {"un_store2"}
        /\ th'[t].pc \in DeletePlaces \cup {"del_lock"}
        /\ th'[t].i = th[t].i
    <3>1. CASE DeleteTurn(t) \/ DeleteLock(t) \/ LookupFirst(t) \/ LookupHit(t) \/ LookupWalk(t)
               \/ DeleteNext(t) \/ DeleteCheckNext(t)
      BY <1>1, <3>1 DEF DeleteTurn, DeleteLock, LookupFirst, LookupHit, LookupWalk, DeleteNext,
         DeleteCheckNext
    <3>2. CASE DeletePrev(t) \/ DeleteCheckPrev(t) \/ UnlinkNext(t) \/ UnlinkPrev(t)
               \/ UnlinkBack(t) \/ UnlinkPrev2(t) \/ UnlinkNext2(t)
      BY <1>1, <3>2 DEF DeletePrev, DeleteCheckPrev, UnlinkNext, UnlinkPrev, UnlinkBack,
         UnlinkPrev2, UnlinkNext2
    <3>3. QED
      BY <1>9, <3>1, <3>2
  <2>2. ~InsertLink(t) /\ ~UnlinkForward(t)
    BY <2>1 DEF InsertLink, UnlinkForward
  <2>3. QED
    BY <1>1, <2>1, <2>2
<1>10. CASE UnlinkForward(t)
  <2>1. th[t].pc = "un_store2" /\ th'[t].pc = "del_unlock" /\ th'[t].i = th[t].i
    BY <1>1, <1>10 DEF UnlinkForward
  <2>2. ~InsertLink(t)
    BY <2>1 DEF InsertLink
  <2>3. QED
    BY <1>1, <1>10, <2>1, <2>2
<1>11. CASE DeleteUnlock(t) \/ Return(t)
  <2>1. \/ th[t].pc = "del_unlock" /\ th'[t].pc = "del_loop" /\ th'[t].i = th[t].i + 1
        \/ th[t].pc = "del_loop" /\ th'[t].pc = "done" /\ th'[t].i = th[t].i /\ th[t].i >= my_end(t)
    BY <1>1, <1>11 DEF DeleteUnlock, Return
  <2>2. ~InsertLink(t) /\ ~UnlinkForward(t)
    BY <2>1 DEF InsertLink, UnlinkForward
  <2>3. QED
    BY <1>1, <2>1, <2>2
<1>12. QED
  BY <1>2, <1>3, <1>4, <1>5, <1>6, <1>7, <1>8, <1>9, <1>10, <1>11 DEF ThreadMove

LEMMA EndsMoves ==
    ASSUME PointerInv, EndsInv, [Next]_vars, NEW t \in Threads, ThreadMove(t)
    PROVE  EndsAt(t)'
<1> USE DEF At, GoTo, GoToNext, GoToFrom, Fetch, Fetch2, Advance, ActorType
<1>1. th \in [Actors -> ActorType] /\ t \in Actors /\ my_end(t)' = my_end(t)
  BY StepSets, Arguments DEF PointerInv, TypeOK, my_start, my_end
<1>2. \/ th'[t].pc \notin {"unborn", "start", "done"}
      \/ th'[t].pc = "done" /\ th'[t].i >= my_end(t)
  <2>1. CASE Start(t) \/ InsertTurn(t) \/ InsertLock(t) \/ InsertFirst(t) \/ InsertWalk(t)
             \/ InsertInit(t) \/ InsertPred(t) \/ InsertLink(t) \/ InsertSucc(t) \/ InsertBack(t)
             \/ InsertUnlock(t) \/ InsertEnd(t)
    BY <1>1, <2>1 DEF Start, InsertTurn, InsertLock, InsertFirst, InsertWalk, InsertInit,
       InsertPred, InsertLink, InsertSucc, InsertBack, InsertUnlock, InsertEnd
  <2>2. CASE LockNext(t) \/ AllLocked(t) \/ LengthsEnd(t) \/ UnlockNext(t) \/ LengthsGood(t)
             \/ DeleteTurn(t) \/ DeleteLock(t) \/ LookupFirst(t) \/ LookupHit(t) \/ LookupWalk(t)
    BY <1>1, <2>2 DEF LockNext, AllLocked, LengthsEnd, LengthsDone, UnlockNext, LengthsGood,
       DeleteTurn, DeleteLock, LookupFirst, LookupHit, LookupWalk
  <2>3. CASE DeleteNext(t) \/ DeleteCheckNext(t) \/ DeletePrev(t) \/ DeleteCheckPrev(t)
             \/ UnlinkNext(t) \/ UnlinkPrev(t) \/ UnlinkBack(t) \/ UnlinkPrev2(t) \/ UnlinkNext2(t)
             \/ UnlinkForward(t) \/ DeleteUnlock(t)
    BY <1>1, <2>3 DEF DeleteNext, DeleteCheckNext, DeletePrev, DeleteCheckPrev, UnlinkNext,
       UnlinkPrev, UnlinkBack, UnlinkPrev2, UnlinkNext2, UnlinkForward, DeleteUnlock
  <2>4. CASE Return(t)
    BY <1>1, <2>4 DEF Return
  <2>5. QED
    BY <2>1, <2>2, <2>3, <2>4 DEF ThreadMove
<1>3. QED
  BY <1>1, <1>2 DEF EndsAt

-----------------------------------------------------------------------------
(* What a step does to the bag: nothing, one insertion or one removal.     *)

BagMove(C, D) ==
    \/ D = C /\ Inserted' = Inserted /\ Removed' = Removed
    \/ \E e \in Elements :
          /\ e \notin Inserted /\ e \notin Removed /\ e \notin C[SubList(e)]
          /\ D = [C EXCEPT ![SubList(e)] = C[SubList(e)] \cup {e}]
          /\ Inserted' = Inserted \cup {e} /\ Removed' = Removed
    \/ \E e, x \in Elements :
          /\ e \in Inserted /\ e \notin Removed
          /\ key[x] = key[e] /\ x \in C[SubList(x)]
          /\ D = [C EXCEPT ![SubList(x)] = C[SubList(x)] \ {x}]
          /\ Inserted' = Inserted /\ Removed' = Removed \cup {e}

LEMMA OwnerStays ==
    ASSUME [Next]_vars
    PROVE  \A e : Owner(e)' = Owner(e)
<1>1. Threads' = Threads /\ \A t : my_start(t)' = my_start(t) /\ my_end(t)' = my_end(t)
  BY StepSets DEF my_start, my_end
<1>2. QED
  BY <1>1 DEF Owner

LEMMA DoneByOwner ==
    ASSUME [Next]_vars, NEW e
    PROVE  /\ InsertDone(e) <=> InsertedBy(th[Owner(e)], e)
           /\ RemoveDone(e) <=> RemovedBy(th[Owner(e)], e)
           /\ InsertDone(e)' <=> InsertedBy(th'[Owner(e)], e)
           /\ RemoveDone(e)' <=> RemovedBy(th'[Owner(e)], e)
<1>1. PICK t : t = Owner(e)
  OBVIOUS
<1>2. Owner(e)' = t
  BY <1>1, OwnerStays
<1>3. InsertDone(e)' <=> InsertedBy(th'[t], e)
  BY <1>2 DEF InsertDone, InsertedBy
<1>4. RemoveDone(e)' <=> RemovedBy(th'[t], e)
  BY <1>2 DEF RemoveDone, RemovedBy
<1>5. QED
  BY <1>1, <1>3, <1>4 DEF InsertDone, RemoveDone, InsertedBy, RemovedBy

LEMMA DoneStays ==
    ASSUME PointerInv, [Next]_vars,
           \A u \in Threads : \A e \in Elements : Owns(u, e) =>
               /\ InsertedBy(th'[u], e) <=> InsertedBy(th[u], e)
               /\ RemovedBy(th'[u], e) <=> RemovedBy(th[u], e)
    PROVE  Inserted' = Inserted /\ Removed' = Removed
<1>1. \A e \in Elements : (InsertDone(e)' <=> InsertDone(e)) /\ (RemoveDone(e)' <=> RemoveDone(e))
  BY DoneByOwner, OwnerFacts DEF PointerInv
<1>2. Elements' = Elements
  BY StepSets
<1>3. QED
  BY <1>1, <1>2 DEF Inserted, Removed

LEMMA DoneStep ==
    ASSUME PointerInv, EndsInv, Locked, [Next]_vars, NEW t \in Threads, ThreadMove(t)
    PROVE  /\ InsertLink(t) => /\ th[t].i \notin Inserted /\ th[t].i \notin Removed
                               /\ Inserted' = Inserted \cup {th[t].i} /\ Removed' = Removed
           /\ UnlinkForward(t) => /\ th[t].i \in Inserted /\ th[t].i \notin Removed
                                  /\ Inserted' = Inserted /\ Removed' = Removed \cup {th[t].i}
           /\ ~InsertLink(t) /\ ~UnlinkForward(t) => Inserted' = Inserted /\ Removed' = Removed
<1>1. /\ Elements' = Elements /\ Threads \subseteq Actors
      /\ \A a \in Actors : a # t => th'[a] = th[a]
  BY StepSets, ThreadMoves, Arguments DEF PointerInv
<1>2. ASSUME InsertLink(t) \/ UnlinkForward(t)
      PROVE  th[t].i \in Elements /\ Owns(t, th[t].i) /\ Owner(th[t].i) = t
  <2>1. th[t].pc \in Inserting \cup Deleting
    BY <1>2 DEF InsertLink, UnlinkForward, At, Inserting, Deleting, InsertPlaces, DeletePlaces
  <2>2. th[t].i \in Elements /\ Owns(t, th[t].i)
    BY <2>1, ThreadFacts DEF Owns, PointerInv, PlaceInv, ThreadPlaceInv
  <2>3. th[t].i \in Int
    BY <2>2, NodeFacts DEF PointerInv
  <2>4. QED
    BY <2>2, <2>3, OwnerFacts, OneOwner DEF Owns, PointerInv
<1>3. ASSUME NEW e \in Elements
      PROVE  /\ InsertDone(e)' <=> InsertDone(e) \/ (InsertLink(t) /\ e = th[t].i)
             /\ RemoveDone(e)' <=> RemoveDone(e) \/ (UnlinkForward(t) /\ e = th[t].i)
  <2>1. Owner(e) \in Threads /\ Owns(Owner(e), e)
    BY OwnerFacts DEF PointerInv
  <2>2. CASE Owner(e) = t
    BY <2>1, <2>2, DoneByOwner, DoneMoves
  <2>3. CASE Owner(e) # t
    <3>1. th'[Owner(e)] = th[Owner(e)]
      BY <1>1, <2>1, <2>3
    <3>2. ~(InsertLink(t) /\ e = th[t].i) /\ ~(UnlinkForward(t) /\ e = th[t].i)
      BY <1>2, <2>3
    <3>3. QED
      BY <3>1, <3>2, DoneByOwner
  <2>4. QED
    BY <2>2, <2>3
<1>4. CASE InsertLink(t)
  <2>1. ~InsertDone(th[t].i) /\ ~RemoveDone(th[t].i)
    BY <1>2, <1>4, DoneByOwner, DoneMoves
  <2>2. ~UnlinkForward(t)
    BY <1>4 DEF InsertLink, UnlinkForward, At
  <2>3. QED
    BY <1>1, <1>2, <1>3, <1>4, <2>1, <2>2 DEF Inserted, Removed
<1>5. CASE UnlinkForward(t)
  <2>1. InsertDone(th[t].i) /\ ~RemoveDone(th[t].i)
    BY <1>2, <1>5, DoneByOwner, DoneMoves
  <2>2. ~InsertLink(t)
    BY <1>5 DEF InsertLink, UnlinkForward, At
  <2>3. QED
    BY <1>1, <1>2, <1>3, <1>5, <2>1, <2>2 DEF Inserted, Removed
<1>6. CASE ~InsertLink(t) /\ ~UnlinkForward(t)
  BY <1>1, <1>3, <1>6 DEF Inserted, Removed
<1>7. QED
  BY <1>4, <1>5, <1>6

LEMMA FiniteElements ==
    ASSUME TypeOK, NEW S \in SUBSET Elements
    PROVE  IsFiniteSet(S) /\ Cardinality(S) \in Nat
<1>1. Wild \in Nat /\ Elements = 0 .. Wild - 1
  BY Arguments DEF Elements, Wild
<1>2. IsFiniteSet(Elements)
  BY <1>1, FS_Interval
<1>3. QED
  BY <1>2, FS_Subset, FS_CardinalityType

\* The numbers of pending and of present elements of a key change together.
LEMMA MatchedStep ==
    ASSUME PointerInv, [Next]_vars, NEW C \in [Lists -> SUBSET Nodes], Matched(C),
           NEW D, BagMove(C, D)
    PROVE  Matched(D)'
<1>1. /\ Elements' = Elements /\ key' = key /\ Lists' = Lists /\ \A e : SubList(e)' = SubList(e)
      /\ \A e \in Elements : SubList(e) \in Lists
  BY StepSets, SameNodes, NodeFacts DEF PointerInv
<1>2. ASSUME NEW k \in Keys PROVE Cardinality(PendingOf(k)') = Cardinality(PresentOf(D, k)')
  <2> DEFINE p == {e \in Elements : key[e] = k /\ e \in Inserted /\ e \notin Removed}
             q == {e \in Elements : key[e] = k /\ e \in C[SubList(e)]}
             p2 == {e \in Elements : key[e] = k /\ e \in Inserted' /\ e \notin Removed'}
             q2 == {e \in Elements : key[e] = k /\ e \in D[SubList(e)]}
  <2>1. PendingOf(k) = p /\ PresentOf(C, k) = q
    BY DEF PendingOf, PresentOf, Pending, Inserted, Removed
  <2>2. PendingOf(k)' = p2
    BY <1>1 DEF PendingOf, Pending, Inserted, Removed
  <2>3. PresentOf(D, k)' = q2
    BY <1>1 DEF PresentOf
  <2>4. Cardinality(p) = Cardinality(q)
    BY <2>1 DEF Matched
  <2>5. /\ IsFiniteSet(p) /\ IsFiniteSet(q) /\ IsFiniteSet(p2) /\ IsFiniteSet(q2)
        /\ Cardinality(p) \in Nat /\ Cardinality(p2) \in Nat /\ Cardinality(q2) \in Nat
    <3>1. p \subseteq Elements /\ q \subseteq Elements /\ p2 \subseteq Elements /\ q2 \subseteq Elements
      OBVIOUS
    <3> HIDE DEF p, q, p2, q2
    <3>2. QED
      BY <3>1, FiniteElements DEF PointerInv
  <2>6. CASE D = C /\ Inserted' = Inserted /\ Removed' = Removed
    BY <2>2, <2>3, <2>4, <2>6
  <2>7. ASSUME NEW e \in Elements,
               e \notin Inserted, e \notin Removed, e \notin C[SubList(e)],
               D = [C EXCEPT ![SubList(e)] = C[SubList(e)] \cup {e}],
               Inserted' = Inserted \cup {e}, Removed' = Removed
        PROVE  Cardinality(p2) = Cardinality(q2)
    <3>1. \A l \in Lists : D[l] = IF l = SubList(e) THEN C[l] \cup {e} ELSE C[l]
      BY <1>1, <2>7
    <3>2. CASE key[e] = k
      <4>1. p2 = p \cup {e} /\ e \notin p
        BY <2>7, <3>2
      <4>2. q2 = q \cup {e} /\ e \notin q
        BY <1>1, <2>7, <3>1, <3>2
      <4> HIDE DEF p, q, p2, q2
      <4>3. QED
        BY <2>4, <2>5, <4>1, <4>2, FS_AddElement
    <3>3. CASE key[e] # k
      <4>1. p2 = p /\ q2 = q
        BY <1>1, <2>7, <3>1, <3>3
      <4>2. QED
        BY <2>4, <4>1
    <3>4. QED
      BY <3>2, <3>3
  <2>8. ASSUME NEW e \in Elements, NEW x \in Elements,
               e \in Inserted, e \notin Removed, key[x] = key[e], x \in C[SubList(x)],
               D = [C EXCEPT ![SubList(x)] = C[SubList(x)] \ {x}],
               Inserted' = Inserted, Removed' = Removed \cup {e}
        PROVE  Cardinality(p2) = Cardinality(q2)
    <3>1. \A l \in Lists : D[l] = IF l = SubList(x) THEN C[l] \ {x} ELSE C[l]
      BY <1>1, <2>8
    <3>2. CASE key[e] = k
      <4>1. p2 = p \ {e} /\ e \in p
        BY <2>8, <3>2
      <4>2. q2 = q \ {x} /\ x \in q
        BY <1>1, <2>8, <3>1, <3>2
      <4> HIDE DEF p, q, p2, q2
      <4>3. QED
        BY <2>4, <2>5, <4>1, <4>2, FS_RemoveElement
    <3>3. CASE key[e] # k
      <4>1. p2 = p /\ q2 = q
        BY <1>1, <2>8, <3>1, <3>3
      <4>2. QED
        BY <2>4, <4>1
    <3>4. QED
      BY <3>2, <3>3
  <2>9. Cardinality(p2) = Cardinality(q2)
    <3> HIDE DEF p, q, p2, q2
    <3>1. D = C /\ Inserted' = Inserted /\ Removed' = Removed => Cardinality(p2) = Cardinality(q2)
      BY <2>6, <2>2, <2>3
    <3>2. QED
      BY <2>7, <2>8, <3>1 DEF BagMove
  <2>10. QED
    BY <2>2, <2>3, <2>9
<1>3. QED
  BY <1>2 DEF Matched

-----------------------------------------------------------------------------
(* Lookups find their key, and in the end the lists are empty.             *)

LEMMA NoneOrSome ==
    ASSUME TypeOK, NEW S \in SUBSET Elements, NEW R \in SUBSET Elements,
           Cardinality(S) = Cardinality(R)
    PROVE  S = {} <=> R = {}
<1>1. IsFiniteSet(S) /\ IsFiniteSet(R)
  BY FiniteElements
<1>2. QED
  BY <1>1, FS_EmptySet

\* Threads may delete each other's elements, but never the last one of a key
\* that somebody has yet to look up.
LEMMA KeyThere ==
    ASSUME NEW C, Working(C), Matched(C), NEW t \in Threads, th[t].pc = "look_first"
    PROVE  \E x \in Elements : x \in C[SubList(th[t].i)] /\ key[x] = key[th[t].i]
<1>1. PICK e : e = th[t].i
  OBVIOUS
<1>2. /\ e \in Elements /\ e \in Int /\ key[e] \in Keys
      /\ my_start(t) <= e /\ e < my_end(t) /\ TypeOK
  <2>1. th[t].pc \in Deleting
    BY DEF Deleting, DeletePlaces
  <2>2. QED
    BY <1>1, <2>1, ThreadFacts, NodeFacts DEF Working, PointerInv, PlaceInv, ThreadPlaceInv, TypeOK
<1>3. Owner(e) = t
  BY <1>2, OwnerFacts, OneOwner DEF Owns
<1>4. Pending(e)
  <2>1. InsertDone(e)
    BY <1>3 DEF InsertDone, InsertPlaces
  <2>2. ~RemoveDone(e)
    BY <1>1, <1>2, <1>3 DEF RemoveDone
  <2>3. QED
    BY <2>1, <2>2 DEF Pending
<1>5. PendingOf(key[e]) # {}
  BY <1>2, <1>4 DEF PendingOf
<1>6. PresentOf(C, key[e]) # {}
  <2>1. /\ PendingOf(key[e]) \in SUBSET Elements /\ PresentOf(C, key[e]) \in SUBSET Elements
        /\ Cardinality(PendingOf(key[e])) = Cardinality(PresentOf(C, key[e]))
    BY <1>2 DEF Matched, PendingOf, PresentOf
  <2>2. QED
    BY <1>2, <1>5, <2>1, NoneOrSome
<1>7. PICK x \in Elements : key[x] = key[e] /\ x \in C[SubList(x)]
  BY <1>6 DEF PresentOf
<1>8. SubList(x) = SubList(e)
  BY <1>7 DEF SubList
<1>9. QED
  BY <1>1, <1>7, <1>8

LEMMA EmptyLists ==
    ASSUME NEW C, Working(C), Matched(C), EndsInv, \A t \in Threads : th[t].pc = "done",
           NEW l \in Lists
    PROVE  C[l] = {HeadOf(l)}
<1>1. TypeOK
  BY DEF Working, PointerInv
<1>2. ASSUME NEW e \in Elements PROVE RemoveDone(e)
  <2>1. PICK t \in Threads : t = Owner(e) /\ e < my_end(t)
    BY <1>1, OwnerFacts DEF Owns
  <2>2. th[t].pc = "done" /\ th[t].i >= my_end(t)
    BY DEF EndsInv, EndsAt
  <2>3. th[t].i \in Nat /\ my_end(t) \in Nat /\ e \in Nat
    <3>1. th[t].i \in Nat /\ t \in Nat /\ num_iterations \in Nat
      BY <1>1, Arguments DEF TypeOK
    <3>2. QED
      BY <1>1, <3>1, NodeFacts DEF my_end, my_start
  <2>4. th[t].i > e
    BY <2>1, <2>2, <2>3
  <2>5. QED
    BY <2>1, <2>2, <2>4 DEF RemoveDone
<1>3. ASSUME NEW e \in Elements PROVE e \notin C[SubList(e)]
  <2>1. key[e] \in Keys /\ PendingOf(key[e]) = {}
    BY <1>1, <1>2 DEF TypeOK, PendingOf, Pending
  <2>2. /\ PendingOf(key[e]) \in SUBSET Elements /\ PresentOf(C, key[e]) \in SUBSET Elements
        /\ Cardinality(PendingOf(key[e])) = Cardinality(PresentOf(C, key[e]))
    BY <2>1 DEF Matched, PendingOf, PresentOf
  <2>3. PresentOf(C, key[e]) = {}
    BY <1>1, <2>1, <2>2, NoneOrSome
  <2>4. QED
    BY <2>3 DEF PresentOf
<1>4. C[l] \subseteq NodesOf(l) /\ HeadOf(l) \in C[l]
  BY DEF Working, ListsInv, SoundAt
<1>5. QED
  BY <1>3, <1>4 DEF NodesOf

-----------------------------------------------------------------------------
(* main joins the threads before it counts, and finds the lists empty; or  *)
(* it could not create a thread.                                           *)

MainSync ==
    /\ th[Main].len = 0
    /\ th[Main].pc = "join" => \A t \in Threads : t < th[Main].i => th[t].pc = "done"
    /\ th[Main].pc \in LengthPlaces =>
          /\ th[Main].pc \in {"len_list", "len_walk"}
          /\ \A t \in Threads : th[t].pc = "done"
    /\ th[Main].pc = "exit" => freed /\ \E t \in Threads : th[t].pc = "unborn"
    /\ freed => status = "exit0" \/ th[Main].pc = "exit"

\* What the process may have ended of.
StatusInv ==
    /\ status \in {"exit1", "exit2", "abort"} => th[Main].pc = "exit"
    /\ status = "SIGFPE" => my_ops = 0

SyncWith(C) == Working(C) /\ Matched(C) /\ EndsInv /\ MainSync /\ StatusInv

\* A step keeps all that, with D the nodes of the lists after it.
Keeps(C, D) ==
    Stores(C, D) /\ BagMove(C, D) /\ EndsInv' /\ MainSync' /\ StatusInv'

LEMMA EndsStay ==
    ASSUME PointerInv, EndsInv, [Next]_vars,
           \A t \in Threads : th'[t] = th[t] \/ EndsAt(t)'
    PROVE  EndsInv'
<1>1. Threads' = Threads /\ \A t : my_end(t)' = my_end(t)
  BY StepSets DEF my_end, my_start
<1>2. \A t \in Threads : th'[t] = th[t] => EndsAt(t)'
  BY <1>1 DEF EndsInv, EndsAt
<1>3. QED
  BY <1>1, <1>2 DEF EndsInv

LEMMA MainStays ==
    ASSUME PointerInv, [Next]_vars, MainSync, StatusInv,
           th'[Main] = th[Main], UNCHANGED <<freed, status>>,
           \A t \in Threads : th[t].pc \in {"unborn", "done"} => th'[t] = th[t]
    PROVE  MainSync' /\ StatusInv'
<1>1. Main' = Main /\ Threads' = Threads /\ my_ops' = my_ops
  BY StepSets DEF my_ops
<1>2. QED
  BY <1>1 DEF MainSync, StatusInv

LEMMA OneStore ==
    ASSUME NEW t, InsertLink(t) \/ UnlinkForward(t)
    PROVE  ~(InsertLink(t) /\ UnlinkForward(t))
BY DEF InsertLink, UnlinkForward, At

LEMMA ThreadStep ==
    ASSUME NEW C, SyncWith(C), [Next]_vars, NEW t \in Threads, ThreadMove(t)
    PROVE  \E D : Keeps(C, D)
<1>1. /\ Working(C) /\ Matched(C) /\ EndsInv /\ MainSync /\ StatusInv /\ PointerInv /\ Locked
      /\ C \in [Lists -> SUBSET Nodes]
  BY DEF SyncWith, Working
<1>2. /\ Threads' = Threads /\ Main \in Actors /\ Main \notin Threads /\ Threads \subseteq Actors
      /\ \A a \in Actors : a # t => th'[a] = th[a]
      /\ th[t].pc \notin {"unborn", "done"}
      /\ UNCHANGED <<freed, status>>
  BY <1>1, StepSets, Arguments, ThreadMoves, ThreadTypes DEF PointerInv
<1>3. th[Main].pc \notin LengthPlaces
  BY <1>1, <1>2 DEF MainSync
<1>4. EndsInv'
  BY <1>1, <1>2, EndsMoves, EndsStay
<1>5. MainSync' /\ StatusInv'
  BY <1>1, <1>2, MainStays
<1>6. SUFFICES \E D : Stores(C, D) /\ BagMove(C, D)
  BY <1>4, <1>5 DEF Keeps
<1>7. CASE InsertLink(t)
  <2>1. PICK e, l : e = th[t].i /\ l = SubList(e)
    OBVIOUS
  <2>2. /\ e \in Elements /\ e \notin C[l]
        /\ Stores(C, [C EXCEPT ![l] = C[l] \cup {e}])
    BY <1>1, <1>3, <1>7, <2>1, InsertLinkStep
  <2>3. e \notin Inserted /\ e \notin Removed /\ Inserted' = Inserted \cup {e} /\ Removed' = Removed
    BY <1>1, <1>7, <2>1, DoneStep
  <2>4. BagMove(C, [C EXCEPT ![l] = C[l] \cup {e}])
    BY <2>1, <2>2, <2>3 DEF BagMove
  <2>5. QED
    BY <2>2, <2>4
<1>8. CASE UnlinkForward(t)
  <2>1. PICK e, l, x : e = th[t].i /\ l = SubList(e) /\ x = th[t].cur
    OBVIOUS
  <2>2. /\ x \in C[l] /\ x \in Elements /\ key[x] = key[e]
        /\ Stores(C, [C EXCEPT ![l] = C[l] \ {x}])
    BY <1>1, <1>3, <1>8, <2>1, UnlinkForwardStep
  <2>3. e \in Inserted /\ e \notin Removed /\ Inserted' = Inserted /\ Removed' = Removed \cup {e}
    BY <1>1, <1>8, <2>1, DoneStep
  <2>4. e \in Elements /\ SubList(x) = l
    BY <2>1, <2>2, <2>3 DEF Inserted, SubList
  <2>5. BagMove(C, [C EXCEPT ![l] = C[l] \ {x}])
    BY <2>2, <2>3, <2>4 DEF BagMove
  <2>6. QED
    BY <2>2, <2>5
<1>9. CASE ~InsertLink(t) /\ ~UnlinkForward(t)
  <2>1. BagMove(C, C)
    BY <1>1, <1>9, DoneStep DEF BagMove
  <2>2. Stores(C, C)
    <3>1. CASE InsertInit(t) \/ InsertBack(t) \/ UnlinkBack(t)
      BY <1>1, <1>3, <3>1, InsertInitStep, InsertBackStep, UnlinkBackStep
    <3>2. CASE InsertLoad(t) \/ LookupFirst(t) \/ DeleteLoad(t)
      <4>1. LookupFirst(t) =>
                \E x \in Elements : x \in C[SubList(th[t].i)] /\ key[x] = key[th[t].i]
        BY <1>1, KeyThere DEF LookupFirst, At
      <4>2. QED
        BY <1>1, <3>2, <4>1, LoadStep
    <3>3. CASE TurnMove(t)
      BY <1>1, <3>3, TurnStep
    <3>4. QED
      BY <1>9, <3>1, <3>2, <3>3 DEF ThreadMove, InsertLoad, DeleteLoad, TurnMove
  <2>3. QED
    BY <2>1, <2>2
<1>10. QED
  BY <1>7, <1>8, <1>9

\* A step that moves no element and writes to no link.
LEMMA StillStep ==
    ASSUME NEW C, SyncWith(C), [Next]_vars, UNCHANGED <<next, prev>>,
           \A t \in Threads : \/ th'[t] = th[t]
                              \/ /\ th[t].pc = "unborn" /\ th'[t].pc = "start"
                                 /\ th'[t].i = th[t].i /\ th'[t].len = th[t].len,
           th'[Main] = th[Main] \/ CountOf(th'[Main], next, prev, C)
    PROVE  Stores(C, C) /\ BagMove(C, C) /\ EndsInv'
<1>1. /\ Working(C) /\ EndsInv /\ PointerInv /\ C \in [Lists -> SUBSET Nodes]
      /\ ListsInv(C) /\ HandsInv(C) /\ CountsInv(C)
      /\ Threads' = Threads /\ \A a \in Actors : a = Main \/ a \in Threads
      /\ Threads \subseteq Actors
  BY StepSets, ActorSplit, Arguments DEF SyncWith, Working, PointerInv
<1>2. \A n : Half(n)' <=> Half(n)
  <2>1. \A u \in Threads : \A n : HalfAt(u, n)' <=> HalfAt(u, n)
    BY DEF HalfAt, HalfIn, HalfOut
  <2>2. QED
    BY <1>1, <2>1 DEF Half
<1>3. \A u \in Threads : th'[u] = th[u] \/ (th'[u].pc \in Within =>
          HandOf(th'[u], next, prev, C[SubList(th'[u].i)]))
  BY DEF Within, InsertPlaces, DeletePlaces
<1>4. \A t \in Threads : th[t].len >= 0
  BY <1>1 DEF CountsInv, CountOf
<1>5. \A t \in Threads : th'[t] = th[t] \/ CountOf(th'[t], next, prev, C)
  BY <1>4 DEF CountOf, LengthPlaces
<1>6. \A a \in Actors : th'[a] = th[a] \/ CountOf(th'[a], next, prev, C)
  BY <1>1, <1>5
<1>7. Stores(C, C)
  BY <1>1, <1>2, <1>3, <1>6, QuietStep DEF Stores
<1>8. Inserted' = Inserted /\ Removed' = Removed
  <2>1. \A u \in Threads : \A e \in Elements : Owns(u, e) =>
            /\ InsertedBy(th'[u], e) <=> InsertedBy(th[u], e)
            /\ RemovedBy(th'[u], e) <=> RemovedBy(th[u], e)
    BY DEF InsertedBy, RemovedBy, InsertPlaces, DeletePlaces
  <2>2. QED
    BY <1>1, <2>1, DoneStays
<1>9. EndsInv'
  <2>1. \A t \in Threads : th'[t] = th[t] \/ EndsAt(t)'
    BY <1>1 DEF EndsInv, EndsAt
  <2>2. QED
    BY <1>1, <2>1, EndsStay
<1>10. QED
  BY <1>7, <1>8, <1>9 DEF BagMove

\* Counting moves no element; main counts empty lists.
LEMMA CountsStep ==
    ASSUME NEW C, SyncWith(C), [Next]_vars, NEW a \in Actors, LengthCall(a)
    PROVE  Keeps(C, C)
<1>1. /\ Working(C) /\ Matched(C) /\ EndsInv /\ MainSync /\ StatusInv /\ PointerInv
      /\ Threads' = Threads /\ Main' = Main /\ Threads \subseteq Actors
      /\ Main \in Actors /\ Main \notin Threads
  BY StepSets, Arguments DEF SyncWith, Working, PointerInv
<1>2. /\ th \in [Actors -> ActorType]
      /\ \A b \in Actors : b # a => th'[b] = th[b]
      /\ th[a].pc \in LengthPlaces /\ th'[a].pc \in LengthPlaces
      /\ UNCHANGED <<next, prev, freed, status>>
  BY <1>1, CountingStep DEF PointerInv, TypeOK, ActorType, OnlyLocal, memory, process
<1>3. a = Main => \A t \in Threads : th[t].pc = "done"
  BY <1>1, <1>2 DEF MainSync
<1>4. Stores(C, C)
  BY <1>1, <1>3, CountStep
<1>5. BagMove(C, C)
  <2>1. \A u \in Threads : \A e \in Elements : Owns(u, e) =>
            /\ InsertedBy(th'[u], e) <=> InsertedBy(th[u], e)
            /\ RemovedBy(th'[u], e) <=> RemovedBy(th[u], e)
    BY <1>1, <1>2 DEF InsertedBy, RemovedBy, InsertPlaces, DeletePlaces, LengthPlaces
  <2>2. QED
    BY <1>1, <2>1, DoneStays DEF BagMove
<1>6. EndsInv'
  <2>1. \A t \in Threads : th'[t] = th[t] \/ EndsAt(t)'
    BY <1>1, <1>2 DEF EndsAt, LengthPlaces
  <2>2. QED
    BY <1>1, <2>1, EndsStay
<1>7. MainSync' /\ StatusInv'
  <2>1. CASE a # Main
    <3>1. th[a].pc \notin {"unborn", "done"}
      BY <1>2 DEF LengthPlaces
    <3>2. \A t \in Threads : th[t].pc \in {"unborn", "done"} => th'[t] = th[t]
      BY <1>1, <1>2, <3>1
    <3>3. QED
      BY <1>1, <1>2, <2>1, <3>2, MainStays
  <2>2. CASE a = Main
    <3> USE DEF At, GoTo, GoToNext, Fetch, ActorType
    <3>1. \A t \in Threads : th'[t] = th[t] /\ th[t].pc = "done"
      BY <1>1, <1>2, <1>3, <2>2
    <3>2. th[a].pc \in {"len_list", "len_walk"} /\ th[a].len = 0
      BY <1>1, <1>2, <2>2 DEF MainSync
    <3>3. th'[a].pc \in {"len_list", "len_walk"} /\ th'[a].len = 0
      <4>1. CASE LengthFirst(a)
        BY <1>2, <4>1 DEF LengthFirst
      <4>2. CASE LengthReturn(a)
        BY <1>2, <3>2, <4>2 DEF LengthReturn
      <4>3. CASE LengthNext(a)
        <5>1. PICK l : l = th[a].i
          OBVIOUS
        <5>2. l \in Lists /\ th[a].cur \in C[l]
          BY <1>1, <4>3, <5>1, CounterFacts DEF LengthNext, LengthPlaces, Working, CountsInv, CountOf
        <5>3. C[l] = {HeadOf(l)}
          BY <1>1, <3>1, <5>2, EmptyLists
        <5>4. QED
          BY <4>3, <5>1, <5>2, <5>3 DEF LengthNext
      <4>4. CASE LengthPrev(a) \/ LengthCheckNext(a) \/ LengthCheckPrev(a) \/ LengthStep(a)
        BY <3>2, <4>4 DEF LengthPrev, LengthCheckNext, LengthCheckPrev, LengthStep, Compare
      <4>5. QED
        BY <4>1, <4>2, <4>3, <4>4 DEF LengthCall
    <3>4. MainSync'
      BY <1>1, <1>2, <2>2, <3>1, <3>2, <3>3 DEF MainSync, LengthPlaces
    <3>5. StatusInv'
      <4>1. my_ops' = my_ops
        BY StepSets DEF my_ops
      <4>2. status \notin {"exit1", "exit2", "abort"}
        BY <1>1, <2>2, <3>2 DEF StatusInv
      <4>3. QED
        BY <1>1, <1>2, <4>1, <4>2 DEF StatusInv
    <3>6. QED
      BY <3>4, <3>5
  <2>3. QED
    BY <2>1, <2>2
<1>8. QED
  BY <1>4, <1>5, <1>6, <1>7 DEF Keeps

\* No thread finds its list corrupt or misses its key: a thread only ends the
\* process when there are no iterations, or in memory that main has freed.
LEMMA ThreadEnds ==
    ASSUME NEW C, SyncWith(C), [Next]_vars, NEW t \in Threads, ThreadExit(t)
    PROVE  Keeps(C, C)
<1>1. /\ Working(C) /\ EndsInv /\ MainSync /\ StatusInv /\ PointerInv
      /\ CountsInv(C) /\ t \in Actors
      /\ Main' = Main /\ Threads' = Threads /\ my_ops' = my_ops
      /\ UNCHANGED <<next, prev, th, freed>>
  BY StepSets, Arguments, ThreadExits DEF SyncWith, Working, PointerInv, my_ops
<1>2. Stores(C, C) /\ BagMove(C, C) /\ EndsInv'
  BY <1>1, StillStep
<1>3. th[t].pc \in Within => \A l : l = SubList(th[t].i) =>
          /\ HandOf(th[t], next, prev, C[l])
          /\ th[t].pc \notin HalfIn \cup HalfOut => Linked(next, prev, C[l], {})
  BY <1>1, AtWork
<1>4. ~LengthsCorrupt(t)
  <2>1. th[t].len >= 0 /\ th[t].len \in {-1, 0, 1}
    BY <1>1 DEF CountsInv, CountOf, PointerInv, TypeOK
  <2>2. QED
    BY <2>1 DEF LengthsCorrupt
<1>5. ~LookupMiss(t)
  <2>1. SUFFICES ASSUME LookupMiss(t) PROVE FALSE
    OBVIOUS
  <2>2. PICK c, n : c = C[SubList(th[t].i)] /\ n = th[t].cur
    OBVIOUS
  <2>3. n \in c /\ Ahead(next, c, n, th[t].i) /\ IsHead(n)
    BY <1>3, <2>1, <2>2 DEF LookupMiss, At, HandOf, Within, DeletePlaces
  <2>4. {n} \in SUBSET c /\ n \in {n} /\ \A m \in {n} : IsHead(m) \/ next[m] \in {n}
    BY <2>3
  <2>5. n \in Elements
    BY <2>3, <2>4 DEF Ahead
  <2>6. QED
    BY <1>1, <2>3, <2>5, NodeFacts DEF PointerInv
<1>6. ~DeleteCorrupt(t)
  <2>1. SUFFICES ASSUME DeleteCorrupt(t) PROVE FALSE
    OBVIOUS
  <2>2. PICK c, n : c = C[SubList(th[t].i)] /\ n = th[t].cur
    OBVIOUS
  <2>3. /\ th[t].pc \in {"del_c1", "del_c2"} /\ th[t].pc \in Within
        /\ th[t].pc \notin HalfIn \cup HalfOut /\ th[t].pc \in Deletes
    BY <2>1 DEF DeleteCorrupt, At, Within, DeletePlaces, HalfIn, HalfOut, Deletes
  <2>4. HandOf(th[t], next, prev, c) /\ Linked(next, prev, c, {})
    BY <1>3, <2>2, <2>3
  <2>5. /\ n \in c
        /\ th[t].pc = "del_c1" => th[t].reg = next[n]
        /\ th[t].pc = "del_c2" => th[t].reg = prev[n]
    BY <2>2, <2>3, <2>4 DEF HandOf
  <2>6. prev[next[n]] = n /\ next[prev[n]] = n
    BY <2>4, <2>5 DEF Linked
  <2>7. QED
    BY <2>1, <2>2, <2>5, <2>6 DEF DeleteCorrupt, At
<1>7. \/ status' = "SIGFPE" /\ my_ops = 0
      \/ status' \in {"exit2", "abort"} /\ th[Main].pc = "exit"
  <2>1. CASE StartDividesByZero(t)
    <3>1. num_iterations = 0 /\ status' = "SIGFPE" /\ num_threads \in Nat
      BY <1>1, <2>1, Arguments DEF StartDividesByZero, Exit, PointerInv
    <3>2. my_ops = 0
      BY <3>1 DEF my_ops
    <3>3. QED
      BY <3>1, <3>2
  <2>2. CASE UseFreed(t)
    BY <1>1, <2>2 DEF UseFreed, Exit, MainSync
  <2>3. QED
    BY <1>4, <1>5, <1>6, <2>1, <2>2 DEF ThreadExit
<1>8. status = "running"
  BY <1>4, <1>5, <1>6 DEF ThreadExit, StartDividesByZero, UseFreed, At
<1>9. MainSync' /\ StatusInv'
  BY <1>1, <1>7, <1>8 DEF MainSync, StatusInv
<1>10. QED
  BY <1>2, <1>9 DEF Keeps

LEMMA MainStep ==
    ASSUME NEW C, SyncWith(C), [Next]_vars, MainMove
    PROVE  Keeps(C, C)
<1> USE DEF At, GoTo, GoToNext, GoToFrom, ActorType
<1>1. /\ Working(C) /\ EndsInv /\ MainSync /\ StatusInv /\ PointerInv
      /\ CountsInv(C) /\ Main \in Actors /\ Main \notin Threads /\ Threads \subseteq Actors
      /\ Threads = 0 .. num_threads - 1 /\ num_threads \in Nat
      /\ th \in [Actors -> ActorType] /\ th[Main].i \in Nat
      /\ Main' = Main /\ Threads' = Threads /\ my_ops' = my_ops
  BY StepSets, Arguments DEF SyncWith, Working, PointerInv, TypeOK, Threads, my_ops
<1>2. UNCHANGED <<next, prev>>
  BY <1>1, MainMoves
<1>3. \/ \A t \in Threads : th'[t] = th[t]
      \/ CreateThread
  BY <1>1 DEF MainMove, CreateFails, AllCreated, JoinThread, AllJoined, FinalLengthWrong,
     ExitOne, DivideByZero, Report, Exit
<1>4. ASSUME CreateThread
      PROVE  /\ th'[Main].pc = "create" /\ th'[Main].len = th[Main].len
             /\ \A t \in Threads : \/ th'[t] = th[t]
                                   \/ /\ th[t].pc = "unborn" /\ th'[t].pc = "start"
                                      /\ th'[t].i = th[t].i /\ th'[t].len = th[t].len
  <2>1. PICK i : i = th[Main].i
    OBVIOUS
  <2>2. /\ i \in Threads /\ th[i].pc = "unborn" /\ i # Main /\ i \in Actors
        /\ th[Main].pc = "create"
        /\ th' = [th EXCEPT ![Main].i = @ + 1, ![i].pc = "start"]
    BY <1>1, <1>4, <2>1 DEF CreateThread, PointerInv, StartInv
  <2>3. QED
    BY <1>1, <2>2
<1>5. th'[Main].len = th[Main].len /\ th'[Main].pc \notin LengthPlaces \ {"len_list"}
  <2>1. th'[Main].pc \notin LengthPlaces \ {"len_list"}
    BY <1>1, MainMoves
  <2>2. th'[Main].len = th[Main].len
    BY <1>1, <1>4 DEF MainMove, CreateFails, AllCreated, JoinThread, AllJoined, FinalLengthWrong,
       ExitOne, DivideByZero, Report, FinalLengthsZero, Exit
  <2>3. QED
    BY <2>1, <2>2
<1>6. CountOf(th'[Main], next, prev, C)
  BY <1>1, <1>5 DEF CountsInv, CountOf, LengthPlaces
<1>7. Stores(C, C) /\ BagMove(C, C) /\ EndsInv'
  <2>1. \A t \in Threads : \/ th'[t] = th[t]
                           \/ /\ th[t].pc = "unborn" /\ th'[t].pc = "start"
                              /\ th'[t].i = th[t].i /\ th'[t].len = th[t].len
    BY <1>3, <1>4
  <2>2. QED
    BY <1>1, <1>2, <1>6, <2>1, StillStep
<1>8. MainSync' /\ StatusInv'
  <2>1. /\ th[Main].len = 0 /\ th'[Main].len = 0 /\ status = "running"
        /\ th[Main].pc # "exit" => ~freed
    BY <1>1, <1>5 DEF MainSync, MainMove, CreateThread, CreateFails, AllCreated, JoinThread,
       AllJoined, FinalLengthWrong, ExitOne, DivideByZero, Report, FinalLengthsZero
  <2>2. CASE CreateThread
    <3>1. UNCHANGED <<freed, status>> /\ th[Main].pc = "create"
      BY <2>2 DEF CreateThread, OnlyLocal, process
    <3>2. QED
      BY <1>1, <1>4, <2>1, <2>2, <3>1 DEF MainSync, StatusInv, LengthPlaces
  <2>3. CASE CreateFails
    <3>1. th[Main].i \in Threads /\ th[th[Main].i].pc = "unborn"
      BY <1>1, <2>3 DEF CreateFails, PointerInv, StartInv
    <3>2. th'[Main].pc = "exit" /\ freed' /\ UNCHANGED status /\ \A t \in Threads : th'[t] = th[t]
      BY <1>1, <2>3 DEF CreateFails
    <3>3. QED
      BY <1>1, <2>1, <3>1, <3>2 DEF MainSync, StatusInv, LengthPlaces
  <2>4. CASE AllCreated
    <3>1. /\ th'[Main].pc = "join" /\ th'[Main].i = 0 /\ UNCHANGED <<freed, status>>
          /\ th[Main].pc = "create"
      BY <1>1, <2>4 DEF AllCreated, OnlyLocal, process
    <3>2. \A t \in Threads : ~(t < 0)
      BY <1>1
    <3>3. QED
      BY <1>1, <2>1, <3>1, <3>2 DEF MainSync, StatusInv, LengthPlaces
  <2>5. CASE JoinThread
    <3>1. PICK i : i = th[Main].i
      OBVIOUS
    <3>2. /\ th'[Main].pc = "join" /\ th'[Main].i = i + 1 /\ UNCHANGED <<freed, status>>
          /\ th[Main].pc = "join" /\ th[i].pc = "done" /\ i \in Nat
          /\ \A t \in Threads : th'[t] = th[t]
      BY <1>1, <2>5, <3>1 DEF JoinThread, OnlyLocal, process
    <3>3. \A t \in Threads : t < i => th[t].pc = "done"
      BY <1>1, <3>1, <3>2 DEF MainSync
    <3>4. \A t \in Threads : t < i + 1 => t < i \/ t = i
      BY <1>1, <3>2
    <3>5. QED
      BY <1>1, <2>1, <3>2, <3>3, <3>4 DEF MainSync, StatusInv, LengthPlaces
  <2>6. CASE AllJoined
    <3>1. /\ th'[Main].pc = "len_list" /\ UNCHANGED <<freed, status>>
          /\ th[Main].pc = "join" /\ th[Main].i >= num_threads
          /\ \A t \in Threads : th'[t] = th[t]
      BY <1>1, <2>6 DEF AllJoined, OnlyLocal, process
    <3>2. \A t \in Threads : th[t].pc = "done"
      BY <1>1, <3>1 DEF MainSync
    <3>3. QED
      BY <1>1, <2>1, <3>1, <3>2 DEF MainSync, StatusInv, LengthPlaces
  <2>7. CASE FinalLengthWrong
    BY <2>1, <2>7 DEF FinalLengthWrong
  <2>8. CASE ExitOne
    BY <1>1, <2>8 DEF ExitOne, Exit, MainSync, StatusInv
  <2>9. CASE DivideByZero \/ Report
    <3>1. /\ th[Main].pc = "len_list" /\ th' = th
          /\ \/ status' = "SIGFPE" /\ my_ops = 0 /\ freed' = freed
             \/ status' = "exit0"
      BY <2>9 DEF DivideByZero, Report, FinalLengthsZero, Exit
    <3>2. QED
      BY <1>1, <2>1, <3>1 DEF MainSync, StatusInv
  <2>10. QED
    BY <2>2, <2>3, <2>4, <2>5, <2>6, <2>7, <2>8, <2>9 DEF MainMove
<1>9. QED
  BY <1>7, <1>8 DEF Keeps

LEMMA SyncKeeps ==
    ASSUME NEW C, SyncWith(C), [Next]_vars
    PROVE  \E D : Keeps(C, D)
<1>1. PointerInv /\ MainSync /\ StatusInv /\ Main \in Actors /\ Threads \subseteq Actors
  BY Arguments DEF SyncWith, Working, PointerInv
<1>2. CASE \E t \in Threads : Thread(t)
  BY <1>1, <1>2, ThreadSplit, ThreadStep, CountsStep, ThreadEnds
<1>3. CASE MainThread
  BY <1>1, <1>3, CountsStep, MainStep DEF MainThread, MainMove
<1>4. CASE Ended \/ UNCHANGED vars
  <2>1. UNCHANGED <<next, prev, th, freed, status>>
    BY <1>4 DEF Ended, vars, memory, process
  <2>2. MainSync' /\ StatusInv'
    BY <1>1, <2>1, MainStays
  <2>3. Stores(C, C) /\ BagMove(C, C) /\ EndsInv'
    BY <2>1, StillStep
  <2>4. QED
    BY <2>2, <2>3 DEF Keeps
<1>5. QED
  BY <1>2, <1>3, <1>4 DEF Next

-----------------------------------------------------------------------------
(* The invariant, and what it says of the end of the process.              *)

SyncInv == PointerInv /\ RankInv /\ LockOwnership /\ (Locked => \E C : SyncWith(C))

LEMMA SyncInit ==
    ASSUME Init
    PROVE  SyncInv /\ (Locked => SyncWith([l \in Lists |-> {HeadOf(l)}]))
<1>1. PointerInv /\ RankInv /\ LockOwnership /\ TypeOK
  BY PointerInit, RankInit, OwnershipInit DEF PointerInv
<1>2. SUFFICES ASSUME Locked PROVE SyncWith([l \in Lists |-> {HeadOf(l)}])
  BY <1>1 DEF SyncInv
<1> DEFINE C == [l \in Lists |-> {HeadOf(l)}]
<1>3. /\ Main \in Actors /\ Main \notin Threads /\ Threads \subseteq Actors
      /\ \A l \in Lists : HeadOf(l) \in Nodes /\ HeadOf(l) \in NodesOf(l) /\ IsHead(HeadOf(l))
      /\ \A a \in Actors : a = Main \/ a \in Threads
      /\ \A e \in Elements : e \in Nat /\ SubList(e) \in Lists /\ e # HeadOf(SubList(e))
  BY <1>1, Arguments, NodeFacts, ActorSplit
<1>4. /\ \A t \in Threads : th[t].pc = "unborn" /\ th[t].i = 0
      /\ \A a \in Actors : th[a].len = 0
      /\ th[Main].pc = "create" /\ ~freed /\ status = "running"
      /\ \A l \in Lists : next[HeadOf(l)] = HeadOf(l) /\ prev[HeadOf(l)] = HeadOf(l)
  BY <1>3 DEF Init
<1>5. C \in [Lists -> SUBSET Nodes] /\ \A l \in Lists : C[l] = {HeadOf(l)}
  BY <1>3
<1> HIDE DEF C
<1>6. ListsInv(C)
  <2>1. ASSUME NEW l \in Lists PROVE SoundAt(C[l], l)
    <3>1. {n \in C[l] : Half(n)} = {}
      BY <1>4 DEF Half, HalfAt, HalfIn, HalfOut
    <3>2. Linked(next, prev, C[l], {})
      BY <1>4, <1>5 DEF Linked
    <3>3. Sorted(next, C[l])
      BY <1>3, <1>5 DEF Sorted, InOrder
    <3>4. QED
      BY <1>3, <1>5, <3>1, <3>2, <3>3 DEF SoundAt
  <2>2. QED
    BY <2>1 DEF ListsInv
<1>7. HandsInv(C)
  BY <1>4 DEF HandsInv, Within, InsertPlaces, DeletePlaces
<1>8. CountsInv(C)
  BY <1>3, <1>4 DEF CountsInv, CountOf, LengthPlaces
<1>9. Matched(C)
  <2>1. ASSUME NEW e \in Elements PROVE ~Pending(e) /\ e \notin C[SubList(e)]
    <3>1. th[Owner(e)].pc = "unborn" /\ th[Owner(e)].i = 0
      BY <1>1, <1>4, OwnerFacts
    <3>2. ~InsertDone(e)
      BY <1>3, <3>1 DEF InsertDone
    <3>3. QED
      BY <1>3, <1>5, <3>2 DEF Pending
  <2>2. QED
    BY <2>1 DEF Matched, PendingOf, PresentOf
<1>10. EndsInv /\ MainSync /\ StatusInv
  BY <1>3, <1>4 DEF EndsInv, EndsAt, MainSync, StatusInv, LengthPlaces
<1>11. QED
  BY <1>1, <1>2, <1>5, <1>6, <1>7, <1>8, <1>9, <1>10 DEF SyncWith, Working, C

LEMMA NextSync ==
    ASSUME NEW C, SyncWith(C), [Next]_vars, NEW D, Keeps(C, D)
    PROVE  SyncWith(D)'
<1>1. PointerInv /\ RankInv /\ LockOwnership /\ Locked /\ Matched(C) /\ C \in [Lists -> SUBSET Nodes]
  BY DEF SyncWith, Working
<1>2. PointerInv' /\ RankInv' /\ LockOwnership'
  BY <1>1, PointerStep, RankStep, OwnershipStep
<1>3. Locked' = Locked /\ Lists' = Lists /\ Nodes' = Nodes
  BY StepSets
<1>4. Matched(D)'
  BY <1>1, MatchedStep DEF Keeps
<1>5. /\ D \in [Lists -> SUBSET Nodes] /\ ListsInv(D)' /\ HandsInv(D)' /\ CountsInv(D)'
      /\ EndsInv' /\ MainSync' /\ StatusInv'
  BY DEF Keeps, Stores
<1>6. QED
  BY <1>1, <1>2, <1>3, <1>4, <1>5 DEF SyncWith, Working

LEMMA SyncStep == SyncInv /\ [Next]_vars => SyncInv'
<1>1. SUFFICES ASSUME SyncInv, [Next]_vars PROVE SyncInv'
  OBVIOUS
<1>2. PointerInv' /\ RankInv' /\ LockOwnership' /\ Locked' = Locked
  BY <1>1, PointerStep, RankStep, OwnershipStep, StepSets DEF SyncInv
<1>3. ASSUME Locked PROVE \E D : SyncWith(D)'
  BY <1>1, <1>3, SyncKeeps, NextSync DEF SyncInv
<1>4. QED
  BY <1>2, <1>3 DEF SyncInv

\* With locks, for every number of threads, elements and lists: no thread finds
\* a list corrupt or misses its key, and main finds all lists empty.  The
\* process fails only when a thread cannot be created, or has nothing to do.
THEOREM ThreadsNeverFail == Spec => []SyncNeverFails
<1>1. ASSUME SyncInv PROVE SyncNeverFails
  <2>1. SUFFICES ASSUME Locked, ~freed \/ \A t \in Threads : th[t].pc = "done"
                 PROVE  status \in {"running", "exit0"} \/ (status = "SIGFPE" /\ my_ops = 0)
    BY DEF SyncNeverFails
  <2>2. MainSync /\ StatusInv
    BY <1>1, <2>1 DEF SyncInv, SyncWith
  <2>3. th[Main].pc # "exit"
    BY <2>1, <2>2 DEF MainSync
  <2>4. status \in {"running", "exit0", "exit1", "exit2", "abort", "SIGFPE"}
    BY <1>1 DEF SyncInv, PointerInv, TypeOK
  <2>5. QED
    BY <2>2, <2>3, <2>4 DEF StatusInv
<1>2. Init => SyncInv
  BY SyncInit
<1>3. QED
  BY <1>1, <1>2, SyncStep, PTL DEF Spec

-----------------------------------------------------------------------------
(* Circle(l), which is what the properties go by, is C[l].                 *)

\* The first n values of a sequence that g generates from a.
Generates(f, n, S, a, g) ==
    /\ f \in [0 .. n -> S]
    /\ f[0] = a
    /\ \A k \in 0 .. n - 1 : f[k + 1] = g[f[k]]

LEMMA Generated ==
    ASSUME NEW S, NEW a \in S, NEW g \in [S -> S]
    PROVE  \A n \in Nat : \E f : Generates(f, n, S, a, g)
<1> DEFINE T == {n \in Nat : \E f : Generates(f, n, S, a, g)}
<1>1. 0 \in T
  <2>1. Generates([k \in 0 .. 0 |-> a], 0, S, a, g)
    BY DEF Generates
  <2>2. QED
    BY <2>1
<1>2. ASSUME NEW n \in Nat, n \in T PROVE n + 1 \in T
  <2>1. PICK f : Generates(f, n, S, a, g)
    BY <1>2
  <2> DEFINE h == [k \in 0 .. n + 1 |-> IF k = n + 1 THEN g[f[n]] ELSE f[k]]
  <2>2. h \in [0 .. n + 1 -> S] /\ h[0] = a
    BY <2>1 DEF Generates
  <2>3. ASSUME NEW k \in 0 .. (n + 1) - 1 PROVE h[k + 1] = g[h[k]]
    <3>1. CASE k = n
      BY <2>1, <3>1 DEF Generates
    <3>2. CASE k # n
      <4>1. k \in 0 .. n - 1 /\ k + 1 \in 0 .. n + 1 /\ k + 1 # n + 1
        BY <3>2
      <4>2. f[k + 1] = g[f[k]]
        BY <2>1, <4>1 DEF Generates
      <4>3. QED
        BY <4>1, <4>2
    <3>3. QED
      BY <3>1, <3>2
  <2> HIDE DEF h
  <2>4. Generates(h, n + 1, S, a, g)
    BY <2>2, <2>3 DEF Generates
  <2>5. QED
    BY <2>4
<1> HIDE DEF T
<1>3. Nat \subseteq T
  BY <1>1, <1>2, NatSets
<1>4. QED
  BY <1>3 DEF T

LEMMA GeneratedOnce ==
    ASSUME NEW S, NEW a, NEW g, NEW m \in Nat, NEW n \in Nat, NEW f, NEW h,
           Generates(f, m, S, a, g), Generates(h, n, S, a, g)
    PROVE  \A k \in Nat : k <= m /\ k <= n => f[k] = h[k]
<1> DEFINE T == {k \in Nat : k <= m /\ k <= n => f[k] = h[k]}
<1>1. 0 \in T
  BY DEF Generates
<1>2. ASSUME NEW k \in Nat, k \in T PROVE k + 1 \in T
  <2>1. SUFFICES ASSUME k + 1 <= m, k + 1 <= n PROVE f[k + 1] = h[k + 1]
    OBVIOUS
  <2>2. k \in 0 .. m - 1 /\ k \in 0 .. n - 1 /\ f[k] = h[k]
    BY <1>2, <2>1
  <2>3. QED
    BY <2>2 DEF Generates
<1> HIDE DEF T
<1>3. Nat \subseteq T
  BY <1>1, <1>2, NatSets
<1>4. QED
  BY <1>3 DEF T

\* Repeating g from a is well defined.
LEMMA Iterated ==
    ASSUME NEW S, NEW a \in S, NEW g \in [S -> S]
    PROVE  \E f : f \in [Nat -> S] /\ f[0] = a /\ \A k \in Nat : f[k + 1] = g[f[k]]
<1> DEFINE F(n) == CHOOSE f : Generates(f, n, S, a, g)
           h == [n \in Nat |-> F(n)[n]]
<1>1. \A n \in Nat : Generates(F(n), n, S, a, g)
  BY Generated
<1> HIDE DEF F
<1>2. \A n \in Nat : h[n] \in S
  BY <1>1 DEF Generates
<1>3. h[0] = a
  BY <1>1 DEF Generates
<1>4. ASSUME NEW k \in Nat PROVE h[k + 1] = g[h[k]]
  <2>1. Generates(F(k), k, S, a, g) /\ Generates(F(k + 1), k + 1, S, a, g)
    BY <1>1
  <2>2. F(k)[k] = F(k + 1)[k]
    BY <2>1, GeneratedOnce
  <2>3. F(k + 1)[k + 1] = g[F(k + 1)[k]]
    BY <2>1 DEF Generates
  <2>4. QED
    BY <2>2, <2>3
<1>5. h \in [Nat -> S]
  BY <1>2
<1> HIDE DEF h
<1>6. QED
  BY <1>3, <1>4, <1>5

\* The parts of Circle.
Onward(l, n) == IF n \in {HeadOf(l), Wild} THEN n ELSE next[n]
Grown(l, A) == UNION {{n, Onward(l, n)} : n \in A}
Along(l) ==
    CHOOSE f : f = [k \in Nat |-> IF k = 0 THEN {next[HeadOf(l)]} ELSE Grown(l, f[k - 1])]

LEMMA AlongIs ==
    ASSUME TypeOK, NEW l \in Lists
    PROVE  /\ Circle(l) = Along(l)[Cardinality(Elements)]
           /\ Along(l)[0] = {next[HeadOf(l)]}
           /\ \A k \in Nat : Along(l)[k + 1] = Grown(l, Along(l)[k])
<1>1. Circle(l) = Along(l)[Cardinality(Elements)]
  BY DEF Circle, Along, Grown, Onward
<1> DEFINE S == SUBSET (Nodes \cup {Wild})
           a == {next[HeadOf(l)]}
           g == [A \in S |-> Grown(l, A)]
<1>2. next \in [Nodes -> Nodes \cup {Wild}] /\ HeadOf(l) \in Nodes
  BY NodeFacts DEF TypeOK
<1>3. a \in S
  BY <1>2
<1>4. ASSUME NEW A \in S PROVE Grown(l, A) \in S
  <2>1. \A n \in A : Onward(l, n) \in Nodes \cup {Wild}
    BY <1>2 DEF Onward
  <2>2. QED
    BY <2>1 DEF Grown
<1>5. g \in [S -> S]
  BY <1>4
<1>6. PICK f : f \in [Nat -> S] /\ f[0] = a /\ \A k \in Nat : f[k + 1] = g[f[k]]
  <2> HIDE DEF S, a, g
  <2>1. QED
    BY <1>3, <1>5, Iterated
<1>7. \A k \in Nat : f[k + 1] = Grown(l, f[k])
  BY <1>6
<1>8. f = [k \in Nat |-> IF k = 0 THEN {next[HeadOf(l)]} ELSE Grown(l, f[k - 1])]
  <2>1. ASSUME NEW k \in Nat, k # 0 PROVE f[k] = Grown(l, f[k - 1])
    <3>1. k - 1 \in Nat /\ (k - 1) + 1 = k
      BY <2>1
    <3>2. QED
      BY <1>7, <3>1
  <2>2. \A k \in Nat : f[k] = IF k = 0 THEN {next[HeadOf(l)]} ELSE Grown(l, f[k - 1])
    BY <1>6, <2>1
  <2>3. QED
    BY <1>6, <2>2
<1> HIDE DEF S, a, g
<1>9. PICK h : h = Along(l)
  OBVIOUS
<1>10. h = [k \in Nat |-> IF k = 0 THEN {next[HeadOf(l)]} ELSE Grown(l, h[k - 1])]
  BY <1>8, <1>9 DEF Along
<1>11. h[0] = {next[HeadOf(l)]}
  BY <1>10
<1>12. ASSUME NEW k \in Nat PROVE h[k + 1] = Grown(l, h[k])
  <2>1. k + 1 \in Nat /\ k + 1 # 0 /\ (k + 1) - 1 = k
    OBVIOUS
  <2>2. h[k + 1] = Grown(l, h[(k + 1) - 1])
    BY <1>10, <2>1
  <2>3. QED
    BY <2>1, <2>2
<1>13. QED
  BY <1>1, <1>9, <1>11, <1>12

\* As long as a walk from the head has not come by all nodes of the list, one
\* more step comes by another one; there are only so many.
LEMMA CircleIs ==
    ASSUME NEW C, Working(C), NEW l \in Lists
    PROVE  Circle(l) = C[l]
<1>1. TypeOK /\ PointerInv
  BY DEF Working, PointerInv
<1> DEFINE N == Cardinality(Elements)
<1>2. PICK A, c : A = Along(l) /\ c = C[l]
  OBVIOUS
<1>3. /\ Circle(l) = A[N] /\ A[0] = {next[HeadOf(l)]}
      /\ \A k \in Nat : A[k + 1] = Grown(l, A[k])
  BY <1>1, <1>2, AlongIs
<1>4. /\ c \subseteq NodesOf(l) /\ HeadOf(l) \in c
      /\ \A n \in c : n \in Nodes /\ next[n] \in c /\ n # Wild
      /\ \A n \in c : IsHead(n) <=> n = HeadOf(l)
  <2>1. c \subseteq NodesOf(l) /\ HeadOf(l) \in c
    BY <1>2 DEF Working, ListsInv, SoundAt
  <2>2. \A n \in c : n \in Nodes /\ next[n] \in c
    BY <1>2, NotFresh DEF Working
  <2>3. QED
    BY <1>1, <2>1, <2>2, NodeFacts
<1>5. N \in Nat /\ IsFiniteSet(c) /\ Cardinality(c) \in Nat /\ Cardinality(c) <= N + 1
  <2>1. IsFiniteSet(Elements) /\ N \in Nat
    BY <1>1, FiniteElements
  <2>2. /\ IsFiniteSet(Elements \cup {HeadOf(l)})
        /\ Cardinality(Elements \cup {HeadOf(l)}) <= N + 1
    BY <2>1, FS_AddElement
  <2>3. c \in SUBSET (Elements \cup {HeadOf(l)})
    BY <1>4 DEF NodesOf
  <2>4. IsFiniteSet(c) /\ Cardinality(c) <= Cardinality(Elements \cup {HeadOf(l)})
    BY <2>2, <2>3, FS_Subset
  <2>5. Cardinality(c) \in Nat /\ Cardinality(Elements \cup {HeadOf(l)}) \in Nat
    BY <2>2, <2>4, FS_CardinalityType
  <2>6. QED
    BY <2>1, <2>2, <2>4, <2>5
<1> DEFINE T == {k \in Nat : /\ A[k] \subseteq c /\ next[HeadOf(l)] \in A[k]
                             /\ A[k] = c \/ Cardinality(A[k]) >= k + 1}
<1>6. 0 \in T
  <2>1. Cardinality({next[HeadOf(l)]}) = 1
    BY FS_Singleton
  <2>2. QED
    BY <1>3, <1>4, <2>1
<1>7. ASSUME NEW k \in Nat, k \in T PROVE k + 1 \in T
  <2>1. PICK a, b : a = A[k] /\ b = A[k + 1]
    OBVIOUS
  <2>2. /\ a \subseteq c /\ next[HeadOf(l)] \in a
        /\ a = c \/ Cardinality(a) >= k + 1
    BY <1>7, <2>1
  <2>3. b = Grown(l, a)
    BY <1>3, <2>1
  <2>4. a \subseteq b /\ b \subseteq c
    BY <1>4, <2>2, <2>3 DEF Grown, Onward
  <2>5. b = c \/ Cardinality(b) >= (k + 1) + 1
    <3>1. SUFFICES ASSUME b # c PROVE Cardinality(b) >= (k + 1) + 1
      OBVIOUS
    <3>2. a # c
      BY <2>4, <3>1
    <3>3. PICK n \in a : ~IsHead(n) /\ next[n] \notin a
      <4>1. SUFFICES ASSUME \A n \in a : IsHead(n) \/ next[n] \in a PROVE a = c
        BY <3>2
      <4>2. QED
        BY <1>2, <2>2, <4>1, AllAround DEF Working
    <3>4. next[n] \in b
      <4>1. n # HeadOf(l) /\ n # Wild
        BY <1>4, <2>2, <3>3
      <4>2. QED
        BY <2>3, <4>1 DEF Grown, Onward
    <3>5. IsFiniteSet(a) /\ IsFiniteSet(b)
      BY <1>5, <2>2, <2>4, FS_Subset
    <3>6. /\ IsFiniteSet(a \cup {next[n]})
          /\ Cardinality(a \cup {next[n]}) = Cardinality(a) + 1
      BY <3>3, <3>5, FS_AddElement
    <3>7. Cardinality(a \cup {next[n]}) <= Cardinality(b)
      <4>1. a \cup {next[n]} \in SUBSET b
        BY <2>4, <3>4
      <4>2. QED
        BY <3>5, <4>1, FS_Subset
    <3>8. Cardinality(a) \in Nat /\ Cardinality(b) \in Nat
      BY <3>5, FS_CardinalityType
    <3>9. QED
      BY <2>2, <3>2, <3>6, <3>7, <3>8
  <2>6. QED
    BY <2>1, <2>2, <2>4, <2>5
<1>8. N \in T
  <2> HIDE DEF T
  <2>1. Nat \subseteq T
    BY <1>6, <1>7, NatSets
  <2>2. QED
    BY <1>5, <2>1
<1>9. A[N] = c
  <2>1. SUFFICES ASSUME Cardinality(A[N]) >= N + 1, A[N] \in SUBSET c PROVE A[N] = c
    BY <1>8
  <2> HIDE DEF N, T
  <2>2. /\ IsFiniteSet(A[N]) /\ Cardinality(A[N]) <= Cardinality(c)
        /\ Cardinality(c) = Cardinality(A[N]) => c = A[N]
    BY <1>5, <2>1, FS_Subset
  <2>3. Cardinality(A[N]) \in Nat
    BY <2>2, FS_CardinalityType
  <2>4. Cardinality(c) = Cardinality(A[N])
    BY <1>5, <2>1, <2>2, <2>3
  <2>5. QED
    BY <2>2, <2>4
<1>10. QED
  BY <1>2, <1>3, <1>9

\* With locks, for every number of threads, elements and lists: a list nobody
\* has locked is a circle of its own elements through its head, in key order,
\* along which prev is the inverse of next.
THEOREM UnlockedListsSound == Spec => []ListsSound
<1>1. ASSUME SyncInv PROVE ListsSound
  <2>1. SUFFICES ASSUME NEW l \in Lists, Locked, lock[l] = NoThread
                 PROVE  LET circle == Circle(l)
                        IN  /\ circle \subseteq NodesOf(l)
                            /\ HeadOf(l) \in circle
                            /\ \A n \in circle : prev[next[n]] = n /\ next[prev[n]] = n
                            /\ \A n \in circle : IsHead(n) \/ IsHead(next[n]) \/ key[n] <= key[next[n]]
    BY DEF ListsSound
  <2>2. PICK C : SyncWith(C)
    BY <1>1, <2>1 DEF SyncInv
  <2>3. PICK c : c = C[l]
    OBVIOUS
  <2>4. Circle(l) = c
    BY <2>2, <2>3, CircleIs DEF SyncWith
  <2>5. \A t \in Threads : lock[l] # t
    BY <2>1, <2>2, Arguments DEF SyncWith, Working, PointerInv, NoThread
  <2>6. /\ c \subseteq NodesOf(l) /\ HeadOf(l) \in c
        /\ Linked(next, prev, c, {}) /\ Sorted(next, c)
    BY <2>2, <2>3, <2>5, WholeList DEF SyncWith, Working
  <2>7. QED
    BY <2>4, <2>6 DEF Linked, Sorted, InOrder
<1>2. Init => SyncInv
  BY SyncInit
<1>3. QED
  BY <1>1, <1>2, SyncStep, PTL DEF Spec

-----------------------------------------------------------------------------
(* The bag.                                                                *)

BagOf == UNION {Contents(l) : l \in Lists}
ElementsIn(C) == {e \in Elements : e \in C[SubList(e)]}
BagsMatch == \A C : SyncWith(C) => BagOf = ElementsIn(C)

LEMMA BagIs == BagsMatch
<1>1. SUFFICES ASSUME NEW C, SyncWith(C) PROVE BagOf = ElementsIn(C)
  BY DEF BagsMatch
<1>2. Working(C) /\ TypeOK
  BY <1>1 DEF SyncWith, Working, PointerInv
<1>3. \A l \in Lists : Contents(l) = C[l] \ {HeadOf(l)} /\ C[l] \subseteq NodesOf(l)
  BY <1>2, CircleIs DEF Contents, Working, ListsInv, SoundAt
<1>4. ASSUME NEW e \in ElementsIn(C) PROVE e \in BagOf
  <2>1. /\ e \in Elements /\ SubList(e) \in Lists /\ e \in C[SubList(e)]
        /\ e # HeadOf(SubList(e))
    BY <1>2, NodeFacts DEF ElementsIn
  <2>2. e \in Contents(SubList(e))
    BY <1>3, <2>1
  <2>3. QED
    BY <2>1, <2>2 DEF BagOf
<1>5. ASSUME NEW e \in BagOf PROVE e \in ElementsIn(C)
  <2>1. PICK l \in Lists : e \in Contents(l)
    BY DEF BagOf
  <2>2. e \in C[l] /\ e \in Elements /\ SubList(e) = l
    BY <1>3, <2>1 DEF NodesOf
  <2>3. QED
    BY <2>2 DEF ElementsIn
<1>6. QED
  BY <1>4, <1>5

LEMMA BagIsNext == BagsMatch'
BY BagIs, PTL

LEMMA BagInit ==
    ASSUME Init, Locked
    PROVE  Bag!Init
<1> DEFINE C == [l \in Lists |-> {HeadOf(l)}]
<1>1. SyncWith(C)
  BY SyncInit
<1>2. TypeOK /\ EndsInv /\ \A t \in Threads : th[t].pc = "unborn"
  <2>1. TypeOK /\ EndsInv
    BY <1>1 DEF SyncWith, Working, PointerInv
  <2>2. QED
    BY <2>1, Arguments DEF Init
<1>3. BagOf = {}
  <2>1. \A e \in Elements : e \notin C[SubList(e)]
    BY <1>2, NodeFacts
  <2> HIDE DEF C
  <2>2. QED
    BY <1>1, <2>1, BagIs DEF BagsMatch, ElementsIn
<1>4. ASSUME NEW e \in Elements PROVE ~InsertDone(e) /\ ~RemoveDone(e)
  <2>1. th[Owner(e)].pc = "unborn" /\ th[Owner(e)].i = 0 /\ e \in Nat
    BY <1>2, OwnerFacts, NodeFacts DEF EndsInv, EndsAt
  <2>2. QED
    BY <2>1 DEF InsertDone, RemoveDone, DeletePlaces
<1>5. QED
  BY <1>3, <1>4 DEF Bag!Init, BagOf

LEMMA BagStep ==
    ASSUME SyncInv, Locked, [Next]_vars
    PROVE  [Bag!Next]_(Bag!vars)
<1>1. PICK C : SyncWith(C)
  BY DEF SyncInv
<1>2. PICK D : Keeps(C, D)
  BY <1>1, SyncKeeps
<1>3. SyncWith(D)'
  BY <1>1, <1>2, NextSync
<1>4. BagOf = ElementsIn(C) /\ BagOf' = ElementsIn(D)'
  BY <1>1, <1>3, BagIs, BagIsNext DEF BagsMatch
<1>5. /\ Elements' = Elements /\ key' = key /\ \A e : SubList(e)' = SubList(e)
      /\ \A e \in Elements : SubList(e) \in Lists
      /\ C \in [Lists -> SUBSET Nodes] /\ DOMAIN key = Elements
  BY <1>1, StepSets, SameNodes, NodeFacts DEF SyncWith, Working, PointerInv, TypeOK
<1>6. BagOf' = {e \in Elements : e \in D[SubList(e)]}
  BY <1>4, <1>5 DEF ElementsIn
<1>7. \A e \in Elements :
          e \in UNION {0 .. size[1] * size[2] - 1 : size \in Sizes}
  BY <1>1 DEF SyncWith, Working, PointerInv, TypeOK, Elements
<1>8. CASE D = C /\ Inserted' = Inserted /\ Removed' = Removed
  <2>1. BagOf' = BagOf
    BY <1>4, <1>6, <1>8 DEF ElementsIn
  <2>2. QED
    BY <1>5, <1>8, <2>1 DEF Bag!vars, BagOf, Inserted, Removed
<1>9. ASSUME NEW e \in Elements,
             e \notin Inserted, D = [C EXCEPT ![SubList(e)] = C[SubList(e)] \cup {e}],
             Inserted' = Inserted \cup {e}, Removed' = Removed
      PROVE  Bag!Next
  <2>1. BagOf' = BagOf \cup {e}
    BY <1>4, <1>5, <1>6, <1>9 DEF ElementsIn
  <2>2. Bag!Insert(e)
    BY <1>5, <1>9, <2>1 DEF Bag!Insert, BagOf, Inserted, Removed
  <2>3. QED
    BY <1>7, <2>2 DEF Bag!Next
<1>10. ASSUME NEW e \in Elements, NEW x \in Elements,
              e \in Inserted, e \notin Removed, key[x] = key[e], x \in C[SubList(x)],
              D = [C EXCEPT ![SubList(x)] = C[SubList(x)] \ {x}],
              Inserted' = Inserted, Removed' = Removed \cup {e}
       PROVE  Bag!Next
  <2>1. x \in BagOf /\ BagOf' = BagOf \ {x}
    BY <1>4, <1>5, <1>6, <1>10 DEF ElementsIn
  <2>2. Bag!Remove(e)
    BY <1>5, <1>10, <2>1 DEF Bag!Remove, BagOf, Inserted, Removed
  <2>3. QED
    BY <1>7, <2>2 DEF Bag!Next
<1>11. BagMove(C, D)
  BY <1>2 DEF Keeps
<1>12. QED
  BY <1>8, <1>9, <1>10, <1>11 DEF BagMove

\* With locks, for all arguments, the loads and stores of all threads
\* together are steps of the bag: each insertion and removal happens at once,
\* with one store, and a removal always finds an element with its key.
THEOREM ImplementsBag == Spec /\ Locked => RefinesSharedBag
<1>1. Init => SyncInv
  BY SyncInit
<1>2. ASSUME Locked, [Next]_vars PROVE Locked'
  BY <1>2, StepSets DEF Locked
<1>3. Init /\ Locked => Bag!Init
  BY BagInit
<1>4. SyncInv /\ Locked /\ [Next]_vars => [Bag!Next]_(Bag!vars)
  BY BagStep
<1>5. QED
  BY <1>1, <1>2, <1>3, <1>4, SyncStep, PTL DEF Spec, RefinesSharedBag, Bag!Spec

=============================================================================
