-------------------------- MODULE ThrMsgQueueProofs --------------------------
(* Proofs about ThrMsgQueue for every number of threads, every depth and      *)
(* every use of the two priorities.  The second part proves that it implements *)
(* BoundedDeque: with the ordinary priority always, with both priorities up to *)
(* the first access outside store[].                                          *)
EXTENDS ThrMsgQueue, FiniteSetTheorems, SequenceTheorems, TLAPS

\* The number of threads at a set of labels is a number, and counts members.
LEMMA CountType ==
  ASSUME NEW S
  PROVE  /\ IsFiniteSet(At(S))
         /\ Cardinality(At(S)) \in Nat
         /\ \A t \in Threads : pc[t] \in S => Cardinality(At(S)) > 0
<1>1. At(S) \in SUBSET Threads
  BY DEF At
<1>2. IsFiniteSet(At(S)) /\ Cardinality(At(S)) \in Nat
  BY <1>1, ThreadsAssumption, FS_Subset, FS_CardinalityType
<1>3. ASSUME NEW t \in Threads, pc[t] \in S
      PROVE  Cardinality(At(S)) > 0
  <2>1. At(S) # {}
    BY <1>3 DEF At
  <2>2. Cardinality(At(S)) # 0
    BY <2>1, <1>2, FS_EmptySet
  <2> QED
    BY <2>2, <1>2
<1> QED
  BY <1>2, <1>3

(* When one thread moves from label a to label b, the number of threads at a  *)
(* set of labels changes by what a and b say.                                 *)
LEMMA CountMove ==
  ASSUME NEW S, NEW t \in Threads, NEW b,
         pc \in [Threads -> Labels], pc' = [pc EXCEPT ![t] = b]
  PROVE  Cardinality(At(S))' = Cardinality(At(S))
                                 + (IF b \in S THEN 1 ELSE 0)
                                 - (IF pc[t] \in S THEN 1 ELSE 0)
<1>1. IsFiniteSet(At(S)) /\ Cardinality(At(S)) \in Nat
  BY CountType
<1>2. CASE b \in S
  <2>1. At(S)' = At(S) \cup {t}
    BY <1>2 DEF At
  <2>2. Cardinality(At(S) \cup {t}) = IF t \in At(S) THEN Cardinality(At(S))
                                       ELSE Cardinality(At(S)) + 1
    BY <1>1, FS_AddElement
  <2> QED
    BY <1>1, <1>2, <2>1, <2>2 DEF At
<1>3. CASE b \notin S
  <2>1. At(S)' = At(S) \ {t}
    BY <1>3 DEF At
  <2>2. Cardinality(At(S) \ {t}) = IF t \in At(S) THEN Cardinality(At(S)) - 1
                                    ELSE Cardinality(At(S))
    BY <1>1, FS_RemoveElement
  <2> QED
    BY <1>1, <1>3, <2>1, <2>2 DEF At
<1> QED
  BY <1>2, <1>3
\* What a thread at label b adds to each of the four counts.
Claims(b) == IF b \in {"r_lock", "r_in"} THEN 1 ELSE 0
Posts(b) == IF b \in {"s_store", "s_unlock", "s_post"} THEN 1 ELSE 0
Fills(b) == IF b \in {"s_lock", "s_in"} THEN 1 ELSE 0
Frees(b) == IF b \in {"r_get", "r_unlock", "r_post"} THEN 1 ELSE 0

\* The four counts of the invariant after a step of one thread.
LEMMA Counts ==
  ASSUME NEW t \in Threads, NEW b,
         pc \in [Threads -> Labels], pc' = [pc EXCEPT ![t] = b]
  PROVE  /\ Cardinality(Claiming)' = Cardinality(Claiming) + Claims(b) - Claims(pc[t])
         /\ Cardinality(Posting)' = Cardinality(Posting) + Posts(b) - Posts(pc[t])
         /\ Cardinality(Filling)' = Cardinality(Filling) + Fills(b) - Fills(pc[t])
         /\ Cardinality(Freeing)' = Cardinality(Freeing) + Frees(b) - Frees(pc[t])
<1>1. \A S : Cardinality(At(S))' = Cardinality(At(S))
                                     + (IF b \in S THEN 1 ELSE 0)
                                     - (IF pc[t] \in S THEN 1 ELSE 0)
  BY CountMove
<1> QED
  BY <1>1 DEF Claiming, Posting, Filling, Freeing, Claims, Posts, Fills, Frees

\* Each count is a number, at least what each thread adds to it.
LEMMA CountBounds ==
  ASSUME NEW t \in Threads
  PROVE  /\ Cardinality(Claiming) \in Nat /\ Claims(pc[t]) <= Cardinality(Claiming)
         /\ Cardinality(Posting) \in Nat /\ Posts(pc[t]) <= Cardinality(Posting)
         /\ Cardinality(Filling) \in Nat /\ Fills(pc[t]) <= Cardinality(Filling)
         /\ Cardinality(Freeing) \in Nat /\ Frees(pc[t]) <= Cardinality(Freeing)
<1>1. \A S : /\ Cardinality(At(S)) \in Nat
             /\ (IF pc[t] \in S THEN 1 ELSE 0) <= Cardinality(At(S))
  BY CountType
<1> QED
  BY <1>1 DEF Claiming, Posting, Filling, Freeing, Claims, Posts, Fills, Frees

(* An action that moves t to label b, changing the numbers as the counts do,  *)
(* preserves the parts of the invariant that speak of labels and numbers.     *)
LEMMA CountsKept ==
  ASSUME IInv, NEW t \in Threads, NEW b \in Labels, pc' = [pc EXCEPT ![t] = b],
         b \notin {"s_fail", "r_fail"},
         in' \in Nat, empty' \in Nat, occupied' \in Nat,
         in' + Claims(pc[t]) + Posts(pc[t]) + occupied
           = in + Claims(b) + Posts(b) + occupied',
         in' + empty' + Fills(b) + Frees(b)
           = in + empty + Fills(pc[t]) + Frees(pc[t])
  PROVE  /\ pc' \in [Threads -> Labels]
         /\ in' \in 0 .. Max /\ empty' \in 0 .. Max /\ occupied' \in 0 .. Max
         /\ OccupiedInv' /\ EmptyInv' /\ NeverRefused'
<1>1. pc \in [Threads -> Labels] /\ pc' \in [Threads -> Labels] /\ pc'[t] = b
  BY DEF IInv, TypeOK
<1>2. /\ in \in Nat /\ empty \in Nat /\ occupied \in Nat /\ Max \in Nat
      /\ in = occupied + Cardinality(Claiming) + Cardinality(Posting)
      /\ Max = in + empty + Cardinality(Filling) + Cardinality(Freeing)
  BY MaxAssumption DEF IInv, TypeOK, OccupiedInv, EmptyInv
<1>3. /\ Claims(b) \in Nat /\ Posts(b) \in Nat /\ Fills(b) \in Nat /\ Frees(b) \in Nat
      /\ Claims(pc[t]) \in Nat /\ Posts(pc[t]) \in Nat
      /\ Fills(pc[t]) \in Nat /\ Frees(pc[t]) \in Nat
  BY DEF Claims, Posts, Fills, Frees
<1>4. /\ Cardinality(Claiming)' = Cardinality(Claiming) + Claims(b) - Claims(pc[t])
      /\ Cardinality(Posting)' = Cardinality(Posting) + Posts(b) - Posts(pc[t])
      /\ Cardinality(Filling)' = Cardinality(Filling) + Fills(b) - Fills(pc[t])
      /\ Cardinality(Freeing)' = Cardinality(Freeing) + Frees(b) - Frees(pc[t])
  BY <1>1, Counts
<1>5. /\ Cardinality(Claiming) \in Nat /\ Claims(pc[t]) <= Cardinality(Claiming)
      /\ Cardinality(Posting) \in Nat /\ Posts(pc[t]) <= Cardinality(Posting)
      /\ Cardinality(Filling) \in Nat /\ Fills(pc[t]) <= Cardinality(Filling)
      /\ Cardinality(Freeing) \in Nat /\ Frees(pc[t]) <= Cardinality(Freeing)
  BY CountBounds
<1>6. /\ in' = occupied' + Cardinality(Claiming)' + Cardinality(Posting)'
      /\ Max = in' + empty' + Cardinality(Filling)' + Cardinality(Freeing)'
      /\ Cardinality(Claiming)' \in Nat /\ Cardinality(Posting)' \in Nat
      /\ Cardinality(Filling)' \in Nat /\ Cardinality(Freeing)' \in Nat
  BY <1>2, <1>3, <1>4, <1>5
<1>7. in' \in 0 .. Max /\ empty' \in 0 .. Max /\ occupied' \in 0 .. Max
  BY <1>2, <1>6
<1>8. NeverRefused'
  BY <1>1 DEF IInv, NeverRefused, At
<1> QED
  BY <1>1, <1>6, <1>7, <1>8 DEF OccupiedInv, EmptyInv

(* The parts of TypeOK that CountsKept does not give.                         *)
OtherTypes == /\ store \in [Slots -> Msgs \cup {NoMsg}]
              /\ f \in 0 .. UMod - 1 /\ l \in Slots
              /\ mp \in Threads \cup {NoThread}
              /\ arg \in [Threads -> Msgs \cup {NoMsg}]
              /\ prio \in [Threads -> {0, 1}]
              /\ out \in [Threads -> Msgs \cup {NoMsg}]
              /\ fault \in BOOLEAN

(* A sender between sem_wait(&empty) and in++ finds a free slot, a receiver   *)
(* between sem_wait(&occupied) and in-- finds a message.                      *)
LEMMA ClaimHolds ==
  ASSUME IInv, NEW t \in Threads
  PROVE  /\ pc[t] = "s_in" => in < Max
         /\ pc[t] = "r_in" => in > 0
         /\ pc[t] # "s_fail" /\ pc[t] # "r_fail"
<1>1. /\ in \in Nat /\ empty \in Nat /\ occupied \in Nat /\ Max \in Nat
      /\ in = occupied + Cardinality(Claiming) + Cardinality(Posting)
      /\ Max = in + empty + Cardinality(Filling) + Cardinality(Freeing)
  BY MaxAssumption DEF IInv, TypeOK, OccupiedInv, EmptyInv
<1>2. /\ Cardinality(Claiming) \in Nat /\ Cardinality(Posting) \in Nat
      /\ Cardinality(Filling) \in Nat /\ Cardinality(Freeing) \in Nat
      /\ pc[t] = "s_in" => Cardinality(Filling) > 0
      /\ pc[t] = "r_in" => Cardinality(Claiming) > 0
  BY CountType DEF Claiming, Posting, Filling, Freeing
<1>3. pc[t] # "s_fail" /\ pc[t] # "r_fail"
  BY DEF IInv, NeverRefused, At
<1> QED
  BY <1>1, <1>2, <1>3

\* Index arithmetic stays in range.
LEMMA IndexRange ==
  /\ \A i \in Slots : NextIndex(i) \in Slots
  /\ \A i \in 0 .. UMod - 1 : Decremented(i) \in 0 .. UMod - 1
  /\ \A i \in Slots : i \in 0 .. UMod - 1
<1>1. \A i \in Slots : NextIndex(i) \in Slots
  BY MaxAssumption DEF Slots, NextIndex
<1>2. \A i \in 0 .. UMod - 1 : Decremented(i) \in 0 .. UMod - 1
  BY MaxAssumption, UModAssumption DEF Decremented
<1>3. \A i \in Slots : i \in 0 .. UMod - 1
  BY MaxAssumption, UModAssumption DEF Slots
<1> QED
  BY <1>1, <1>2, <1>3

\* The initial states satisfy the inductive invariant.
LEMMA InitIInv == Init => IInv
<1> SUFFICES ASSUME Init PROVE IInv
  OBVIOUS
<1>1. TypeOK
  <2>1. /\ f \in 0 .. UMod - 1 /\ l \in Slots /\ in \in 0 .. Max
        /\ empty \in 0 .. Max /\ occupied \in 0 .. Max
    BY MaxAssumption, UModAssumption DEF Init, Slots
  <2> QED
    BY <2>1 DEF Init, TypeOK, Labels
<1>2. LockInv /\ FirstInv
  BY MaxAssumption, ThreadsAssumption DEF Init, LockInv, FirstInv, Critical, Slots
<1>3. NeverRefused
  BY DEF Init, NeverRefused, At
<1>4. Claiming = {} /\ Posting = {} /\ Filling = {} /\ Freeing = {}
  BY DEF Init, Claiming, Posting, Filling, Freeing, At
<1>5. OccupiedInv /\ EmptyInv
  BY <1>4, FS_EmptySet, MaxAssumption DEF Init, OccupiedInv, EmptyInv
<1> QED
  BY <1>1, <1>2, <1>3, <1>5 DEF IInv

(* A step of a thread preserves the inductive invariant.  Each action moves   *)
(* one thread between two labels; CountsKept settles the semaphores, and the  *)
(* rest is the typing of the other variables, the lock and the first index.   *)
LEMMA StepIInv == IInv /\ [Next]_vars => IInv'
<1> USE DEF queue, sems, calls
<1> SUFFICES ASSUME IInv, [Next]_vars PROVE IInv'
  OBVIOUS
<1>0. /\ TypeOK /\ OtherTypes /\ in \in Nat /\ empty \in Nat /\ occupied \in Nat
  BY MaxAssumption DEF IInv, TypeOK, OtherTypes
<1>1. ASSUME NEW t \in Threads, NEW m \in Msgs, NEW p \in Prios, Send(t, m, p) PROVE IInv'
  <2>1. pc[t] = "idle" /\ pc' = [pc EXCEPT ![t] = "s_wait"] /\ ~fault
    BY <1>1 DEF Send, Go
  <2>2. /\ pc' \in [Threads -> Labels]
        /\ in' \in 0 .. Max /\ empty' \in 0 .. Max /\ occupied' \in 0 .. Max
        /\ OccupiedInv' /\ EmptyInv' /\ NeverRefused'
    <3>1. "s_wait" \in Labels
      BY DEF Labels, SendLabels, RecvLabels, PeekLabels
    <3>2. in' \in Nat /\ empty' \in Nat /\ occupied' \in Nat
      BY <1>0, <1>1, <2>1 DEF Send, Go
    <3>3. /\ in' + Claims("idle") + Posts("idle") + occupied
               = in + Claims("s_wait") + Posts("s_wait") + occupied'
          /\ in' + empty' + Fills("s_wait") + Frees("s_wait")
               = in + empty + Fills("idle") + Frees("idle")
      BY <1>0, <1>1, <2>1, <3>2 DEF Send, Go, Claims, Posts, Fills, Frees
    <3> QED
      BY <2>1, <3>1, <3>2, <3>3, CountsKept
  <2>3. OtherTypes' /\ FirstInv'
    BY <1>0, <1>1, <2>1, IndexRange, PriosAssumption DEF Send, Go, IInv, OtherTypes, FirstInv
  <2>4. LockInv'
    BY <1>0, <1>1, <2>1, ThreadsAssumption DEF Send, Go, IInv, LockInv, TypeOK, Critical
  <2> QED
    BY <2>2, <2>3, <2>4 DEF IInv, TypeOK, OtherTypes
<1>2. ASSUME NEW t \in Threads, NEW m \in Msgs, PMsgQSend(t, m) PROVE IInv'
  <2>1. pc[t] = "idle" /\ pc' = [pc EXCEPT ![t] = "s_wait"] /\ ~fault
    BY <1>2 DEF PMsgQSend, Send, Go
  <2>2. /\ pc' \in [Threads -> Labels]
        /\ in' \in 0 .. Max /\ empty' \in 0 .. Max /\ occupied' \in 0 .. Max
        /\ OccupiedInv' /\ EmptyInv' /\ NeverRefused'
    <3>1. "s_wait" \in Labels
      BY DEF Labels, SendLabels, RecvLabels, PeekLabels
    <3>2. in' \in Nat /\ empty' \in Nat /\ occupied' \in Nat
      BY <1>0, <1>2, <2>1 DEF PMsgQSend, Send, Go
    <3>3. /\ in' + Claims("idle") + Posts("idle") + occupied
               = in + Claims("s_wait") + Posts("s_wait") + occupied'
          /\ in' + empty' + Fills("s_wait") + Frees("s_wait")
               = in + empty + Fills("idle") + Frees("idle")
      BY <1>0, <1>2, <2>1, <3>2 DEF PMsgQSend, Send, Go, Claims, Posts, Fills, Frees
    <3> QED
      BY <2>1, <3>1, <3>2, <3>3, CountsKept
  <2>3. OtherTypes' /\ FirstInv'
    BY <1>0, <1>2, <2>1, IndexRange, PriosAssumption DEF PMsgQSend, Send, Go, IInv, OtherTypes, FirstInv
  <2>4. LockInv'
    BY <1>0, <1>2, <2>1, ThreadsAssumption DEF PMsgQSend, Send, Go, IInv, LockInv, TypeOK, Critical
  <2> QED
    BY <2>2, <2>3, <2>4 DEF IInv, TypeOK, OtherTypes
<1>3. ASSUME NEW t \in Threads, SendWait(t) PROVE IInv'
  <2>1. pc[t] = "s_wait" /\ pc' = [pc EXCEPT ![t] = "s_lock"] /\ ~fault
    BY <1>3 DEF SendWait, Go
  <2>2. /\ pc' \in [Threads -> Labels]
        /\ in' \in 0 .. Max /\ empty' \in 0 .. Max /\ occupied' \in 0 .. Max
        /\ OccupiedInv' /\ EmptyInv' /\ NeverRefused'
    <3>1. "s_lock" \in Labels
      BY DEF Labels, SendLabels, RecvLabels, PeekLabels
    <3>2. in' \in Nat /\ empty' \in Nat /\ occupied' \in Nat
      BY <1>0, <1>3, <2>1 DEF SendWait, Go
    <3>3. /\ in' + Claims("s_wait") + Posts("s_wait") + occupied
               = in + Claims("s_lock") + Posts("s_lock") + occupied'
          /\ in' + empty' + Fills("s_lock") + Frees("s_lock")
               = in + empty + Fills("s_wait") + Frees("s_wait")
      BY <1>0, <1>3, <2>1, <3>2 DEF SendWait, Go, Claims, Posts, Fills, Frees
    <3> QED
      BY <2>1, <3>1, <3>2, <3>3, CountsKept
  <2>3. OtherTypes' /\ FirstInv'
    BY <1>0, <1>3, <2>1, IndexRange, PriosAssumption DEF SendWait, Go, IInv, OtherTypes, FirstInv
  <2>4. LockInv'
    BY <1>0, <1>3, <2>1, ThreadsAssumption DEF SendWait, Go, IInv, LockInv, TypeOK, Critical
  <2> QED
    BY <2>2, <2>3, <2>4 DEF IInv, TypeOK, OtherTypes
<1>4. ASSUME NEW t \in Threads, SendLock(t) PROVE IInv'
  <2>1. pc[t] = "s_lock" /\ pc' = [pc EXCEPT ![t] = "s_in"] /\ ~fault
    BY <1>4 DEF SendLock, Go
  <2>2. /\ pc' \in [Threads -> Labels]
        /\ in' \in 0 .. Max /\ empty' \in 0 .. Max /\ occupied' \in 0 .. Max
        /\ OccupiedInv' /\ EmptyInv' /\ NeverRefused'
    <3>1. "s_in" \in Labels
      BY DEF Labels, SendLabels, RecvLabels, PeekLabels
    <3>2. in' \in Nat /\ empty' \in Nat /\ occupied' \in Nat
      BY <1>0, <1>4, <2>1 DEF SendLock, Go
    <3>3. /\ in' + Claims("s_lock") + Posts("s_lock") + occupied
               = in + Claims("s_in") + Posts("s_in") + occupied'
          /\ in' + empty' + Fills("s_in") + Frees("s_in")
               = in + empty + Fills("s_lock") + Frees("s_lock")
      BY <1>0, <1>4, <2>1, <3>2 DEF SendLock, Go, Claims, Posts, Fills, Frees
    <3> QED
      BY <2>1, <3>1, <3>2, <3>3, CountsKept
  <2>3. OtherTypes' /\ FirstInv'
    BY <1>0, <1>4, <2>1, IndexRange, PriosAssumption DEF SendLock, Go, IInv, OtherTypes, FirstInv
  <2>4. LockInv'
    BY <1>0, <1>4, <2>1, ThreadsAssumption DEF SendLock, Go, IInv, LockInv, TypeOK, Critical
  <2> QED
    BY <2>2, <2>3, <2>4 DEF IInv, TypeOK, OtherTypes
<1>5. ASSUME NEW t \in Threads, SendCount(t) PROVE IInv'
  <2>1. pc[t] = "s_in" /\ pc' = [pc EXCEPT ![t] = "s_store"] /\ ~fault /\ in # Max /\ in' = in + 1
    <3>1. in # Max
      BY <1>0, <1>5, ClaimHolds, MaxAssumption DEF SendCount, Go
    <3> QED
      BY <1>5, <3>1 DEF SendCount, Go
  <2>2. /\ pc' \in [Threads -> Labels]
        /\ in' \in 0 .. Max /\ empty' \in 0 .. Max /\ occupied' \in 0 .. Max
        /\ OccupiedInv' /\ EmptyInv' /\ NeverRefused'
    <3>1. "s_store" \in Labels
      BY DEF Labels, SendLabels, RecvLabels, PeekLabels
    <3>2. in' \in Nat /\ empty' \in Nat /\ occupied' \in Nat
      BY <1>0, <1>5, <2>1, ClaimHolds DEF SendCount, Go
    <3>3. /\ in' + Claims("s_in") + Posts("s_in") + occupied
               = in + Claims("s_store") + Posts("s_store") + occupied'
          /\ in' + empty' + Fills("s_store") + Frees("s_store")
               = in + empty + Fills("s_in") + Frees("s_in")
      BY <1>0, <1>5, <2>1, <3>2 DEF SendCount, Go, Claims, Posts, Fills, Frees
    <3> QED
      BY <2>1, <3>1, <3>2, <3>3, CountsKept
  <2>3. OtherTypes' /\ FirstInv'
    BY <1>0, <1>5, <2>1, IndexRange, PriosAssumption DEF SendCount, Go, IInv, OtherTypes, FirstInv
  <2>4. LockInv'
    BY <1>0, <1>5, <2>1, ThreadsAssumption DEF SendCount, Go, IInv, LockInv, TypeOK, Critical
  <2> QED
    BY <2>2, <2>3, <2>4 DEF IInv, TypeOK, OtherTypes
<1>6. ASSUME NEW t \in Threads, InsertStore(t) PROVE IInv'
  <2>1. pc[t] = "s_store" /\ pc' = [pc EXCEPT ![t] = "s_unlock"] /\ ~fault
    BY <1>6 DEF InsertStore, Go
  <2>2. /\ pc' \in [Threads -> Labels]
        /\ in' \in 0 .. Max /\ empty' \in 0 .. Max /\ occupied' \in 0 .. Max
        /\ OccupiedInv' /\ EmptyInv' /\ NeverRefused'
    <3>1. "s_unlock" \in Labels
      BY DEF Labels, SendLabels, RecvLabels, PeekLabels
    <3>2. in' \in Nat /\ empty' \in Nat /\ occupied' \in Nat
      BY <1>0, <1>6, <2>1 DEF InsertStore, Go
    <3>3. /\ in' + Claims("s_store") + Posts("s_store") + occupied
               = in + Claims("s_unlock") + Posts("s_unlock") + occupied'
          /\ in' + empty' + Fills("s_unlock") + Frees("s_unlock")
               = in + empty + Fills("s_store") + Frees("s_store")
      BY <1>0, <1>6, <2>1, <3>2 DEF InsertStore, Go, Claims, Posts, Fills, Frees
    <3> QED
      BY <2>1, <3>1, <3>2, <3>3, CountsKept
  <2>3. OtherTypes' /\ FirstInv'
    BY <1>0, <1>6, <2>1, IndexRange, PriosAssumption DEF InsertStore, Go, IInv, OtherTypes, FirstInv
  <2>4. LockInv'
    BY <1>0, <1>6, <2>1, ThreadsAssumption DEF InsertStore, Go, IInv, LockInv, TypeOK, Critical
  <2> QED
    BY <2>2, <2>3, <2>4 DEF IInv, TypeOK, OtherTypes
<1>7. ASSUME NEW t \in Threads, PrependStore(t) PROVE IInv'
  <2>1. pc[t] = "s_store" /\ pc' = [pc EXCEPT ![t] = "s_unlock"] /\ ~fault
    BY <1>7 DEF PrependStore, Go
  <2>2. /\ pc' \in [Threads -> Labels]
        /\ in' \in 0 .. Max /\ empty' \in 0 .. Max /\ occupied' \in 0 .. Max
        /\ OccupiedInv' /\ EmptyInv' /\ NeverRefused'
    <3>1. "s_unlock" \in Labels
      BY DEF Labels, SendLabels, RecvLabels, PeekLabels
    <3>2. in' \in Nat /\ empty' \in Nat /\ occupied' \in Nat
      BY <1>0, <1>7, <2>1 DEF PrependStore, Go
    <3>3. /\ in' + Claims("s_store") + Posts("s_store") + occupied
               = in + Claims("s_unlock") + Posts("s_unlock") + occupied'
          /\ in' + empty' + Fills("s_unlock") + Frees("s_unlock")
               = in + empty + Fills("s_store") + Frees("s_store")
      BY <1>0, <1>7, <2>1, <3>2 DEF PrependStore, Go, Claims, Posts, Fills, Frees
    <3> QED
      BY <2>1, <3>1, <3>2, <3>3, CountsKept
  <2>3. OtherTypes' /\ FirstInv'
    BY <1>0, <1>7, <2>1, IndexRange, PriosAssumption DEF PrependStore, Go, IInv, OtherTypes, FirstInv
  <2>4. LockInv'
    BY <1>0, <1>7, <2>1, ThreadsAssumption DEF PrependStore, Go, IInv, LockInv, TypeOK, Critical
  <2> QED
    BY <2>2, <2>3, <2>4 DEF IInv, TypeOK, OtherTypes
<1>8. ASSUME NEW t \in Threads, SendUnlock(t) PROVE IInv'
  <2>1. pc[t] = "s_unlock" /\ pc' = [pc EXCEPT ![t] = "s_post"] /\ ~fault
    BY <1>8, ClaimHolds DEF SendUnlock, Go
  <2>2. /\ pc' \in [Threads -> Labels]
        /\ in' \in 0 .. Max /\ empty' \in 0 .. Max /\ occupied' \in 0 .. Max
        /\ OccupiedInv' /\ EmptyInv' /\ NeverRefused'
    <3>1. "s_post" \in Labels
      BY DEF Labels, SendLabels, RecvLabels, PeekLabels
    <3>2. in' \in Nat /\ empty' \in Nat /\ occupied' \in Nat
      BY <1>0, <1>8, <2>1 DEF SendUnlock, Go
    <3>3. /\ in' + Claims("s_unlock") + Posts("s_unlock") + occupied
               = in + Claims("s_post") + Posts("s_post") + occupied'
          /\ in' + empty' + Fills("s_post") + Frees("s_post")
               = in + empty + Fills("s_unlock") + Frees("s_unlock")
      BY <1>0, <1>8, <2>1, <3>2 DEF SendUnlock, Go, Claims, Posts, Fills, Frees
    <3> QED
      BY <2>1, <3>1, <3>2, <3>3, CountsKept
  <2>3. OtherTypes' /\ FirstInv'
    BY <1>0, <1>8, <2>1, IndexRange, PriosAssumption DEF SendUnlock, Go, IInv, OtherTypes, FirstInv, Return
  <2>4. LockInv'
    BY <1>0, <1>8, <2>1, ThreadsAssumption DEF SendUnlock, Go, IInv, LockInv, TypeOK, Critical
  <2> QED
    BY <2>2, <2>3, <2>4 DEF IInv, TypeOK, OtherTypes
<1>9. ASSUME NEW t \in Threads, SendPost(t) PROVE IInv'
  <2>1. pc[t] = "s_post" /\ pc' = [pc EXCEPT ![t] = "idle"] /\ ~fault
    BY <1>9 DEF SendPost, Go
  <2>2. /\ pc' \in [Threads -> Labels]
        /\ in' \in 0 .. Max /\ empty' \in 0 .. Max /\ occupied' \in 0 .. Max
        /\ OccupiedInv' /\ EmptyInv' /\ NeverRefused'
    <3>1. "idle" \in Labels
      BY DEF Labels, SendLabels, RecvLabels, PeekLabels
    <3>2. in' \in Nat /\ empty' \in Nat /\ occupied' \in Nat
      BY <1>0, <1>9, <2>1 DEF SendPost, Go
    <3>3. /\ in' + Claims("s_post") + Posts("s_post") + occupied
               = in + Claims("idle") + Posts("idle") + occupied'
          /\ in' + empty' + Fills("idle") + Frees("idle")
               = in + empty + Fills("s_post") + Frees("s_post")
      BY <1>0, <1>9, <2>1, <3>2 DEF SendPost, Go, Claims, Posts, Fills, Frees
    <3> QED
      BY <2>1, <3>1, <3>2, <3>3, CountsKept
  <2>3. OtherTypes' /\ FirstInv'
    BY <1>0, <1>9, <2>1, IndexRange, PriosAssumption DEF SendPost, Go, IInv, OtherTypes, FirstInv, Return
  <2>4. LockInv'
    BY <1>0, <1>9, <2>1, ThreadsAssumption DEF SendPost, Go, IInv, LockInv, TypeOK, Critical
  <2> QED
    BY <2>2, <2>3, <2>4 DEF IInv, TypeOK, OtherTypes
<1>10. ASSUME NEW t \in Threads, Receive(t) PROVE IInv'
  <2>1. pc[t] = "idle" /\ pc' = [pc EXCEPT ![t] = "r_wait"] /\ ~fault
    BY <1>10 DEF Receive, Go
  <2>2. /\ pc' \in [Threads -> Labels]
        /\ in' \in 0 .. Max /\ empty' \in 0 .. Max /\ occupied' \in 0 .. Max
        /\ OccupiedInv' /\ EmptyInv' /\ NeverRefused'
    <3>1. "r_wait" \in Labels
      BY DEF Labels, SendLabels, RecvLabels, PeekLabels
    <3>2. in' \in Nat /\ empty' \in Nat /\ occupied' \in Nat
      BY <1>0, <1>10, <2>1 DEF Receive, Go
    <3>3. /\ in' + Claims("idle") + Posts("idle") + occupied
               = in + Claims("r_wait") + Posts("r_wait") + occupied'
          /\ in' + empty' + Fills("r_wait") + Frees("r_wait")
               = in + empty + Fills("idle") + Frees("idle")
      BY <1>0, <1>10, <2>1, <3>2 DEF Receive, Go, Claims, Posts, Fills, Frees
    <3> QED
      BY <2>1, <3>1, <3>2, <3>3, CountsKept
  <2>3. OtherTypes' /\ FirstInv'
    BY <1>0, <1>10, <2>1, IndexRange, PriosAssumption DEF Receive, Go, IInv, OtherTypes, FirstInv
  <2>4. LockInv'
    BY <1>0, <1>10, <2>1, ThreadsAssumption DEF Receive, Go, IInv, LockInv, TypeOK, Critical
  <2> QED
    BY <2>2, <2>3, <2>4 DEF IInv, TypeOK, OtherTypes
<1>11. ASSUME NEW t \in Threads, TryReceive(t) PROVE IInv'
  <2>1. pc[t] = "idle" /\ pc' = [pc EXCEPT ![t] = "r_lock"] /\ ~fault
    BY <1>11 DEF TryReceive, Go
  <2>2. /\ pc' \in [Threads -> Labels]
        /\ in' \in 0 .. Max /\ empty' \in 0 .. Max /\ occupied' \in 0 .. Max
        /\ OccupiedInv' /\ EmptyInv' /\ NeverRefused'
    <3>1. "r_lock" \in Labels
      BY DEF Labels, SendLabels, RecvLabels, PeekLabels
    <3>2. in' \in Nat /\ empty' \in Nat /\ occupied' \in Nat
      BY <1>0, <1>11, <2>1 DEF TryReceive, Go
    <3>3. /\ in' + Claims("idle") + Posts("idle") + occupied
               = in + Claims("r_lock") + Posts("r_lock") + occupied'
          /\ in' + empty' + Fills("r_lock") + Frees("r_lock")
               = in + empty + Fills("idle") + Frees("idle")
      BY <1>0, <1>11, <2>1, <3>2 DEF TryReceive, Go, Claims, Posts, Fills, Frees
    <3> QED
      BY <2>1, <3>1, <3>2, <3>3, CountsKept
  <2>3. OtherTypes' /\ FirstInv'
    BY <1>0, <1>11, <2>1, IndexRange, PriosAssumption DEF TryReceive, Go, IInv, OtherTypes, FirstInv
  <2>4. LockInv'
    BY <1>0, <1>11, <2>1, ThreadsAssumption DEF TryReceive, Go, IInv, LockInv, TypeOK, Critical
  <2> QED
    BY <2>2, <2>3, <2>4 DEF IInv, TypeOK, OtherTypes
<1>12. ASSUME NEW t \in Threads, ReceiveWait(t) PROVE IInv'
  <2>1. pc[t] = "r_wait" /\ pc' = [pc EXCEPT ![t] = "r_lock"] /\ ~fault
    BY <1>12 DEF ReceiveWait, Go
  <2>2. /\ pc' \in [Threads -> Labels]
        /\ in' \in 0 .. Max /\ empty' \in 0 .. Max /\ occupied' \in 0 .. Max
        /\ OccupiedInv' /\ EmptyInv' /\ NeverRefused'
    <3>1. "r_lock" \in Labels
      BY DEF Labels, SendLabels, RecvLabels, PeekLabels
    <3>2. in' \in Nat /\ empty' \in Nat /\ occupied' \in Nat
      BY <1>0, <1>12, <2>1 DEF ReceiveWait, Go
    <3>3. /\ in' + Claims("r_wait") + Posts("r_wait") + occupied
               = in + Claims("r_lock") + Posts("r_lock") + occupied'
          /\ in' + empty' + Fills("r_lock") + Frees("r_lock")
               = in + empty + Fills("r_wait") + Frees("r_wait")
      BY <1>0, <1>12, <2>1, <3>2 DEF ReceiveWait, Go, Claims, Posts, Fills, Frees
    <3> QED
      BY <2>1, <3>1, <3>2, <3>3, CountsKept
  <2>3. OtherTypes' /\ FirstInv'
    BY <1>0, <1>12, <2>1, IndexRange, PriosAssumption DEF ReceiveWait, Go, IInv, OtherTypes, FirstInv
  <2>4. LockInv'
    BY <1>0, <1>12, <2>1, ThreadsAssumption DEF ReceiveWait, Go, IInv, LockInv, TypeOK, Critical
  <2> QED
    BY <2>2, <2>3, <2>4 DEF IInv, TypeOK, OtherTypes
<1>13. ASSUME NEW t \in Threads, ReceiveLock(t) PROVE IInv'
  <2>1. pc[t] = "r_lock" /\ pc' = [pc EXCEPT ![t] = "r_in"] /\ ~fault
    BY <1>13 DEF ReceiveLock, Go
  <2>2. /\ pc' \in [Threads -> Labels]
        /\ in' \in 0 .. Max /\ empty' \in 0 .. Max /\ occupied' \in 0 .. Max
        /\ OccupiedInv' /\ EmptyInv' /\ NeverRefused'
    <3>1. "r_in" \in Labels
      BY DEF Labels, SendLabels, RecvLabels, PeekLabels
    <3>2. in' \in Nat /\ empty' \in Nat /\ occupied' \in Nat
      BY <1>0, <1>13, <2>1 DEF ReceiveLock, Go
    <3>3. /\ in' + Claims("r_lock") + Posts("r_lock") + occupied
               = in + Claims("r_in") + Posts("r_in") + occupied'
          /\ in' + empty' + Fills("r_in") + Frees("r_in")
               = in + empty + Fills("r_lock") + Frees("r_lock")
      BY <1>0, <1>13, <2>1, <3>2 DEF ReceiveLock, Go, Claims, Posts, Fills, Frees
    <3> QED
      BY <2>1, <3>1, <3>2, <3>3, CountsKept
  <2>3. OtherTypes' /\ FirstInv'
    BY <1>0, <1>13, <2>1, IndexRange, PriosAssumption DEF ReceiveLock, Go, IInv, OtherTypes, FirstInv
  <2>4. LockInv'
    BY <1>0, <1>13, <2>1, ThreadsAssumption DEF ReceiveLock, Go, IInv, LockInv, TypeOK, Critical
  <2> QED
    BY <2>2, <2>3, <2>4 DEF IInv, TypeOK, OtherTypes
<1>14. ASSUME NEW t \in Threads, ReceiveCount(t) PROVE IInv'
  <2>1. pc[t] = "r_in" /\ pc' = [pc EXCEPT ![t] = "r_get"] /\ ~fault /\ in # 0 /\ in' = in - 1
    <3>1. in # 0
      BY <1>0, <1>14, ClaimHolds DEF ReceiveCount, Go
    <3> QED
      BY <1>14, <3>1 DEF ReceiveCount, Go
  <2>2. /\ pc' \in [Threads -> Labels]
        /\ in' \in 0 .. Max /\ empty' \in 0 .. Max /\ occupied' \in 0 .. Max
        /\ OccupiedInv' /\ EmptyInv' /\ NeverRefused'
    <3>1. "r_get" \in Labels
      BY DEF Labels, SendLabels, RecvLabels, PeekLabels
    <3>2. in' \in Nat /\ empty' \in Nat /\ occupied' \in Nat
      BY <1>0, <1>14, <2>1, ClaimHolds DEF ReceiveCount, Go
    <3>3. /\ in' + Claims("r_in") + Posts("r_in") + occupied
               = in + Claims("r_get") + Posts("r_get") + occupied'
          /\ in' + empty' + Fills("r_get") + Frees("r_get")
               = in + empty + Fills("r_in") + Frees("r_in")
      BY <1>0, <1>14, <2>1, <3>2 DEF ReceiveCount, Go, Claims, Posts, Fills, Frees
    <3> QED
      BY <2>1, <3>1, <3>2, <3>3, CountsKept
  <2>3. OtherTypes' /\ FirstInv'
    BY <1>0, <1>14, <2>1, IndexRange, PriosAssumption DEF ReceiveCount, Go, IInv, OtherTypes, FirstInv
  <2>4. LockInv'
    BY <1>0, <1>14, <2>1, ThreadsAssumption DEF ReceiveCount, Go, IInv, LockInv, TypeOK, Critical
  <2> QED
    BY <2>2, <2>3, <2>4 DEF IInv, TypeOK, OtherTypes
<1>15. ASSUME NEW t \in Threads, ReceiveStore(t) PROVE IInv'
  <2>1. pc[t] = "r_get" /\ pc' = [pc EXCEPT ![t] = "r_unlock"] /\ ~fault
    BY <1>15 DEF ReceiveStore, Go
  <2>2. /\ pc' \in [Threads -> Labels]
        /\ in' \in 0 .. Max /\ empty' \in 0 .. Max /\ occupied' \in 0 .. Max
        /\ OccupiedInv' /\ EmptyInv' /\ NeverRefused'
    <3>1. "r_unlock" \in Labels
      BY DEF Labels, SendLabels, RecvLabels, PeekLabels
    <3>2. in' \in Nat /\ empty' \in Nat /\ occupied' \in Nat
      BY <1>0, <1>15, <2>1 DEF ReceiveStore, Go
    <3>3. /\ in' + Claims("r_get") + Posts("r_get") + occupied
               = in + Claims("r_unlock") + Posts("r_unlock") + occupied'
          /\ in' + empty' + Fills("r_unlock") + Frees("r_unlock")
               = in + empty + Fills("r_get") + Frees("r_get")
      BY <1>0, <1>15, <2>1, <3>2 DEF ReceiveStore, Go, Claims, Posts, Fills, Frees
    <3> QED
      BY <2>1, <3>1, <3>2, <3>3, CountsKept
  <2>3. OtherTypes' /\ FirstInv'
    BY <1>0, <1>15, <2>1, IndexRange, PriosAssumption DEF ReceiveStore, Go, IInv, OtherTypes, FirstInv
  <2>4. LockInv'
    BY <1>0, <1>15, <2>1, ThreadsAssumption DEF ReceiveStore, Go, IInv, LockInv, TypeOK, Critical
  <2> QED
    BY <2>2, <2>3, <2>4 DEF IInv, TypeOK, OtherTypes
<1>16. ASSUME NEW t \in Threads, ReceiveUnlock(t) PROVE IInv'
  <2>1. pc[t] = "r_unlock" /\ pc' = [pc EXCEPT ![t] = "r_post"] /\ ~fault
    BY <1>16, ClaimHolds DEF ReceiveUnlock, Go
  <2>2. /\ pc' \in [Threads -> Labels]
        /\ in' \in 0 .. Max /\ empty' \in 0 .. Max /\ occupied' \in 0 .. Max
        /\ OccupiedInv' /\ EmptyInv' /\ NeverRefused'
    <3>1. "r_post" \in Labels
      BY DEF Labels, SendLabels, RecvLabels, PeekLabels
    <3>2. in' \in Nat /\ empty' \in Nat /\ occupied' \in Nat
      BY <1>0, <1>16, <2>1 DEF ReceiveUnlock, Go
    <3>3. /\ in' + Claims("r_unlock") + Posts("r_unlock") + occupied
               = in + Claims("r_post") + Posts("r_post") + occupied'
          /\ in' + empty' + Fills("r_post") + Frees("r_post")
               = in + empty + Fills("r_unlock") + Frees("r_unlock")
      BY <1>0, <1>16, <2>1, <3>2 DEF ReceiveUnlock, Go, Claims, Posts, Fills, Frees
    <3> QED
      BY <2>1, <3>1, <3>2, <3>3, CountsKept
  <2>3. OtherTypes' /\ FirstInv'
    BY <1>0, <1>16, <2>1, IndexRange, PriosAssumption DEF ReceiveUnlock, Go, IInv, OtherTypes, FirstInv
  <2>4. LockInv'
    BY <1>0, <1>16, <2>1, ThreadsAssumption DEF ReceiveUnlock, Go, IInv, LockInv, TypeOK, Critical
  <2> QED
    BY <2>2, <2>3, <2>4 DEF IInv, TypeOK, OtherTypes
<1>17. ASSUME NEW t \in Threads, ReceivePost(t) PROVE IInv'
  <2>1. pc[t] = "r_post" /\ pc' = [pc EXCEPT ![t] = "idle"] /\ ~fault
    BY <1>17 DEF ReceivePost, Go
  <2>2. /\ pc' \in [Threads -> Labels]
        /\ in' \in 0 .. Max /\ empty' \in 0 .. Max /\ occupied' \in 0 .. Max
        /\ OccupiedInv' /\ EmptyInv' /\ NeverRefused'
    <3>1. "idle" \in Labels
      BY DEF Labels, SendLabels, RecvLabels, PeekLabels
    <3>2. in' \in Nat /\ empty' \in Nat /\ occupied' \in Nat
      BY <1>0, <1>17, <2>1 DEF ReceivePost, Go
    <3>3. /\ in' + Claims("r_post") + Posts("r_post") + occupied
               = in + Claims("idle") + Posts("idle") + occupied'
          /\ in' + empty' + Fills("idle") + Frees("idle")
               = in + empty + Fills("r_post") + Frees("r_post")
      BY <1>0, <1>17, <2>1, <3>2 DEF ReceivePost, Go, Claims, Posts, Fills, Frees
    <3> QED
      BY <2>1, <3>1, <3>2, <3>3, CountsKept
  <2>3. OtherTypes' /\ FirstInv'
    BY <1>0, <1>17, <2>1, IndexRange, PriosAssumption DEF ReceivePost, Go, IInv, OtherTypes, FirstInv
  <2>4. LockInv'
    BY <1>0, <1>17, <2>1, ThreadsAssumption DEF ReceivePost, Go, IInv, LockInv, TypeOK, Critical
  <2> QED
    BY <2>2, <2>3, <2>4 DEF IInv, TypeOK, OtherTypes
<1>18. ASSUME NEW t \in Threads, Peek(t) PROVE IInv'
  <2>1. pc[t] = "idle" /\ pc' = [pc EXCEPT ![t] = "p_lock"] /\ ~fault
    BY <1>18 DEF Peek, Go
  <2>2. /\ pc' \in [Threads -> Labels]
        /\ in' \in 0 .. Max /\ empty' \in 0 .. Max /\ occupied' \in 0 .. Max
        /\ OccupiedInv' /\ EmptyInv' /\ NeverRefused'
    <3>1. "p_lock" \in Labels
      BY DEF Labels, SendLabels, RecvLabels, PeekLabels
    <3>2. in' \in Nat /\ empty' \in Nat /\ occupied' \in Nat
      BY <1>0, <1>18, <2>1 DEF Peek, Go
    <3>3. /\ in' + Claims("idle") + Posts("idle") + occupied
               = in + Claims("p_lock") + Posts("p_lock") + occupied'
          /\ in' + empty' + Fills("p_lock") + Frees("p_lock")
               = in + empty + Fills("idle") + Frees("idle")
      BY <1>0, <1>18, <2>1, <3>2 DEF Peek, Go, Claims, Posts, Fills, Frees
    <3> QED
      BY <2>1, <3>1, <3>2, <3>3, CountsKept
  <2>3. OtherTypes' /\ FirstInv'
    BY <1>0, <1>18, <2>1, IndexRange, PriosAssumption DEF Peek, Go, IInv, OtherTypes, FirstInv
  <2>4. LockInv'
    BY <1>0, <1>18, <2>1, ThreadsAssumption DEF Peek, Go, IInv, LockInv, TypeOK, Critical
  <2> QED
    BY <2>2, <2>3, <2>4 DEF IInv, TypeOK, OtherTypes
<1>19. ASSUME NEW t \in Threads, PeekLock(t) PROVE IInv'
  <2>1. pc[t] = "p_lock" /\ pc' = [pc EXCEPT ![t] = "p_look"] /\ ~fault
    BY <1>19 DEF PeekLock, Go
  <2>2. /\ pc' \in [Threads -> Labels]
        /\ in' \in 0 .. Max /\ empty' \in 0 .. Max /\ occupied' \in 0 .. Max
        /\ OccupiedInv' /\ EmptyInv' /\ NeverRefused'
    <3>1. "p_look" \in Labels
      BY DEF Labels, SendLabels, RecvLabels, PeekLabels
    <3>2. in' \in Nat /\ empty' \in Nat /\ occupied' \in Nat
      BY <1>0, <1>19, <2>1 DEF PeekLock, Go
    <3>3. /\ in' + Claims("p_lock") + Posts("p_lock") + occupied
               = in + Claims("p_look") + Posts("p_look") + occupied'
          /\ in' + empty' + Fills("p_look") + Frees("p_look")
               = in + empty + Fills("p_lock") + Frees("p_lock")
      BY <1>0, <1>19, <2>1, <3>2 DEF PeekLock, Go, Claims, Posts, Fills, Frees
    <3> QED
      BY <2>1, <3>1, <3>2, <3>3, CountsKept
  <2>3. OtherTypes' /\ FirstInv'
    BY <1>0, <1>19, <2>1, IndexRange, PriosAssumption DEF PeekLock, Go, IInv, OtherTypes, FirstInv
  <2>4. LockInv'
    BY <1>0, <1>19, <2>1, ThreadsAssumption DEF PeekLock, Go, IInv, LockInv, TypeOK, Critical
  <2> QED
    BY <2>2, <2>3, <2>4 DEF IInv, TypeOK, OtherTypes
<1>20. ASSUME NEW t \in Threads, PeekLook(t) PROVE IInv'
  <2>1. pc[t] = "p_look" /\ pc' = [pc EXCEPT ![t] = "p_unlock"] /\ ~fault
    BY <1>20 DEF PeekLook, Go
  <2>2. /\ pc' \in [Threads -> Labels]
        /\ in' \in 0 .. Max /\ empty' \in 0 .. Max /\ occupied' \in 0 .. Max
        /\ OccupiedInv' /\ EmptyInv' /\ NeverRefused'
    <3>1. "p_unlock" \in Labels
      BY DEF Labels, SendLabels, RecvLabels, PeekLabels
    <3>2. in' \in Nat /\ empty' \in Nat /\ occupied' \in Nat
      BY <1>0, <1>20, <2>1 DEF PeekLook, Go
    <3>3. /\ in' + Claims("p_look") + Posts("p_look") + occupied
               = in + Claims("p_unlock") + Posts("p_unlock") + occupied'
          /\ in' + empty' + Fills("p_unlock") + Frees("p_unlock")
               = in + empty + Fills("p_look") + Frees("p_look")
      BY <1>0, <1>20, <2>1, <3>2 DEF PeekLook, Go, Claims, Posts, Fills, Frees
    <3> QED
      BY <2>1, <3>1, <3>2, <3>3, CountsKept
  <2>3. OtherTypes' /\ FirstInv'
    BY <1>0, <1>20, <2>1, IndexRange, PriosAssumption DEF PeekLook, Go, IInv, OtherTypes, FirstInv
  <2>4. LockInv'
    BY <1>0, <1>20, <2>1, ThreadsAssumption DEF PeekLook, Go, IInv, LockInv, TypeOK, Critical
  <2> QED
    BY <2>2, <2>3, <2>4 DEF IInv, TypeOK, OtherTypes
<1>21. ASSUME NEW t \in Threads, PeekUnlock(t) PROVE IInv'
  <2>1. pc[t] = "p_unlock" /\ pc' = [pc EXCEPT ![t] = "idle"] /\ ~fault
    BY <1>21 DEF PeekUnlock, Go
  <2>2. /\ pc' \in [Threads -> Labels]
        /\ in' \in 0 .. Max /\ empty' \in 0 .. Max /\ occupied' \in 0 .. Max
        /\ OccupiedInv' /\ EmptyInv' /\ NeverRefused'
    <3>1. "idle" \in Labels
      BY DEF Labels, SendLabels, RecvLabels, PeekLabels
    <3>2. in' \in Nat /\ empty' \in Nat /\ occupied' \in Nat
      BY <1>0, <1>21, <2>1 DEF PeekUnlock, Go
    <3>3. /\ in' + Claims("p_unlock") + Posts("p_unlock") + occupied
               = in + Claims("idle") + Posts("idle") + occupied'
          /\ in' + empty' + Fills("idle") + Frees("idle")
               = in + empty + Fills("p_unlock") + Frees("p_unlock")
      BY <1>0, <1>21, <2>1, <3>2 DEF PeekUnlock, Go, Claims, Posts, Fills, Frees
    <3> QED
      BY <2>1, <3>1, <3>2, <3>3, CountsKept
  <2>3. OtherTypes' /\ FirstInv'
    BY <1>0, <1>21, <2>1, IndexRange, PriosAssumption DEF PeekUnlock, Go, IInv, OtherTypes, FirstInv
  <2>4. LockInv'
    BY <1>0, <1>21, <2>1, ThreadsAssumption DEF PeekUnlock, Go, IInv, LockInv, TypeOK, Critical
  <2> QED
    BY <2>2, <2>3, <2>4 DEF IInv, TypeOK, OtherTypes
<1>22. CASE UNCHANGED vars
  BY <1>22 DEF vars, IInv, TypeOK, LockInv, OccupiedInv, EmptyInv, NeverRefused, FirstInv,
       Claiming, Posting, Filling, Freeing, At
<1> QED
  BY <1>1, <1>2, <1>3, <1>4, <1>5, <1>6, <1>7, <1>8, <1>9, <1>10, <1>11, <1>12, <1>13, <1>14, <1>15, <1>16, <1>17, <1>18, <1>19, <1>20, <1>21, <1>22
  DEF Next, Call, Step, SendStep, ReceiveStep, PeekStep

(* No interleaving of calls breaks the invariant: type correctness, mutual    *)
(* exclusion, and the semaphores' account of the ring.                        *)
THEOREM Invariance == Spec => []IInv
<1>1. Init => IInv
  BY InitIInv
<1>2. IInv /\ [Next]_vars => IInv'
  BY StepIInv
<1> QED
  BY <1>1, <1>2, PTL DEF Spec

\* Every variable of the queue keeps its type, every semaphore its range.
THEOREM TypeCorrect == Spec => []TypeOK
BY Invariance, PTL DEF IInv

(* The semaphores account for every slot and every message, whatever the      *)
(* threads do.                                                                *)
THEOREM SemaphoresCount == Spec => []SemaphoreInv
BY Invariance, PTL DEF IInv, SemaphoreInv

(* No call that a semaphore let through is refused: send never returns -1 for *)
(* a full list and receive never returns -20.                                 *)
THEOREM CallsAdmitted == Spec => []NeverRefused
BY Invariance, PTL DEF IInv

\* The steps of two ring operations never interleave.
THEOREM MutualExclusion == Spec => []LockInv
BY Invariance, PTL DEF IInv

(* When every thread is outside the operations or waits at a semaphore, no    *)
(* one waits for a message or a slot that is there.                           *)
THEOREM WakeupsKept == Spec => []NoLostWakeup
<1>1. ASSUME IInv,
             \A t \in Threads : pc[t] \in {"idle", "s_wait", "r_wait", "p_lock"}
      PROVE  occupied = in /\ empty = Max - in
  <2>1. Claiming = {} /\ Posting = {} /\ Filling = {} /\ Freeing = {}
    BY <1>1 DEF Claiming, Posting, Filling, Freeing, At
  <2>2. /\ in \in Nat /\ empty \in Nat /\ occupied \in Nat /\ Max \in Nat
        /\ in = occupied + Cardinality(Claiming) + Cardinality(Posting)
        /\ Max = in + empty + Cardinality(Filling) + Cardinality(Freeing)
    BY <1>1, MaxAssumption DEF IInv, TypeOK, OccupiedInv, EmptyInv
  <2> QED
    BY <2>1, <2>2, FS_EmptySet
<1>2. IInv => NoLostWakeup
  BY <1>1 DEF NoLostWakeup
<1> QED
  BY <1>2, Invariance, PTL

\* No send in progress has the high priority.
PrioInv == \A t \in Threads : prio[t] = 0

(* A queue whose senders all use the ordinary priority, as pMsgQSend does,    *)
(* never touches memory outside its slots.                                    *)
THEOREM FifoNeverFaults == ASSUME Prios = {0} PROVE Spec => []NoFault
<1>1. Init => PrioInv /\ NoFault
  BY DEF Init, PrioInv, NoFault
<1>2. ASSUME IInv, PrioInv, NoFault, [Next]_vars
      PROVE  PrioInv' /\ NoFault'
  <2>1. TypeOK /\ f \in Slots /\ ~fault
    BY <1>2 DEF IInv, FirstInv, NoFault
  <2>2. ASSUME NEW t \in Threads, Call(t)
        PROVE  PrioInv' /\ NoFault'
    BY <1>2, <2>1, <2>2, Prios = {0}
    DEF Call, Send, PMsgQSend, Receive, TryReceive, Peek, PrioInv, NoFault, TypeOK, calls
  <2>3. ASSUME NEW t \in Threads, SendStep(t)
        PROVE  PrioInv' /\ NoFault'
    <3>1. CASE InsertStore(t)
      BY <1>2, <2>1, <3>1 DEF InsertStore, PrioInv, NoFault, TypeOK, calls
    <3>2. ~ PrependStore(t)
      BY <1>2 DEF PrependStore, PrioInv
    <3>3. CASE SendWait(t) \/ SendLock(t) \/ SendCount(t)
      BY <1>2, <2>1, <3>3 DEF SendWait, SendLock, SendCount, PrioInv, NoFault, calls
    <3>4. CASE SendUnlock(t) \/ SendPost(t)
      BY <1>2, <2>1, <3>4 DEF SendUnlock, SendPost, Return, PrioInv, NoFault, TypeOK, calls
    <3> QED
      BY <2>3, <3>1, <3>2, <3>3, <3>4 DEF SendStep
  <2>4. ASSUME NEW t \in Threads, ReceiveStep(t)
        PROVE  PrioInv' /\ NoFault'
    BY <1>2, <2>1, <2>4 DEF ReceiveStep, ReceiveWait, ReceiveLock, ReceiveCount,
       ReceiveStore, ReceiveUnlock, ReceivePost, PrioInv, NoFault, calls
  <2>5. ASSUME NEW t \in Threads, PeekStep(t)
        PROVE  PrioInv' /\ NoFault'
    BY <1>2, <2>1, <2>5 DEF PeekStep, PeekLock, PeekLook, PeekUnlock, PrioInv, NoFault, calls
  <2>6. CASE UNCHANGED vars
    BY <1>2, <2>6 DEF vars, calls, PrioInv, NoFault
  <2> QED
    BY <1>2, <2>2, <2>3, <2>4, <2>5, <2>6 DEF Next, Step
<1> QED
  BY <1>1, <1>2, Invariance, PTL DEF Spec

-----------------------------------------------------------------------------
\* The queue implements BoundedDeque

\* The slot of the i-th message when the first one is in slot `first'.
SlotOf(first, i) == (first + i - 1) % Max

\* The n messages of ring s from index first on.
Contents(s, first, n) == [i \in 1 .. n |-> s[SlotOf(first, i)]]

Precedes(i, j) == j = i + 1

\* Slot last is the one behind the n messages from slot first on.
Behind(last, first, n) == last = SlotOf(first, n + 1)

\* The numbers of messages that the ring can hold.
Lengths == 0 .. Max

\* The numbers of messages of a ring that has room for one more.
Spare == 0 .. Max - 1

\* Message m in front of the messages q.
Front(m, q) == <<m>> \o q

\* Ring s with message m stored in slot i.
Stored(s, i, m) == [s EXCEPT ![i] = m]

\* What the refinement mapping takes for the messages in the queue.
Items == Contents(store, f, Length)

\* What the refinement mapping takes for the calls of the threads.
Ops == [t \in Threads |-> Doing(pc[t])]

\* A thread inside send, and no other, has a message to send.
ArgInv == \A t \in Threads : IF pc[t] \in SendLabels THEN arg[t] \in Msgs
                             ELSE arg[t] = NoMsg /\ prio[t] = 0

\* The next message goes behind the last one.
RingInv == ~fault => l = SlotOf(f, Length + 1)

\* The inductive invariant of the refinement.
DequeInv == IInv /\ ArgInv /\ RingInv
-----------------------------------------------------------------------------
\* Arithmetic of indices

\* An index that has gone past the end at most once.
LEMMA Wrap ==
  ASSUME NEW x \in Nat, x < 2 * Max
  PROVE  x % Max = IF x < Max THEN x ELSE x - Max
<1>1. Max \in Nat /\ Max > 0
  BY MaxAssumption
<1>2. CASE x < Max
  BY <1>1, <1>2
<1>3. CASE ~(x < Max)
  BY <1>1, <1>3
<1> QED
  BY <1>2, <1>3

LEMMA SlotIs ==
  ASSUME NEW first \in Slots, NEW i \in 1 .. Max + 1
  PROVE  /\ SlotOf(first, i) \in Slots
         /\ SlotOf(first, i) = IF first + i - 1 < Max THEN first + i - 1 ELSE first + i - 1 - Max
<1>1. first + i - 1 \in Nat /\ first + i - 1 < 2 * Max /\ Max \in Nat
  BY MaxAssumption DEF Slots
<1> QED
  BY <1>1, Wrap DEF Slots, SlotOf

LEMMA ContentsType ==
  ASSUME NEW S, NEW s \in [Slots -> S], NEW first \in Slots, NEW n \in Lengths
  PROVE  /\ Contents(s, first, n) \in Seq(S)
         /\ Len(Contents(s, first, n)) = n
         /\ \A i \in 1 .. n : Contents(s, first, n)[i] = s[SlotOf(first, i)]
<1>1. n \in Nat /\ Contents(s, first, n) \in [1 .. n -> S]
  <2>1. ASSUME NEW i \in 1 .. n PROVE s[SlotOf(first, i)] \in S
    BY SlotIs, MaxAssumption DEF Lengths
  <2> QED
    BY <2>1, MaxAssumption DEF Contents, Lengths
<1> QED
  BY <1>1 DEF Contents

\* A message stored behind the last one is appended.
LEMMA StoreBehind ==
  ASSUME NEW S, NEW s \in [Slots -> S], NEW first \in Slots, NEW n \in Spare,
         NEW m \in S, NEW last, Behind(last, first, n)
  PROVE  /\ Contents(Stored(s, last, m), first, n + 1) = Append(Contents(s, first, n), m)
         /\ NextIndex(last) = SlotOf(first, n + 2)
<1> DEFINE t == Stored(s, last, m)
           new == Contents(t, first, n + 1)
           old == Contents(s, first, n)
<1>0. n \in Lengths
  BY MaxAssumption DEF Lengths, Spare
<1>1. n \in Nat /\ n + 1 \in 1 .. Max + 1 /\ n + 2 \in 1 .. Max + 1 /\ n \in Lengths
      /\ n + 1 \in Lengths /\ Max \in Nat /\ Max > 0 /\ first \in Nat /\ first < Max
  BY MaxAssumption DEF Slots, Lengths, Spare
<1>2. /\ last \in Slots
      /\ last = IF first + n < Max THEN first + n ELSE first + n - Max
  BY <1>1, SlotIs DEF Behind
<1>3. t \in [Slots -> S] /\ t[last] = m /\ \A x \in Slots \ {last} : t[x] = s[x]
  BY <1>2 DEF Stored
<1> HIDE DEF t
<1>4. /\ old \in Seq(S) /\ Len(old) = n
      /\ \A i \in 1 .. n : old[i] = s[SlotOf(first, i)]
  BY <1>0, ContentsType
<1>5. /\ new \in Seq(S) /\ Len(new) = n + 1
      /\ \A i \in 1 .. n + 1 : new[i] = t[SlotOf(first, i)]
  <2>1. PICK k \in Lengths : k = n + 1
    BY <1>1
  <2>2. /\ Contents(t, first, k) \in Seq(S) /\ Len(Contents(t, first, k)) = k
        /\ \A i \in 1 .. k : Contents(t, first, k)[i] = t[SlotOf(first, i)]
    BY <1>3, ContentsType
  <2> QED
    BY <2>1, <2>2
<1> HIDE DEF new, old
<1>6. ASSUME NEW i \in 1 .. n PROVE new[i] = old[i]
  <2>1. SlotOf(first, i) \in Slots /\ SlotOf(first, i) # last
    BY <1>1, <1>2, SlotIs
  <2>2. i \in 1 .. n + 1
    BY <1>1
  <2> QED
    BY <1>3, <1>4, <1>5, <2>1, <2>2
<1>7. new[n + 1] = m
  <2>1. n + 1 \in 1 .. n + 1
    BY <1>1
  <2> QED
    BY <1>3, <1>5, <2>1 DEF Behind
<1>8. /\ Append(old, m) \in Seq(S) /\ Len(Append(old, m)) = n + 1
      /\ \A i \in 1 .. n : Append(old, m)[i] = old[i]
      /\ Append(old, m)[n + 1] = m
  BY <1>4, AppendProperties
<1>9. new = Append(old, m)
  <2>1. \A i \in 1 .. n + 1 : i \in 1 .. n \/ i = n + 1
    BY <1>1
  <2>2. \A i \in 1 .. Len(new) : new[i] = Append(old, m)[i]
    BY <1>5, <1>6, <1>7, <1>8, <2>1
  <2> QED
    BY <1>5, <1>8, <2>2, SeqEqual
<1>10. NextIndex(last) = SlotOf(first, n + 2)
  BY <1>1, <1>2, SlotIs DEF NextIndex
<1> QED
  BY <1>9, <1>10 DEF t, new, old

\* A message stored in the slot before the first one is put in front.
LEMMA StoreBefore ==
  ASSUME NEW S, NEW s \in [Slots -> S], NEW first \in Slots, NEW b \in Slots, Precedes(b, first),
         NEW n \in Spare, NEW m \in S
  PROVE  /\ Contents(Stored(s, b, m), b, n + 1) = Front(m, Contents(s, first, n))
         /\ SlotOf(b, n + 2) = SlotOf(first, n + 1)
<1> DEFINE t == Stored(s, b, m)
           new == Contents(t, b, n + 1)
           old == Contents(s, first, n)
<1>0. n \in Lengths
  BY MaxAssumption DEF Lengths, Spare
<1>1. n \in Nat /\ n + 1 \in 1 .. Max + 1 /\ n + 2 \in 1 .. Max + 1 /\ n \in Lengths
      /\ n + 1 \in Lengths /\ Max \in Nat /\ Max > 0 /\ b \in Nat /\ first < Max /\ first = b + 1
  BY MaxAssumption DEF Slots, Lengths, Precedes, Spare
<1>2. t \in [Slots -> S] /\ t[b] = m /\ \A x \in Slots \ {b} : t[x] = s[x]
  BY DEF Stored
<1> HIDE DEF t
<1>3. /\ old \in Seq(S) /\ Len(old) = n
      /\ \A i \in 1 .. n : old[i] = s[SlotOf(first, i)]
  BY <1>0, ContentsType
<1>4. /\ new \in Seq(S) /\ Len(new) = n + 1
      /\ \A i \in 1 .. n + 1 : new[i] = t[SlotOf(b, i)]
  <2>1. PICK k \in Lengths : k = n + 1
    BY <1>1
  <2>2. /\ Contents(t, b, k) \in Seq(S) /\ Len(Contents(t, b, k)) = k
        /\ \A i \in 1 .. k : Contents(t, b, k)[i] = t[SlotOf(b, i)]
    BY <1>2, ContentsType
  <2> QED
    BY <2>1, <2>2
<1> HIDE DEF new, old
<1>5. ASSUME NEW i \in 1 .. n + 1 PROVE SlotOf(b, i + 1) = SlotOf(first, i)
  BY <1>1, SlotIs
<1>6. ASSUME NEW i \in 1 .. n PROVE new[i + 1] = old[i]
  <2>1. i + 1 \in 1 .. n + 1 /\ SlotOf(b, i + 1) = SlotOf(first, i)
    BY <1>1, <1>5
  <2>2. SlotOf(first, i) \in Slots /\ SlotOf(first, i) # b
    BY <1>1, SlotIs
  <2> QED
    BY <1>2, <1>3, <1>4, <2>1, <2>2
<1>7. new[1] = m
  <2>1. SlotOf(b, 1) = b /\ 1 \in 1 .. n + 1
    BY <1>1, SlotIs
  <2> QED
    BY <1>2, <1>4, <2>1
<1>8. /\ <<m>> \in Seq(S) /\ Len(<<m>>) = 1 /\ <<m>>[1] = m
      /\ <<m>> \o old \in Seq(S) /\ Len(<<m>> \o old) = 1 + n
      /\ \A i \in 1 .. 1 + n : (<<m>> \o old)[i] = IF i <= 1 THEN <<m>>[i] ELSE old[i - 1]
  <2>1. <<m>> \in Seq(S) /\ Len(<<m>>) = 1 /\ <<m>>[1] = m
    OBVIOUS
  <2> QED
    BY <1>3, <2>1, ConcatProperties
<1>9. new = <<m>> \o old
  <2>1. ASSUME NEW i \in 1 .. n + 1 PROVE new[i] = (<<m>> \o old)[i]
    <3>1. CASE i = 1
      BY <1>1, <1>7, <1>8, <3>1
    <3>2. CASE i # 1
      <4>1. i - 1 \in 1 .. n /\ (i - 1) + 1 = i /\ i \in 1 .. 1 + n /\ ~(i <= 1)
        BY <1>1, <3>2
      <4> QED
        BY <1>6, <1>8, <4>1
    <3> QED
      BY <3>1, <3>2
  <2>2. 1 + n = n + 1
    BY <1>1
  <2> QED
    BY <1>4, <1>8, <2>1, <2>2, SeqEqual
<1>10. SlotOf(b, n + 2) = SlotOf(first, n + 1)
  <2>1. n + 1 \in 1 .. n + 1 /\ (n + 1) + 1 = n + 2
    BY <1>1
  <2> QED
    BY <1>5, <2>1
<1> QED
  BY <1>9, <1>10 DEF t, new, old, Front

\* When the first index moves on, the first message is gone.
LEMMA TakeFirst ==
  ASSUME NEW S, NEW s \in [Slots -> S], NEW first \in Slots, NEW n \in 1 .. Max
  PROVE  /\ Contents(s, first, n) # <<>>
         /\ Head(Contents(s, first, n)) = s[first]
         /\ Contents(s, NextIndex(first), n - 1) = Tail(Contents(s, first, n))
         /\ SlotOf(NextIndex(first), n) = SlotOf(first, n + 1)
<1> DEFINE g == NextIndex(first)
           new == Contents(s, g, n - 1)
           old == Contents(s, first, n)
<1>0. n \in Lengths
  BY MaxAssumption DEF Lengths
<1>1. n \in Nat /\ n - 1 \in Lengths /\ n \in Lengths /\ n + 1 \in 1 .. Max + 1
      /\ Max \in Nat /\ Max > 0 /\ first \in Nat /\ first < Max
  BY MaxAssumption DEF Slots, Lengths
<1>2. g \in Slots /\ g = IF first + 1 = Max THEN 0 ELSE first + 1
  BY <1>1 DEF NextIndex, Slots
<1> HIDE DEF g
<1>3. /\ old \in Seq(S) /\ Len(old) = n
      /\ \A i \in 1 .. n : old[i] = s[SlotOf(first, i)]
  BY <1>0, ContentsType
<1>4. /\ new \in Seq(S) /\ Len(new) = n - 1
      /\ \A i \in 1 .. n - 1 : new[i] = s[SlotOf(g, i)]
  <2>1. PICK k \in Lengths : k = n - 1
    BY <1>1
  <2>2. /\ Contents(s, g, k) \in Seq(S) /\ Len(Contents(s, g, k)) = k
        /\ \A i \in 1 .. k : Contents(s, g, k)[i] = s[SlotOf(g, i)]
    BY <1>2, ContentsType
  <2> QED
    BY <2>1, <2>2
<1> HIDE DEF new, old
<1>5. old # <<>> /\ Head(old) = old[1]
  BY <1>1, <1>3
<1>6. Head(old) = s[first]
  <2>1. SlotOf(first, 1) = first /\ 1 \in 1 .. n
    BY <1>1, SlotIs
  <2> QED
    BY <1>3, <1>5, <2>1
<1>7. /\ Tail(old) \in Seq(S) /\ Len(Tail(old)) = n - 1
      /\ \A i \in 1 .. n - 1 : Tail(old)[i] = old[i + 1]
  BY <1>3, <1>5, HeadTailProperties
<1>8. ASSUME NEW i \in 1 .. n PROVE SlotOf(g, i) = SlotOf(first, i + 1)
  <2>1. i \in 1 .. Max + 1 /\ i + 1 \in 1 .. Max + 1 /\ i \in Nat
    BY <1>1
  <2>2. /\ SlotOf(g, i) = IF g + i - 1 < Max THEN g + i - 1 ELSE g + i - 1 - Max
        /\ SlotOf(first, i + 1) = IF first + (i + 1) - 1 < Max THEN first + (i + 1) - 1
                                   ELSE first + (i + 1) - 1 - Max
    BY <1>2, <2>1, SlotIs
  <2> QED
    BY <1>1, <1>2, <2>1, <2>2
<1>9. new = Tail(old)
  <2>1. ASSUME NEW i \in 1 .. n - 1 PROVE new[i] = Tail(old)[i]
    <3>1. i \in 1 .. n /\ i + 1 \in 1 .. n
      BY <1>1
    <3> QED
      BY <1>3, <1>4, <1>7, <1>8, <3>1
  <2> QED
    BY <1>4, <1>7, <2>1, SeqEqual
<1>10. SlotOf(g, n) = SlotOf(first, n + 1)
  BY <1>1, <1>8
<1> QED
  BY <1>5, <1>6, <1>9, <1>10 DEF g, new, old
-----------------------------------------------------------------------------
\* The number of messages

\* What a thread at label b adds to Length beyond `in'.
Ahead(b) == IF b = "r_get" THEN 1 ELSE IF b = "s_store" THEN -1 ELSE 0

\* Length after a step of one thread.
LEMMA LengthMove ==
  ASSUME NEW t \in Threads, NEW b, in \in Nat, in' \in Nat,
         pc \in [Threads -> Labels], pc' = [pc EXCEPT ![t] = b]
  PROVE  Length' = Length + in' - in + Ahead(b) - Ahead(pc[t])
<1>1. \A S : /\ Cardinality(At(S))' = Cardinality(At(S))
                                        + (IF b \in S THEN 1 ELSE 0)
                                        - (IF pc[t] \in S THEN 1 ELSE 0)
             /\ Cardinality(At(S)) \in Nat
  BY CountMove, CountType
<1>2. /\ Cardinality(At({"r_get"}))' = Cardinality(At({"r_get"}))
            + (IF b = "r_get" THEN 1 ELSE 0) - (IF pc[t] = "r_get" THEN 1 ELSE 0)
      /\ Cardinality(At({"s_store"}))' = Cardinality(At({"s_store"}))
            + (IF b = "s_store" THEN 1 ELSE 0) - (IF pc[t] = "s_store" THEN 1 ELSE 0)
      /\ Cardinality(At({"r_get"})) \in Nat /\ Cardinality(At({"s_store"})) \in Nat
  BY <1>1
<1> QED
  BY <1>2 DEF Length, Ahead

(* The thread that holds the mutex is the only one that `in' may be ahead of, *)
(* and what is ahead is within the ring.                                      *)
LEMMA LengthIs ==
  ASSUME IInv
  PROVE  /\ Length \in 0 .. Max
         /\ mp \in Threads => Length = in + Ahead(pc[mp])
<1> DEFINE G == At({"r_get"})
           P == At({"s_store"})
<1>1. /\ in \in 0 .. Max /\ empty \in Nat /\ occupied \in Nat /\ Max \in Nat
      /\ in = occupied + Cardinality(Claiming) + Cardinality(Posting)
      /\ Max = in + empty + Cardinality(Filling) + Cardinality(Freeing)
  BY MaxAssumption DEF IInv, TypeOK, OccupiedInv, EmptyInv
<1>2. ASSUME NEW t \in Threads, pc[t] \in {"r_get", "s_store"} PROVE t = mp
  BY <1>2 DEF IInv, LockInv, Critical
<1>3. CASE mp \notin Threads
  <2>1. G = {} /\ P = {}
    BY <1>2, <1>3 DEF At
  <2>2. Length = in
    BY <1>1, <2>1, FS_EmptySet DEF Length
  <2> QED
    BY <1>1, <1>3, <2>2
<1>4. CASE mp \in Threads
  <2>1. G = IF pc[mp] = "r_get" THEN {mp} ELSE {}
    BY <1>2, <1>4 DEF At
  <2>2. P = IF pc[mp] = "s_store" THEN {mp} ELSE {}
    BY <1>2, <1>4 DEF At
  <2>3. Cardinality({mp}) = 1 /\ Cardinality({}) = 0
    BY FS_Singleton, FS_EmptySet
  <2>4. Length = in + Ahead(pc[mp])
    <3>1. Length = in + Cardinality(G) - Cardinality(P)
      BY DEF Length
    <3>2. Cardinality(G) = (IF pc[mp] = "r_get" THEN 1 ELSE 0)
          /\ Cardinality(P) = (IF pc[mp] = "s_store" THEN 1 ELSE 0)
      BY <2>1, <2>2, <2>3
    <3> QED
      BY <1>1, <3>1, <3>2 DEF Ahead
  <2>5. /\ Cardinality(Claiming) \in Nat
        /\ Cardinality(Posting) \in Nat /\ Posts(pc[mp]) <= Cardinality(Posting)
        /\ Cardinality(Filling) \in Nat
        /\ Cardinality(Freeing) \in Nat /\ Frees(pc[mp]) <= Cardinality(Freeing)
    BY <1>4, CountBounds
  <2>6. /\ pc[mp] = "r_get" => Frees(pc[mp]) = 1
        /\ pc[mp] = "s_store" => Posts(pc[mp]) = 1
    BY DEF Posts, Frees
  <2>7. CASE pc[mp] = "r_get"
    BY <1>1, <2>4, <2>5, <2>6, <2>7 DEF Ahead
  <2>8. CASE pc[mp] = "s_store"
    BY <1>1, <2>4, <2>5, <2>6, <2>8 DEF Ahead
  <2>9. CASE pc[mp] \notin {"r_get", "s_store"}
    BY <1>1, <2>4, <2>9 DEF Ahead
  <2> QED
    BY <2>7, <2>8, <2>9
<1> QED
  BY <1>3, <1>4
-----------------------------------------------------------------------------
\* The steps of the abstract queue, by what they do to Items and Ops

LEMMA AbstractSame ==
  ASSUME Items' = Items, Ops' = Ops, UNCHANGED <<out, arg, prio>>
  PROVE  UNCHANGED Deque!vars
BY DEF Deque!vars, Items, Contents, SlotOf, Ops

\* A step of t from one label to another, as the abstract queue sees it.
LEMMA OpsMove ==
  ASSUME pc \in [Threads -> Labels], NEW t \in Threads, NEW b, pc' = [pc EXCEPT ![t] = b]
  PROVE  Ops[t] = Doing(pc[t]) /\ Ops' = [Ops EXCEPT ![t] = Doing(b)]
<1>1. \A u \in Threads : pc'[u] = IF u = t THEN b ELSE pc[u]
  OBVIOUS
<1>2. Ops' = [u \in Threads |-> Doing(pc'[u])]
  BY DEF Ops, Doing
<1>3. [Ops EXCEPT ![t] = Doing(b)] = [u \in Threads |-> IF u = t THEN Doing(b) ELSE Doing(pc[u])]
  BY DEF Ops
<1> QED
  BY <1>1, <1>2, <1>3 DEF Ops

LEMMA AbstractSend ==
  ASSUME NEW t \in Threads, NEW m \in Msgs, NEW p \in Prios \cup {0},
         Ops[t] = "none", Ops' = [Ops EXCEPT ![t] = "send"],
         arg' = [arg EXCEPT ![t] = m], prio' = [prio EXCEPT ![t] = p], Items' = Items, out' = out
  PROVE  Deque!Next
<1>1. Deque!Send(t, m, p)
  BY DEF Deque!Send, Deque!Does, Items, Contents, SlotOf, Ops
<1> QED
  BY <1>1 DEF Deque!Next

LEMMA AbstractAsk ==
  ASSUME NEW t \in Threads, NEW o \in {"receive", "peek"},
         Ops[t] = "none", Ops' = [Ops EXCEPT ![t] = o], Items' = Items, UNCHANGED <<out, arg, prio>>
  PROVE  Deque!Next
<1>1. Deque!Ask(t)
  BY DEF Deque!Ask, Deque!Does, Items, Contents, SlotOf, Ops
<1> QED
  BY <1>1 DEF Deque!Next

LEMMA AbstractInsert ==
  ASSUME NEW t \in Threads, Ops[t] = "send", Ops' = [Ops EXCEPT ![t] = "done"],
         prio[t] = 0 \/ Items = <<>>, Len(Items) < Max, Items' = Append(Items, arg[t]),
         UNCHANGED <<out, arg, prio>>
  PROVE  Deque!Next
<1>1. Deque!Insert(t)
  BY DEF Deque!Insert, Deque!Does, Items, Contents, SlotOf, Ops
<1> QED
  BY <1>1 DEF Deque!Next

LEMMA AbstractPrepend ==
  ASSUME NEW t \in Threads, Ops[t] = "send", Ops' = [Ops EXCEPT ![t] = "done"],
         prio[t] # 0, Len(Items) < Max, Items' = Front(arg[t], Items), UNCHANGED <<out, arg, prio>>
  PROVE  Deque!Next
<1>1. Deque!Prepend(t)
  BY DEF Deque!Prepend, Deque!Does, Items, Contents, SlotOf, Front, Ops
<1> QED
  BY <1>1 DEF Deque!Next

LEMMA AbstractTake ==
  ASSUME NEW t \in Threads, Ops[t] = "receive", Ops' = [Ops EXCEPT ![t] = "done"],
         Items # <<>>, out' = [out EXCEPT ![t] = Head(Items)], Items' = Tail(Items),
         UNCHANGED <<arg, prio>>
  PROVE  Deque!Next
<1>1. Deque!Take(t)
  BY DEF Deque!Take, Deque!Does, Items, Contents, SlotOf, Ops
<1> QED
  BY <1>1 DEF Deque!Next

LEMMA AbstractLook ==
  ASSUME NEW t \in Threads, Ops[t] = "peek", Ops' = [Ops EXCEPT ![t] = "done"], Items' = Items,
         out' = out \/ (Items # <<>> /\ out' = [out EXCEPT ![t] = Head(Items)]),
         UNCHANGED <<arg, prio>>
  PROVE  Deque!Next
<1>1. Deque!Look(t)
  BY DEF Deque!Look, Deque!Does, Items, Contents, SlotOf, Ops
<1> QED
  BY <1>1 DEF Deque!Next

LEMMA AbstractReturn ==
  ASSUME NEW t \in Threads, Ops[t] = "done", Ops' = [Ops EXCEPT ![t] = "none"], Items' = Items,
         arg' = [arg EXCEPT ![t] = NoMsg], prio' = [prio EXCEPT ![t] = 0], out' = out
  PROVE  Deque!Next
<1>1. Deque!Return(t)
  BY DEF Deque!Return, Deque!Does, Items, Contents, SlotOf, Ops
<1> QED
  BY <1>1 DEF Deque!Next
-----------------------------------------------------------------------------
\* The steps of the queue

\* What the invariant says of the ring.
LEMMA RingFacts ==
  ASSUME DequeInv
  PROVE  /\ store \in [Slots -> Msgs \cup {NoMsg}] /\ pc \in [Threads -> Labels]
         /\ f \in 0 .. UMod - 1 /\ l \in Slots /\ in \in 0 .. Max /\ in \in Nat
         /\ Length \in 0 .. Max
         /\ ~fault => f \in Slots /\ l = SlotOf(f, Length + 1)
         /\ \A t \in Threads : pc[t] \in Critical => Length = in + Ahead(pc[t])
BY LengthIs, MaxAssumption DEF DequeInv, IInv, TypeOK, FirstInv, RingInv, LockInv

LEMMA LenItems ==
  ASSUME DequeInv, f \in Slots
  PROVE  Len(Items) = Length
BY RingFacts, ContentsType DEF Items, Lengths

\* Steps before and after an access to the ring change nothing that is seen.
LEMMA QuietStep ==
  ASSUME DequeInv, ~fault, NEW t \in Threads, NEW b, pc' = [pc EXCEPT ![t] = b], in' \in Nat,
         in' + Ahead(b) = in + Ahead(pc[t]), UNCHANGED <<store, f, l, out, fault>>
  PROVE  Items' = Items /\ RingInv'
<1>1. Length' = Length
  <2>1. Length' = Length + in' - in + Ahead(b) - Ahead(pc[t])
    BY RingFacts, LengthMove
  <2>2. Ahead(b) \in Int /\ Ahead(pc[t]) \in Int
    BY DEF Ahead
  <2> QED
    BY <2>1, <2>2, RingFacts
<1>2. Items' = Items
  BY <1>1 DEF Items
<1> QED
  BY <1>1, <1>2 DEF DequeInv, RingInv

(* insert, and prepend on an empty list: the message comes behind the last    *)
(* one.                                                                       *)
LEMMA InsertStep ==
  ASSUME DequeInv, ~fault', NEW t \in Threads, InsertStore(t)
  PROVE  Deque!Next /\ RingInv'
<1>1. /\ ~fault /\ pc[t] = "s_store" /\ pc' = [pc EXCEPT ![t] = "s_unlock"]
      /\ in' = in /\ f' = f /\ l' = NextIndex(l)
      /\ UNCHANGED <<out, arg, prio>>
      /\ \/ prio[t] = 0 /\ store' = [store EXCEPT ![l] = arg[t]]
         \/ in = 1 /\ store' = [store EXCEPT ![f] = arg[t]]
  BY DEF InsertStore, Go, calls
<1>2. /\ Length = in - 1 /\ Length \in 0 .. Max - 1 /\ l = SlotOf(f, Length + 1) /\ f \in Slots
      /\ store \in [Slots -> Msgs \cup {NoMsg}] /\ arg[t] \in Msgs /\ arg[t] \in Msgs \cup {NoMsg}
  <2>1. Length = in + Ahead("s_store") /\ Ahead("s_store") = -1
    BY <1>1, RingFacts DEF Critical, Ahead
  <2>2. arg[t] \in Msgs
    BY <1>1 DEF DequeInv, ArgInv, SendLabels
  <2> QED
    BY <1>1, <2>1, <2>2, RingFacts, MaxAssumption
<1>3. Length' = Length + 1
  <2>1. Length' = Length + in' - in + Ahead("s_unlock") - Ahead("s_store")
    BY <1>1, RingFacts, LengthMove
  <2>2. Ahead("s_unlock") = 0 /\ Ahead("s_store") = -1
    BY DEF Ahead
  <2> QED
    BY <1>1, <1>2, <2>1, <2>2, RingFacts
<1>4. store' = [store EXCEPT ![l] = arg[t]]
  <2>1. in = 1 => l = f
    <3>1. in = 1 => Length + 1 = 1
      BY <1>2
    <3>2. SlotOf(f, 1) = f
      BY <1>2, MaxAssumption, SlotIs DEF Slots
    <3> QED
      BY <1>2, <3>1, <3>2
  <2> QED
    BY <1>1, <2>1
<1>5. /\ Contents(store', f, Length + 1) = Append(Contents(store, f, Length), arg[t])
      /\ NextIndex(l) = SlotOf(f, Length + 2)
  <2> DEFINE S == Msgs \cup {NoMsg}
  <2>1. /\ store \in [Slots -> S] /\ f \in Slots /\ arg[t] \in S
        /\ Behind(l, f, Length) /\ Length \in Spare
    BY <1>2 DEF Spare, Behind
  <2> HIDE DEF S
  <2>2. /\ Contents(Stored(store, l, arg[t]), f, Length + 1)
              = Append(Contents(store, f, Length), arg[t])
        /\ NextIndex(l) = SlotOf(f, Length + 2)
    BY <2>1, StoreBehind
  <2> QED
    BY <1>4, <2>2 DEF Stored
<1>6. Len(Items) < Max
  BY <1>2, LenItems, MaxAssumption
<1>7. Deque!Next
  <2>1. prio[t] = 0 \/ Items = <<>>
    <3>1. in = 1 => Len(Items) = 0
      BY <1>2, LenItems
    <3>2. Items \in Seq(Msgs \cup {NoMsg})
      BY <1>2, RingFacts, ContentsType DEF Items, Lengths
    <3> QED
      BY <1>1, <3>1, <3>2, EmptySeq
  <2>2. Items' = Append(Items, arg[t])
    BY <1>1, <1>3, <1>5 DEF Items
  <2>3. Ops[t] = "send" /\ Ops' = [Ops EXCEPT ![t] = "done"]
    <3>1. Doing("s_store") = "send" /\ Doing("s_unlock") = "done"
      BY DEF Doing
    <3>2. Ops[t] = Doing("s_store") /\ Ops' = [Ops EXCEPT ![t] = Doing("s_unlock")]
      BY <1>1, RingFacts, OpsMove
    <3> QED
      BY <3>1, <3>2
  <2> QED
    BY <1>1, <1>6, <2>1, <2>2, <2>3, AbstractInsert
<1>8. RingInv'
  <2>1. Length + 2 = Length' + 1
    BY <1>2, <1>3
  <2> QED
    BY <1>1, <1>3, <1>5, <2>1 DEF RingInv
<1> QED
  BY <1>7, <1>8

(* prepend on a list that is not empty: the message comes before the first,   *)
(* unless the first is in slot 0, from where f leaves store[].                *)
LEMMA PrependStep ==
  ASSUME DequeInv, ~fault', NEW t \in Threads, PrependStore(t)
  PROVE  Deque!Next /\ RingInv'
<1>1. /\ ~fault /\ pc[t] = "s_store" /\ pc' = [pc EXCEPT ![t] = "s_unlock"]
      /\ in' = in /\ l' = l /\ f' = Decremented(f) /\ f' \in Slots
      /\ store' = [store EXCEPT ![f'] = arg[t]]
      /\ prio[t] # 0 /\ UNCHANGED <<out, arg, prio>>
  BY DEF PrependStore, Go, calls
<1>2. /\ Length = in - 1 /\ Length \in 0 .. Max - 1 /\ l = SlotOf(f, Length + 1) /\ f \in Slots
      /\ store \in [Slots -> Msgs \cup {NoMsg}] /\ arg[t] \in Msgs /\ arg[t] \in Msgs \cup {NoMsg}
  <2>1. Length = in + Ahead("s_store") /\ Ahead("s_store") = -1
    BY <1>1, RingFacts DEF Critical, Ahead
  <2>2. arg[t] \in Msgs
    BY <1>1 DEF DequeInv, ArgInv, SendLabels
  <2> QED
    BY <1>1, <2>1, <2>2, RingFacts, MaxAssumption
<1>3. Length' = Length + 1
  <2>1. Length' = Length + in' - in + Ahead("s_unlock") - Ahead("s_store")
    BY <1>1, RingFacts, LengthMove
  <2>2. Ahead("s_unlock") = 0 /\ Ahead("s_store") = -1
    BY DEF Ahead
  <2> QED
    BY <1>1, <1>2, <2>1, <2>2, RingFacts
<1>4. f > 0 /\ f' = f - 1
  <2>1. /\ f \in Nat /\ UMod \in Nat /\ Max \in Nat /\ f < Max /\ UMod > Max
        /\ Decremented(f) = (f + UMod - 1) % UMod /\ Decremented(f) < Max
    BY <1>1, <1>2, MaxAssumption, UModAssumption DEF Slots, Decremented
  <2>2. CASE f = 0
    <3>1. (f + UMod - 1) % UMod = UMod - 1
      BY <2>1, <2>2
    <3> QED
      BY <2>1, <3>1
  <2>3. CASE f > 0
    <3>1. (f + UMod - 1) % UMod = f - 1
      BY <2>1, <2>3
    <3> QED
      BY <1>1, <2>1, <2>3, <3>1
  <2> QED
    BY <2>1, <2>2, <2>3
<1>5. /\ Contents(store', f', Length + 1) = Front(arg[t], Contents(store, f, Length))
      /\ SlotOf(f', Length + 2) = SlotOf(f, Length + 1)
  <2> DEFINE S == Msgs \cup {NoMsg}
             b == f'
  <2>1. /\ store \in [Slots -> S] /\ f \in Slots /\ b \in Slots /\ Precedes(b, f)
        /\ Length \in Spare /\ arg[t] \in S
        /\ store' = Stored(store, b, arg[t])
    BY <1>1, <1>2, <1>4 DEF Slots, Precedes, Spare, Stored
  <2> HIDE DEF S, b
  <2>2. /\ Contents(Stored(store, b, arg[t]), b, Length + 1)
              = Front(arg[t], Contents(store, f, Length))
        /\ SlotOf(b, Length + 2) = SlotOf(f, Length + 1)
    BY <2>1, StoreBefore
  <2> QED
    BY <2>1, <2>2 DEF b
<1>6. Len(Items) < Max
  BY <1>2, LenItems, MaxAssumption
<1>7. Deque!Next
  <2>1. Items' = Front(arg[t], Items)
    BY <1>1, <1>3, <1>5 DEF Items
  <2>2. Ops[t] = "send" /\ Ops' = [Ops EXCEPT ![t] = "done"]
    <3>1. Doing("s_store") = "send" /\ Doing("s_unlock") = "done"
      BY DEF Doing
    <3>2. Ops[t] = Doing("s_store") /\ Ops' = [Ops EXCEPT ![t] = Doing("s_unlock")]
      BY <1>1, RingFacts, OpsMove
    <3> QED
      BY <3>1, <3>2
  <2> QED
    BY <1>1, <1>6, <2>1, <2>2, AbstractPrepend
<1>8. RingInv'
  <2>1. Length + 2 = Length' + 1
    BY <1>2, <1>3
  <2> QED
    BY <1>1, <1>2, <1>5, <2>1 DEF RingInv
<1> QED
  BY <1>7, <1>8

\* get: the first message is copied out and gone.
LEMMA TakeStep ==
  ASSUME DequeInv, ~fault', NEW t \in Threads, ReceiveStore(t)
  PROVE  Deque!Next /\ RingInv'
<1> USE DEF ReceiveStore, Go
<1>1. /\ ~fault /\ pc[t] = "r_get" /\ pc' = [pc EXCEPT ![t] = "r_unlock"]
      /\ in' = in /\ l' = l /\ store' = store /\ f' = NextIndex(f)
      /\ UNCHANGED <<arg, prio>>
  BY DEF calls
<1>2. /\ Length = in + 1 /\ Length \in 1 .. Max /\ l = SlotOf(f, Length + 1) /\ f \in Slots
      /\ store \in [Slots -> Msgs \cup {NoMsg}]
  <2>1. Length = in + Ahead("r_get") /\ Ahead("r_get") = 1
    BY <1>1, RingFacts DEF Critical, Ahead
  <2> QED
    BY <1>1, <2>1, RingFacts, MaxAssumption
<1>3. Length' = Length - 1
  <2>1. Length' = Length + in' - in + Ahead("r_unlock") - Ahead("r_get")
    BY <1>1, RingFacts, LengthMove
  <2>2. Ahead("r_unlock") = 0 /\ Ahead("r_get") = 1
    BY DEF Ahead
  <2> QED
    BY <1>1, <1>2, <2>1, <2>2, RingFacts
<1>4. out' = [out EXCEPT ![t] = store[f]]
  BY <1>2
<1>5. /\ Items # <<>> /\ Head(Items) = store[f]
      /\ Contents(store, NextIndex(f), Length - 1) = Tail(Items)
      /\ SlotOf(NextIndex(f), Length) = SlotOf(f, Length + 1)
  BY <1>2, TakeFirst DEF Items
<1>6. Deque!Next
  <2>1. Items' = Tail(Items)
    BY <1>1, <1>3, <1>5 DEF Items
  <2>2. Ops[t] = "receive" /\ Ops' = [Ops EXCEPT ![t] = "done"]
    <3>1. Doing("r_get") = "receive" /\ Doing("r_unlock") = "done"
      BY DEF Doing
    <3>2. Ops[t] = Doing("r_get") /\ Ops' = [Ops EXCEPT ![t] = Doing("r_unlock")]
      BY <1>1, RingFacts, OpsMove
    <3> QED
      BY <3>1, <3>2
  <2> QED
    BY <1>1, <1>4, <1>5, <2>1, <2>2, AbstractTake
<1>7. RingInv'
  <2>1. Length = Length' + 1
    BY <1>2, <1>3
  <2> QED
    BY <1>1, <1>2, <1>5, <2>1 DEF RingInv
<1> QED
  BY <1>6, <1>7

\* peek: the first message is copied out, or nothing is.
LEMMA LookStep ==
  ASSUME DequeInv, ~fault', NEW t \in Threads, PeekLook(t)
  PROVE  Deque!Next /\ RingInv'
<1> USE DEF PeekLook, Go
<1>1. /\ ~fault /\ pc[t] = "p_look" /\ pc' = [pc EXCEPT ![t] = "p_unlock"]
      /\ UNCHANGED <<store, f, l, in, arg, prio>>
  BY DEF queue, calls
<1>2. Length = in /\ f \in Slots /\ l = SlotOf(f, Length + 1) /\ store \in [Slots -> Msgs \cup {NoMsg}]
  <2>1. Length = in + Ahead("p_look") /\ Ahead("p_look") = 0
    BY <1>1, RingFacts DEF Critical, Ahead
  <2> QED
    BY <1>1, <2>1, RingFacts
<1>3. Length' = Length
  <2>1. Length' = Length + in' - in + Ahead("p_unlock") - Ahead("p_look")
    BY <1>1, RingFacts, LengthMove
  <2>2. Ahead("p_unlock") = 0 /\ Ahead("p_look") = 0
    BY DEF Ahead
  <2> QED
    BY <1>1, <1>2, <2>1, <2>2, RingFacts
<1>4. Items' = Items /\ RingInv'
  BY <1>1, <1>2, <1>3 DEF Items, RingInv
<1>5. out' = out \/ (Items # <<>> /\ out' = [out EXCEPT ![t] = Head(Items)])
  <2>1. CASE occupied = 0 \/ in = 0
    BY <2>1
  <2>2. CASE ~(occupied = 0 \/ in = 0)
    <3>1. out' = [out EXCEPT ![t] = store[f]] /\ Length \in 1 .. Max
      BY <1>2, <2>2, RingFacts
    <3>2. Items # <<>> /\ Head(Items) = store[f]
      BY <1>2, <3>1, TakeFirst DEF Items
    <3> QED
      BY <3>1, <3>2
  <2> QED
    BY <2>1, <2>2
<1>6. Ops[t] = "peek" /\ Ops' = [Ops EXCEPT ![t] = "done"]
  <2>1. Doing("p_look") = "peek" /\ Doing("p_unlock") = "done"
    BY DEF Doing
  <2>2. Ops[t] = Doing("p_look") /\ Ops' = [Ops EXCEPT ![t] = Doing("p_unlock")]
    BY <1>1, RingFacts, OpsMove
  <2> QED
    BY <2>1, <2>2
<1> QED
  BY <1>1, <1>4, <1>5, <1>6, AbstractLook

\* A thread that is inside send keeps its message until it returns, and no longer.
LEMMA ArgKept ==
  ASSUME DequeInv, [Next]_vars
  PROVE  ArgInv'
<1> USE DEF ArgInv, Go, SendLabels, RecvLabels, PeekLabels, calls
<1>0. /\ ArgInv /\ pc \in [Threads -> Labels] /\ arg \in [Threads -> Msgs \cup {NoMsg}]
      /\ prio \in [Threads -> {0, 1}]
  BY DEF DequeInv, IInv, TypeOK
<1>1. ASSUME NEW t \in Threads, Call(t) PROVE ArgInv'
  BY <1>0, <1>1 DEF Call, Send, PMsgQSend, Receive, TryReceive, Peek
<1>2. ASSUME NEW t \in Threads, SendStep(t) PROVE ArgInv'
  BY <1>0, <1>2 DEF SendStep, SendWait, SendLock, SendCount, InsertStore, PrependStore,
     SendUnlock, SendPost, Return
<1>3. ASSUME NEW t \in Threads, ReceiveStep(t) PROVE ArgInv'
  BY <1>0, <1>3 DEF ReceiveStep, ReceiveWait, ReceiveLock, ReceiveCount, ReceiveStore,
     ReceiveUnlock, ReceivePost
<1>4. ASSUME NEW t \in Threads, PeekStep(t) PROVE ArgInv'
  BY <1>0, <1>4 DEF PeekStep, PeekLock, PeekLook, PeekUnlock
<1>5. CASE UNCHANGED vars
  BY <1>0, <1>5 DEF vars
<1> QED
  BY <1>1, <1>2, <1>3, <1>4, <1>5 DEF Next, Step

\* A step that changes neither the messages nor what a call is about to do.
LEMMA HiddenStep ==
  ASSUME DequeInv, ~fault, NEW t \in Threads, NEW b, pc' = [pc EXCEPT ![t] = b],
         Doing(b) = Doing(pc[t]), in' \in Nat, in' + Ahead(b) = in + Ahead(pc[t]),
         UNCHANGED <<store, f, l, out, arg, prio, fault>>
  PROVE  UNCHANGED Deque!vars /\ RingInv'
<1>1. Items' = Items /\ RingInv'
  BY QuietStep
<1>2. Ops' = Ops
  <2>1. Ops[t] = Doing(pc[t]) /\ Ops' = [Ops EXCEPT ![t] = Doing(b)]
    BY RingFacts, OpsMove
  <2> QED
    BY <2>1 DEF Ops
<1> QED
  BY <1>1, <1>2, AbstractSame

\* The last step of a call.
LEMMA ReturnStep ==
  ASSUME DequeInv, ~fault, NEW t \in Threads, pc' = [pc EXCEPT ![t] = "idle"],
         Doing(pc[t]) = "done", Ahead(pc[t]) = 0, UNCHANGED <<store, f, l, in, out, fault>>,
         \/ arg' = [arg EXCEPT ![t] = NoMsg] /\ prio' = [prio EXCEPT ![t] = 0]
         \/ pc[t] \notin SendLabels /\ UNCHANGED <<arg, prio>>
  PROVE  Deque!Next /\ RingInv'
<1>1. Items' = Items /\ RingInv'
  <2>1. in' \in Nat /\ in' + Ahead("idle") = in + Ahead(pc[t])
    BY RingFacts DEF Ahead
  <2> QED
    BY <2>1, QuietStep
<1>2. Ops[t] = "done" /\ Ops' = [Ops EXCEPT ![t] = "none"]
  BY RingFacts, OpsMove DEF Doing
<1>3. arg' = [arg EXCEPT ![t] = NoMsg] /\ prio' = [prio EXCEPT ![t] = 0]
  BY DEF DequeInv, IInv, TypeOK, ArgInv
<1> QED
  BY <1>1, <1>2, <1>3, AbstractReturn

\* The first step of a call.
LEMMA CallStep ==
  ASSUME DequeInv, NEW t \in Threads, Call(t)
  PROVE  Deque!Next /\ RingInv'
<1> USE DEF Go, queue, calls
<1>1. PICK b \in {"s_wait", "r_wait", "r_lock", "p_lock"} :
         /\ pc[t] = "idle" /\ pc' = [pc EXCEPT ![t] = b] /\ ~fault
         /\ UNCHANGED <<store, f, l, in, out, fault>>
         /\ \/ /\ b = "s_wait"
               /\ \E m \in Msgs, p \in Prios \cup {0} :
                    arg' = [arg EXCEPT ![t] = m] /\ prio' = [prio EXCEPT ![t] = p]
            \/ b # "s_wait" /\ UNCHANGED <<arg, prio>>
  BY DEF Call, Send, PMsgQSend, Receive, TryReceive, Peek
<1>2. Items' = Items /\ RingInv'
  <2>1. in' \in Nat /\ in' + Ahead(b) = in + Ahead(pc[t])
    BY <1>1, RingFacts DEF Ahead
  <2> QED
    BY <1>1, <2>1, QuietStep
<1>3. Ops[t] = "none" /\ Ops' = [Ops EXCEPT ![t] = Doing(b)]
  BY <1>1, RingFacts, OpsMove DEF Doing
<1>4. CASE b = "s_wait"
  <2>1. PICK m \in Msgs, p \in Prios \cup {0} :
           arg' = [arg EXCEPT ![t] = m] /\ prio' = [prio EXCEPT ![t] = p]
    BY <1>1, <1>4
  <2>2. Doing(b) = "send"
    BY <1>4 DEF Doing
  <2> QED
    BY <1>1, <1>2, <1>3, <2>1, <2>2, AbstractSend
<1>5. CASE b # "s_wait"
  <2>1. Doing(b) \in {"receive", "peek"} /\ UNCHANGED <<out, arg, prio>>
    BY <1>1, <1>5 DEF Doing
  <2> QED
    BY <1>2, <1>3, <2>1, AbstractAsk
<1> QED
  BY <1>4, <1>5

\* Every step but an access outside store[] is one of the deque, or none.
LEMMA StepDeque ==
  ASSUME DequeInv, ~fault', [Next]_vars
  PROVE  [Deque!Next]_(Deque!vars) /\ RingInv'
<1> USE DEF Go, Ahead, queue, sems, calls
<1>0. in \in Nat /\ pc \in [Threads -> Labels]
  BY RingFacts
<1>1. ASSUME NEW t \in Threads, Call(t) PROVE Deque!Next /\ RingInv'
  BY <1>1, CallStep
<1>2. \A t \in Threads : pc'[t] \notin {"s_fail", "r_fail"} /\ pc[t] \notin {"s_fail", "r_fail"}
  <2>1. NeverRefused /\ NeverRefused'
    BY StepIInv DEF DequeInv, IInv
  <2> QED
    BY <2>1 DEF NeverRefused, At
<1>3. ASSUME NEW t \in Threads, SendStep(t) PROVE [Deque!Next]_(Deque!vars) /\ RingInv'
  <2>1. CASE SendWait(t) \/ SendLock(t) \/ SendUnlock(t)
    <3>1. PICK b \in {"s_lock", "s_in", "s_post"} :
             /\ \/ pc[t] = "s_unlock" /\ b = "s_post"
                \/ pc[t] \in {"s_wait", "s_lock"} /\ b \in {"s_lock", "s_in"}
             /\ pc' = [pc EXCEPT ![t] = b] /\ ~fault
             /\ UNCHANGED <<store, f, l, in, out, arg, prio, fault>>
      BY <1>2, <2>1 DEF SendWait, SendLock, SendUnlock
    <3>2. Doing(b) = Doing(pc[t]) /\ in' \in Nat /\ in' + Ahead(b) = in + Ahead(pc[t])
      BY <1>0, <3>1 DEF Doing
    <3> QED
      BY <3>1, <3>2, HiddenStep
  <2>2. CASE SendCount(t)
    <3>1. /\ pc[t] = "s_in" /\ pc' = [pc EXCEPT ![t] = "s_store"] /\ ~fault
          /\ UNCHANGED <<store, f, l, out, arg, prio, fault>> /\ in' = in + 1
      BY <1>0, <1>2, <2>2 DEF SendCount
    <3>2. /\ Doing("s_store") = Doing(pc[t]) /\ in' \in Nat
          /\ in' + Ahead("s_store") = in + Ahead(pc[t])
      BY <1>0, <3>1 DEF Doing
    <3> QED
      BY <3>1, <3>2, HiddenStep
  <2>3. CASE InsertStore(t)
    BY <2>3, InsertStep
  <2>4. CASE PrependStore(t)
    BY <2>4, PrependStep
  <2>5. CASE SendPost(t)
    <3>1. /\ pc[t] = "s_post" /\ pc' = [pc EXCEPT ![t] = "idle"] /\ ~fault
          /\ UNCHANGED <<store, f, l, in, out, fault>>
          /\ arg' = [arg EXCEPT ![t] = NoMsg] /\ prio' = [prio EXCEPT ![t] = 0]
      BY <2>5 DEF SendPost, Return
    <3>2. Doing(pc[t]) = "done" /\ Ahead(pc[t]) = 0
      BY <3>1 DEF Doing
    <3> QED
      BY <3>1, <3>2, ReturnStep
  <2> QED
    BY <1>3, <2>1, <2>2, <2>3, <2>4, <2>5 DEF SendStep
<1>4. ASSUME NEW t \in Threads, ReceiveStep(t) PROVE [Deque!Next]_(Deque!vars) /\ RingInv'
  <2>1. CASE ReceiveWait(t) \/ ReceiveLock(t) \/ ReceiveUnlock(t)
    <3>1. PICK b \in {"r_lock", "r_in", "r_post"} :
             /\ \/ pc[t] = "r_unlock" /\ b = "r_post"
                \/ pc[t] \in {"r_wait", "r_lock"} /\ b \in {"r_lock", "r_in"}
             /\ pc' = [pc EXCEPT ![t] = b] /\ ~fault
             /\ UNCHANGED <<store, f, l, in, out, arg, prio, fault>>
      BY <1>2, <2>1 DEF ReceiveWait, ReceiveLock, ReceiveUnlock
    <3>2. Doing(b) = Doing(pc[t]) /\ in' \in Nat /\ in' + Ahead(b) = in + Ahead(pc[t])
      BY <1>0, <3>1 DEF Doing
    <3> QED
      BY <3>1, <3>2, HiddenStep
  <2>2. CASE ReceiveCount(t)
    <3>1. /\ pc[t] = "r_in" /\ pc' = [pc EXCEPT ![t] = "r_get"] /\ ~fault
          /\ UNCHANGED <<store, f, l, out, arg, prio, fault>> /\ in # 0 /\ in' = in - 1
      BY <1>0, <1>2, <2>2 DEF ReceiveCount
    <3>2. /\ Doing("r_get") = Doing(pc[t]) /\ in' \in Nat
          /\ in' + Ahead("r_get") = in + Ahead(pc[t])
      BY <1>0, <3>1 DEF Doing
    <3> QED
      BY <3>1, <3>2, HiddenStep
  <2>3. CASE ReceiveStore(t)
    BY <2>3, TakeStep
  <2>4. CASE ReceivePost(t)
    <3>1. /\ pc[t] = "r_post" /\ pc' = [pc EXCEPT ![t] = "idle"] /\ ~fault
          /\ UNCHANGED <<store, f, l, in, out, arg, prio, fault>>
      BY <2>4 DEF ReceivePost
    <3>2. Doing(pc[t]) = "done" /\ Ahead(pc[t]) = 0 /\ pc[t] \notin SendLabels
      BY <3>1 DEF Doing, SendLabels
    <3> QED
      BY <3>1, <3>2, ReturnStep
  <2> QED
    BY <1>4, <2>1, <2>2, <2>3, <2>4 DEF ReceiveStep
<1>5. ASSUME NEW t \in Threads, PeekStep(t) PROVE [Deque!Next]_(Deque!vars) /\ RingInv'
  <2>1. CASE PeekLock(t)
    <3>1. /\ pc[t] = "p_lock" /\ pc' = [pc EXCEPT ![t] = "p_look"] /\ ~fault
          /\ UNCHANGED <<store, f, l, in, out, arg, prio, fault>>
      BY <2>1 DEF PeekLock
    <3>2. /\ Doing("p_look") = Doing(pc[t]) /\ in' \in Nat
          /\ in' + Ahead("p_look") = in + Ahead(pc[t])
      BY <1>0, <3>1 DEF Doing
    <3> QED
      BY <3>1, <3>2, HiddenStep
  <2>2. CASE PeekLook(t)
    BY <2>2, LookStep
  <2>3. CASE PeekUnlock(t)
    <3>1. /\ pc[t] = "p_unlock" /\ pc' = [pc EXCEPT ![t] = "idle"] /\ ~fault
          /\ UNCHANGED <<store, f, l, in, out, arg, prio, fault>>
      BY <2>3 DEF PeekUnlock
    <3>2. Doing(pc[t]) = "done" /\ Ahead(pc[t]) = 0 /\ pc[t] \notin SendLabels
      BY <3>1 DEF Doing, SendLabels
    <3> QED
      BY <3>1, <3>2, ReturnStep
  <2> QED
    BY <1>5, <2>1, <2>2, <2>3 DEF PeekStep
<1>6. CASE UNCHANGED vars
  <2>1. UNCHANGED <<store, f, l, in, pc, out, arg, prio, fault>>
    BY <1>6 DEF vars
  <2>2. Length' = Length
    BY <2>1 DEF Length, At
  <2>3. Items' = Items /\ Ops' = Ops
    BY <2>1, <2>2 DEF Items, Ops, Doing
  <2>4. UNCHANGED Deque!vars
    BY <2>1, <2>3, AbstractSame
  <2> QED
    BY <2>1, <2>2, <2>4 DEF DequeInv, RingInv
<1> QED
  BY <1>1, <1>3, <1>4, <1>5, <1>6 DEF Next, Step

LEMMA InitDeque == Init => DequeInv /\ Deque!Init
<1> SUFFICES ASSUME Init PROVE DequeInv /\ Deque!Init
  OBVIOUS
<1>1. IInv
  BY InitIInv
<1>2. Length = 0
  <2>1. in = 0 /\ At({"r_get"}) = {} /\ At({"s_store"}) = {}
    BY DEF Init, At
  <2> QED
    BY <2>1, FS_EmptySet DEF Length
<1>3. ArgInv /\ RingInv
  <2>1. 0 \in Slots /\ 1 \in 1 .. Max + 1 /\ 0 + 1 - 1 < Max /\ Length + 1 = 1
    BY <1>2, MaxAssumption DEF Slots
  <2>2. SlotOf(0, 1) = 0
    BY <2>1, SlotIs
  <2> QED
    BY <2>1, <2>2 DEF Init, ArgInv, RingInv, SendLabels
<1>4. Items = <<>>
  <2>1. store \in [Slots -> Msgs \cup {NoMsg}] /\ f \in Slots /\ Length \in 0 .. Max
    BY <1>2, MaxAssumption DEF Init, Slots
  <2>2. Items \in Seq(Msgs \cup {NoMsg}) /\ Len(Items) = 0
    BY <1>2, <2>1, ContentsType DEF Items, Lengths
  <2> QED
    BY <2>2, EmptySeq
<1> QED
  BY <1>1, <1>3, <1>4 DEF DequeInv, Deque!Init, Items, Contents, SlotOf, Init, Doing

LEMMA DequeInvariance == Spec => []DequeInv
<1>1. ASSUME DequeInv, [Next]_vars PROVE DequeInv'
  <2>1. IInv'
    BY <1>1, StepIInv DEF DequeInv
  <2>2. CASE fault'
    BY <1>1, <2>1, <2>2, ArgKept DEF DequeInv, RingInv
  <2>3. CASE ~fault'
    BY <1>1, <2>1, <2>3, ArgKept, StepDeque DEF DequeInv
  <2> QED
    BY <2>2, <2>3
<1> QED
  BY <1>1, InitDeque, PTL DEF Spec
-----------------------------------------------------------------------------
\* Each step that stays within store[] is one operation of the deque, or none.
DequeUntilFault == [][~fault' => [Deque!Next]_(Deque!vars)]_vars

(* With both priorities, and whatever the threads do, the queue is a deque    *)
(* that each call acts on at one instant, up to the first access outside      *)
(* store[].                                                                   *)
THEOREM DequeUntilFaultHolds == Spec => Deque!Init /\ DequeUntilFault
<1>1. ASSUME DequeInv, [Next]_vars
      PROVE  [~fault' => [Deque!Next]_(Deque!vars)]_vars
  BY <1>1, StepDeque
<1> QED
  BY <1>1, InitDeque, DequeInvariance, PTL DEF Spec, DequeUntilFault

(* A queue whose senders all use the ordinary priority, as pMsgQSend does,    *)
(* implements the bounded deque, where a message is then only ever put behind *)
(* the others, by its own send and once: nothing is lost, duplicated or       *)
(* overtaken.                                                                 *)
THEOREM ImplementsDeque == ASSUME Prios = {0} PROVE Spec => RefinesDeque
<1>1. ASSUME DequeInv, NoFault', [Next]_vars PROVE [Deque!Next]_(Deque!vars)
  BY <1>1, StepDeque DEF NoFault
<1>2. Spec => []NoFault
  BY FifoNeverFaults, Prios = {0}
<1> QED
  BY <1>1, <1>2, InitDeque, DequeInvariance, PTL DEF Spec, RefinesDeque, Deque!Spec
=============================================================================
