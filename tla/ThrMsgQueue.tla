----------------------------- MODULE ThrMsgQueue -----------------------------
(* thrMsgQueue<T>: the message queue between the threads of one process.  A   *)
(* statically sized ring buffer (sdqueue<T>) is guarded by a mutex and by two *)
(* counting semaphores: `empty' counts the slots a sender may claim and       *)
(* `occupied' the messages a receiver may claim.  A thread's call is a        *)
(* sequence of steps; pc[t] says what t does next.  The ring buffer's         *)
(* operations are split where a field read without the lock (`in', by         *)
(* entries() and free()) becomes visible.                                     *)
EXTENDS Naturals, FiniteSets

CONSTANTS Threads,   \* threads that share the queue
          Msgs,      \* messages that are sent
          Max,       \* elements: the depth given to the constructor
          Prios,     \* the values of send's prio argument in use
          UMod,      \* 2^32, the modulus of u_int
          NoMsg, NoThread

ASSUME ThreadsAssumption == IsFiniteSet(Threads) /\ NoThread \notin Threads
ASSUME MaxAssumption == Max \in Nat \ {0}
ASSUME UModAssumption == UMod \in Nat /\ UMod > Max
ASSUME PriosAssumption == Prios \subseteq {0, 1}
ASSUME MsgsAssumption == NoMsg \notin Msgs

VARIABLES store, f, l, in,    \* sdqueue: the slots, first, last, entries
          empty, occupied,    \* values of the two semaphores
          mp,                 \* owner of the mutex
          pc,                 \* pc[t]: what thread t does next
          arg, prio,          \* arguments of t's send
          out,                \* what t's last receive or peek copied out
          fault               \* an access outside store[] has been made

queue == <<store, f, l, in>>
sems == <<empty, occupied>>
calls == <<arg, prio>>
vars == <<queue, sems, mp, pc, calls, out, fault>>

Slots == 0 .. Max - 1
SendLabels == {"s_wait", "s_lock", "s_in", "s_store", "s_unlock", "s_fail", "s_post"}
RecvLabels == {"r_wait", "r_lock", "r_in", "r_get", "r_unlock", "r_fail", "r_post"}
PeekLabels == {"p_lock", "p_look", "p_unlock"}
Labels == {"idle"} \cup SendLabels \cup RecvLabels \cup PeekLabels

\* Labels at which the mutex is held.
Critical == {"s_in", "s_store", "s_unlock", "s_fail", "r_in", "r_get",
             "r_unlock", "r_fail", "p_look", "p_unlock"}

TypeOK == /\ store \in [Slots -> Msgs \cup {NoMsg}]
          /\ f \in 0 .. UMod - 1
          /\ l \in Slots
          /\ in \in 0 .. Max
          /\ empty \in 0 .. Max
          /\ occupied \in 0 .. Max
          /\ mp \in Threads \cup {NoThread}
          /\ pc \in [Threads -> Labels]
          /\ arg \in [Threads -> Msgs \cup {NoMsg}]
          /\ prio \in [Threads -> {0, 1}]
          /\ out \in [Threads -> Msgs \cup {NoMsg}]
          /\ fault \in BOOLEAN

Init == /\ store = [i \in Slots |-> NoMsg]
        /\ f = 0 /\ l = 0 /\ in = 0
        /\ empty = Max /\ occupied = 0
        /\ mp = NoThread
        /\ pc = [t \in Threads |-> "idle"]
        /\ arg = [t \in Threads |-> NoMsg]
        /\ prio = [t \in Threads |-> 0]
        /\ out = [t \in Threads |-> NoMsg]
        /\ fault = FALSE

(* A step of t from one label to another; a process that has made an access   *)
(* outside its memory takes no further step.                                  *)
Go(t, from, to) == /\ ~fault
                   /\ pc[t] = from
                   /\ pc' = [pc EXCEPT ![t] = to]

Free == Max - in

\* Mutant: the wrap test is left out.
NextIndexUnwrapped(i) == i + 1

\* An index of the ring after its post-increment and wrap test.
NextIndex(i) == IF i + 1 = Max THEN 0 ELSE i + 1

(* prepend on a list that is not empty: f is a u_int, so after f-- at zero    *)
(* the test `f < 0' does not hold and f stays at its largest value.           *)
Decremented(i) == (i + UMod - 1) % UMod

Return(t) == /\ arg' = [arg EXCEPT ![t] = NoMsg]
             /\ prio' = [prio EXCEPT ![t] = 0]

-----------------------------------------------------------------------------
\* send

Send(t, m, p) == /\ Go(t, "idle", "s_wait")
                 /\ arg' = [arg EXCEPT ![t] = m]
                 /\ prio' = [prio EXCEPT ![t] = p]
                 /\ UNCHANGED <<queue, sems, mp, out, fault>>

(* pMsgQSend: free() is read without the lock; with no free slot the message  *)
(* is dropped (no state changes), otherwise send is called with prio 0.       *)
PMsgQSend(t, m) == Free # 0 /\ Send(t, m, 0)

(* sem_wait(&empty).  EINTR goes back to l1, which is a stuttering step.      *)
SendWait(t) == /\ Go(t, "s_wait", "s_lock")
               /\ empty > 0
               /\ empty' = empty - 1
               /\ UNCHANGED <<queue, occupied, mp, calls, out, fault>>

\* Mutant: the mutex is taken without waiting for its owner.
SendLockUnowned(t) == /\ Go(t, "s_lock", "s_in")
                      /\ mp' = t
                      /\ UNCHANGED <<queue, sems, calls, out, fault>>

SendLock(t) == /\ Go(t, "s_lock", "s_in")
               /\ mp = NoThread
               /\ mp' = t
               /\ UNCHANGED <<queue, sems, calls, out, fault>>

\* The first lines of insert and prepend: the test for a full list, then in++.
SendCount(t) == /\ \/ /\ in = Max
                      /\ Go(t, "s_in", "s_fail")
                      /\ UNCHANGED in
                   \/ /\ in # Max
                      /\ Go(t, "s_in", "s_store")
                      /\ in' = in + 1
                /\ UNCHANGED <<store, f, l, sems, mp, calls, out, fault>>

\* The rest of insert; prepend on an empty list fills the slot at f instead.
InsertStore(t) == LET slot == IF prio[t] = 0 THEN l ELSE f IN
                  /\ Go(t, "s_store", "s_unlock")
                  /\ prio[t] = 0 \/ in = 1
                  /\ IF slot \in Slots
                       THEN /\ store' = [store EXCEPT ![slot] = arg[t]]
                            /\ UNCHANGED fault
                       ELSE /\ fault' = TRUE
                            /\ UNCHANGED store
                  /\ l' = NextIndex(l)
                  /\ UNCHANGED <<f, in, sems, mp, calls, out>>

\* The rest of prepend on a list that is not empty.
PrependStore(t) == LET slot == Decremented(f) IN
                   /\ Go(t, "s_store", "s_unlock")
                   /\ prio[t] # 0 /\ in # 1
                   /\ f' = slot
                   /\ IF slot \in Slots
                        THEN /\ store' = [store EXCEPT ![slot] = arg[t]]
                             /\ UNCHANGED fault
                        ELSE /\ fault' = TRUE
                             /\ UNCHANGED store
                   /\ UNCHANGED <<l, in, sems, mp, calls, out>>

\* Unlock; when the ring refused the message, return -1 without a post.
SendUnlock(t) == /\ mp' = NoThread
                 /\ \/ /\ Go(t, "s_unlock", "s_post")
                       /\ UNCHANGED calls
                    \/ /\ Go(t, "s_fail", "idle")
                       /\ Return(t)
                 /\ UNCHANGED <<queue, sems, out, fault>>

\* Mutant: send returns without the post.
SendPostForgotten(t) == /\ Go(t, "s_post", "idle")
                        /\ Return(t)
                        /\ UNCHANGED <<queue, sems, mp, out, fault>>

SendPost(t) == /\ Go(t, "s_post", "idle")
               /\ occupied' = occupied + 1
               /\ Return(t)
               /\ UNCHANGED <<queue, empty, mp, out, fault>>

-----------------------------------------------------------------------------
\* receive

Receive(t) == /\ Go(t, "idle", "r_wait")
              /\ UNCHANGED <<queue, sems, mp, calls, out, fault>>

\* Mutant: the semaphore is looked at, not taken.
TryReceiveLooks(t) == /\ Go(t, "idle", "r_lock")
                      /\ occupied > 0
                      /\ UNCHANGED <<queue, sems, mp, calls, out, fault>>

(* receive(a, 0): sem_trywait; at zero it returns -1 and changes nothing.     *)
TryReceive(t) == /\ Go(t, "idle", "r_lock")
                 /\ occupied > 0
                 /\ occupied' = occupied - 1
                 /\ UNCHANGED <<queue, empty, mp, calls, out, fault>>

ReceiveWait(t) == /\ Go(t, "r_wait", "r_lock")
                  /\ occupied > 0
                  /\ occupied' = occupied - 1
                  /\ UNCHANGED <<queue, empty, mp, calls, out, fault>>

ReceiveLock(t) == /\ Go(t, "r_lock", "r_in")
                  /\ mp = NoThread
                  /\ mp' = t
                  /\ UNCHANGED <<queue, sems, calls, out, fault>>

\* The first lines of get: the test for an empty list, then in--.
ReceiveCount(t) == /\ \/ /\ in = 0
                         /\ Go(t, "r_in", "r_fail")
                         /\ UNCHANGED in
                      \/ /\ in # 0
                         /\ Go(t, "r_in", "r_get")
                         /\ in' = in - 1
                   /\ UNCHANGED <<store, f, l, sems, mp, calls, out, fault>>

\* Mutant: the element is copied but stays the first one.
ReceiveStoreKeeps(t) == /\ Go(t, "r_get", "r_unlock")
                        /\ f \in Slots
                        /\ out' = [out EXCEPT ![t] = store[f]]
                        /\ UNCHANGED <<queue, sems, mp, calls, fault>>

\* The rest of get.
ReceiveStore(t) == /\ Go(t, "r_get", "r_unlock")
                   /\ IF f \in Slots
                        THEN /\ out' = [out EXCEPT ![t] = store[f]]
                             /\ UNCHANGED fault
                        ELSE /\ fault' = TRUE
                             /\ UNCHANGED out
                   /\ f' = NextIndex(f)
                   /\ UNCHANGED <<store, l, in, sems, mp, calls>>

\* Unlock; when the ring had nothing, return -20 without a post.
ReceiveUnlock(t) == /\ mp' = NoThread
                    /\ \/ Go(t, "r_unlock", "r_post")
                       \/ Go(t, "r_fail", "idle")
                    /\ UNCHANGED <<queue, sems, calls, out, fault>>

\* Mutant: receive returns without handing the slot back.
ReceivePostForgotten(t) == /\ Go(t, "r_post", "idle")
                           /\ UNCHANGED <<queue, sems, mp, calls, out, fault>>

ReceivePost(t) == /\ Go(t, "r_post", "idle")
                  /\ empty' = empty + 1
                  /\ UNCHANGED <<queue, occupied, mp, calls, out, fault>>

-----------------------------------------------------------------------------
\* peek

Peek(t) == /\ Go(t, "idle", "p_lock")
           /\ UNCHANGED <<queue, sems, mp, calls, out, fault>>

PeekLock(t) == /\ Go(t, "p_lock", "p_look")
               /\ mp = NoThread
               /\ mp' = t
               /\ UNCHANGED <<queue, sems, calls, out, fault>>

\* Nothing is copied when the semaphore is at zero or the list is empty.
PeekLook(t) == /\ Go(t, "p_look", "p_unlock")
               /\ IF occupied = 0 \/ in = 0
                    THEN UNCHANGED <<out, fault>>
                    ELSE IF f \in Slots
                           THEN /\ out' = [out EXCEPT ![t] = store[f]]
                                /\ UNCHANGED fault
                           ELSE /\ fault' = TRUE
                                /\ UNCHANGED out
               /\ UNCHANGED <<queue, sems, mp, calls>>

PeekUnlock(t) == /\ Go(t, "p_unlock", "idle")
                 /\ mp' = NoThread
                 /\ UNCHANGED <<queue, sems, calls, out, fault>>

-----------------------------------------------------------------------------
\* What a thread does once it is inside a call.
SendStep(t) == \/ SendWait(t) \/ SendLock(t) \/ SendCount(t) \/ InsertStore(t)
               \/ PrependStore(t) \/ SendUnlock(t) \/ SendPost(t)
ReceiveStep(t) == \/ ReceiveWait(t) \/ ReceiveLock(t) \/ ReceiveCount(t)
                  \/ ReceiveStore(t) \/ ReceiveUnlock(t) \/ ReceivePost(t)
PeekStep(t) == PeekLock(t) \/ PeekLook(t) \/ PeekUnlock(t)
Step(t) == SendStep(t) \/ ReceiveStep(t) \/ PeekStep(t)

\* What a thread does between calls: it makes one, of its own choice.
Call(t) == \/ \E m \in Msgs : \/ \E p \in Prios : Send(t, m, p)
                              \/ PMsgQSend(t, m)
           \/ Receive(t) \/ TryReceive(t) \/ Peek(t)

Next == \E t \in Threads : Call(t) \/ Step(t)

Spec == Init /\ [][Next]_vars

(* A thread inside a call is scheduled; nothing says that it makes a call, or *)
(* that the semaphores and the mutex serve waiters in order (weak fairness).  *)
FairSpec == Spec /\ \A t \in Threads : WF_vars(Step(t))
-----------------------------------------------------------------------------
At(labels) == {t \in Threads : pc[t] \in labels}

(* The mutex is owned by the one thread that is between lock and unlock, so   *)
(* the steps of two ring operations never interleave.                         *)
LockInv == \A t \in Threads : pc[t] \in Critical <=> mp = t

\* Receivers let through by `occupied' that have not counted the message out.
Claiming == At({"r_lock", "r_in"})
\* Senders whose message is counted in but not posted yet.
Posting == At({"s_store", "s_unlock", "s_post"})
\* Senders let through by `empty' that have not counted the message in.
Filling == At({"s_lock", "s_in"})
\* Receivers that have counted a message out but not posted the slot yet.
Freeing == At({"r_get", "r_unlock", "r_post"})

(* Every message counted in the ring is posted to the receivers, claimed by a *)
(* receiver, or about to be posted by its sender.                             *)
OccupiedInv == in = occupied + Cardinality(Claiming) + Cardinality(Posting)

(* Every slot that is not counted in is posted to the senders, claimed by a   *)
(* sender, or about to be posted by the receiver that emptied it.             *)
EmptyInv == Max = in + empty + Cardinality(Filling) + Cardinality(Freeing)

(* The semaphores account for every message and every slot, at each step of   *)
(* each call.                                                                 *)
SemaphoreInv == OccupiedInv /\ EmptyInv

(* A thread that a semaphore let through is never refused by the ring: send   *)
(* does not return -1, nor receive -20, for a full or an empty list (either   *)
(* would leak the claim, since the post is skipped).                          *)
NeverRefused == At({"s_fail", "r_fail"}) = {}

(* When no thread is inside an operation the semaphores agree with the ring:  *)
(* nobody waits for a message that is there or for a slot that is free.       *)
NoLostWakeup ==
  (\A t \in Threads : pc[t] \in {"idle", "s_wait", "r_wait", "p_lock"})
    => occupied = in /\ empty = Max - in

\* Until an access outside store[] the first element is in one of its slots.
FirstInv == fault \/ f \in Slots

(* The inductive invariant: each part needs the others.                       *)
IInv == TypeOK /\ LockInv /\ OccupiedInv /\ EmptyInv /\ NeverRefused /\ FirstInv

(* Every access is inside store[]: in particular send with prio # 0, "at      *)
(* front of queue via prepend", finds a slot before the first element.        *)
NoFault == ~fault

(* A receiver that waits while a message is in the ring: some receiver is let *)
(* through, however the threads are scheduled, up to a store outside store[]. *)
ReceiverWakes ==
  (in > 0 /\ At({"r_wait"}) # {})
    ~> (Claiming # {} \/ At({"r_wait"}) = {} \/ in = 0 \/ fault)

(* A sender that waits while a slot is free: some sender is let through.      *)
SenderWakes ==
  (in < Max /\ At({"s_wait"}) # {})
    ~> (Filling # {} \/ At({"s_wait"}) = {} \/ in = Max \/ fault)
-----------------------------------------------------------------------------
(* The abstract queue.  A message is in it from the store step of its send to *)
(* the store step of its receive; `in' runs ahead of both by one.             *)
Length == in + Cardinality(At({"r_get"})) - Cardinality(At({"s_store"}))

\* The call a thread is in, until the step with which it takes effect.
Doing(label) == IF label = "idle" THEN "none"
                ELSE IF label \in {"s_wait", "s_lock", "s_in", "s_store"} THEN "send"
                ELSE IF label \in {"r_wait", "r_lock", "r_in", "r_get"} THEN "receive"
                ELSE IF label \in {"p_lock", "p_look"} THEN "peek"
                ELSE "done"

Deque == INSTANCE BoundedDeque
           WITH items <- [i \in 1 .. Length |-> store[(f + i - 1) % Max]],
                got <- out,
                op <- [t \in Threads |-> Doing(pc[t])],
                msg <- arg

(* Each send, receive and peek acts at one instant, between its call and its  *)
(* return, on one sequence of messages.  A send puts its caller's message in, *)
(* exactly once; with ordinary priority always behind the others, so that     *)
(* nothing is lost, duplicated or overtaken.                                  *)
RefinesDeque == Deque!Spec
=============================================================================
