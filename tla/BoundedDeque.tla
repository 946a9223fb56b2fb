---------------------------- MODULE BoundedDeque ----------------------------
(* What a message queue shared by threads promises its callers: a bounded     *)
(* sequence of messages that is changed by one operation at a time.  A thread *)
(* begins a call, the call takes effect on the sequence at one instant, and   *)
(* it returns.  A send puts the message it was called with into the sequence, *)
(* once: behind the others, or before them when it was called with a          *)
(* priority.  A receive takes the front message out.                          *)
EXTENDS Naturals, Sequences

CONSTANTS Threads, Msgs, Max, NoMsg,
          Prios      \* the priorities that are used beside the ordinary one, 0

VARIABLES items,      \* the messages in the queue, the front one first
          got,        \* got[t]: what the last receive or peek of t copied out
          op,         \* op[t]: the call t is in, "done" once it has had its effect
          msg, prio   \* the arguments of t's send

vars == <<items, got, op, msg, prio>>

Init == /\ items = <<>>
        /\ got = [t \in Threads |-> NoMsg]
        /\ op = [t \in Threads |-> "none"]
        /\ msg = [t \in Threads |-> NoMsg]
        /\ prio = [t \in Threads |-> 0]

Does(t, from, to) == op[t] = from /\ op' = [op EXCEPT ![t] = to]

Send(t, m, p) == /\ Does(t, "none", "send")
                 /\ msg' = [msg EXCEPT ![t] = m]
                 /\ prio' = [prio EXCEPT ![t] = p]
                 /\ UNCHANGED <<items, got>>

Ask(t) == /\ Does(t, "none", "receive") \/ Does(t, "none", "peek")
          /\ UNCHANGED <<items, got, msg, prio>>

\* The message of an ordinary send comes behind those that are there.
Insert(t) == /\ Does(t, "send", "done")
             /\ prio[t] = 0 \/ items = <<>>
             /\ Len(items) < Max
             /\ items' = Append(items, msg[t])
             /\ UNCHANGED <<got, msg, prio>>

\* That of a send with a priority comes before them.
Prepend(t) == /\ Does(t, "send", "done")
              /\ prio[t] # 0
              /\ Len(items) < Max
              /\ items' = <<msg[t]>> \o items
              /\ UNCHANGED <<got, msg, prio>>

Take(t) == /\ Does(t, "receive", "done")
           /\ items # <<>>
           /\ got' = [got EXCEPT ![t] = Head(items)]
           /\ items' = Tail(items)
           /\ UNCHANGED <<msg, prio>>

\* A peek may miss a message whose send has not returned yet.
Look(t) == /\ Does(t, "peek", "done")
           /\ \/ UNCHANGED got
              \/ items # <<>> /\ got' = [got EXCEPT ![t] = Head(items)]
           /\ UNCHANGED <<items, msg, prio>>

Return(t) == /\ Does(t, "done", "none")
             /\ msg' = [msg EXCEPT ![t] = NoMsg]
             /\ prio' = [prio EXCEPT ![t] = 0]
             /\ UNCHANGED <<items, got>>

Next == \E t \in Threads :
          \/ \E m \in Msgs, p \in Prios \cup {0} : Send(t, m, p)
          \/ Ask(t) \/ Insert(t) \/ Prepend(t) \/ Take(t) \/ Look(t) \/ Return(t)

Spec == Init /\ [][Next]_vars
=============================================================================
