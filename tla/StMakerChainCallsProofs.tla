---------------------- MODULE StMakerChainCallsProofs -----------------------
(* Proofs about the calls under way in the maker chain: for every tree of     *)
(* makers, a maker has kMakeBeg exactly while its Make is under way, and       *)
(* Finish, also from a signal handler in the middle of an event, goes through  *)
(* the tree from the last maker to the first; an error in one maker does not   *)
(* cost the others the event.                                                  *)
EXTENDS StMakerChainProofs

\* The calls of op in a stack.
Calls(s, op) == {i \in DOMAIN s : s[i].op = op}

\* The calls of op are the innermost ones, of different makers; each was made by
\* the next one for its current maker, the outermost is that of the top chain.
Linked(s, op) == \A i \in Calls(s, op) :
  /\ \A j \in Calls(s, op) : s[i].mk = s[j].mk => i = j
  /\ \A j \in 1 .. i : j \in Calls(s, op)
  /\ i + 1 \in Calls(s, op) => /\ s[i + 1].at \in DOMAIN Kids[s[i + 1].mk]
                               /\ s[i].mk = Kids[s[i + 1].mk][s[i + 1].at]
  /\ i + 1 \notin Calls(s, op) => s[i].mk = Top

\* Which calls there are in each phase of the program.
PhaseInv ==
  /\ program = "init" => \A i \in DOMAIN stack : stack[i].op = "init"
  /\ program = "loop" => \A i \in DOMAIN stack : stack[i].op = "make"
  /\ program = "finish" => \A i \in DOMAIN stack : stack[i].op = "finish"
  /\ program = "terminated" => Calls(stack, "finish") # {}
  /\ program \in {"finished", "exited"} => stack = <<>>

LinkInv == /\ program = "loop" => Linked(stack, "make")
           /\ Linked(stack, "finish")

\* Past the look at a maker, the call has that maker.
PastLookInv == program = "loop" /\ stack # <<>> /\ step # "look" => More

\* kMakeBeg is set for the makers whose own calls are under way and for the
\* current maker of the innermost call.
Nested(s, m) == \E i \in DOMAIN s : i + 1 \in DOMAIN s /\ s[i].mk = m
InMakeOf(m) == \/ Nested(stack, m)
               \/ stack # <<>> /\ step # "look" /\ m = Maker
BegunInv ==
  /\ bits \in [Makers -> SUBSET Bits]
  /\ program = "init" => \A m \in Makers : "MakeBeg" \notin bits[m]
  /\ program = "loop" => \A m \in Makers : "MakeBeg" \in bits[m] <=> InMakeOf(m)

MakeInv == PhaseInv /\ LinkInv /\ PastLookInv /\ BegunInv

\* A call of Finish has finished the makers after its current one; a maker
\* without such a call has finished all of its makers or none.
Ended(m) == "FiniEnd" \in bits[m]
FinishedAfter(f) == /\ f.at \in 0 .. Len(Kids[f.mk]) /\ ~ Ended(f.mk)
                    /\ \A k \in DOMAIN Kids[f.mk] : Ended(Kids[f.mk][k]) <=> k > f.at
FinishingInv ==
  /\ Calls(stack, "finish") = {} /\ program \notin {"finished", "exited"} =>
        \A m \in Makers : ~ Ended(m)
  /\ \A i \in Calls(stack, "finish") : FinishedAfter(stack[i])
  /\ \A m \in Makers : (\A i \in Calls(stack, "finish") : stack[i].mk # m) =>
        \A k \in DOMAIN Kids[m] : Ended(Kids[m][k]) <=> Ended(m)

\* The event loop counts the events.
CountInv ==
  /\ event \in 1 .. Last + 1 /\ nTotal = event - 1 /\ nFailed \in 0 .. nTotal
  /\ program = "loop" /\ (stack # <<>> \/ step = "back") => event <= Last

USE DEF kStOK, kStWarn, kStEOF, kStErr, kStFatal, kStSKIP, NoRun

\* Element by element, what the stack operations return.
LEMMA PushedStack ==
  ASSUME NEW s \in Seq(Frames), NEW f \in Frames
  PROVE  LET t == <<f>> \o s IN
         /\ DOMAIN t = 1 .. Len(s) + 1 /\ t[1] = f
         /\ \A i \in DOMAIN s : t[i + 1] = s[i]
         /\ \A i \in DOMAIN t : i # 1 => i - 1 \in DOMAIN s /\ t[i] = s[i - 1]
OBVIOUS

LEMMA PoppedStack ==
  ASSUME NEW s \in Seq(Frames), s # <<>>
  PROVE  /\ DOMAIN Tail(s) = 1 .. Len(s) - 1 /\ 1 \in DOMAIN s
         /\ \A i \in DOMAIN Tail(s) : i + 1 \in DOMAIN s /\ Tail(s)[i] = s[i + 1]
OBVIOUS

\* The innermost call moved by d makers.
Moved(s, d) == <<[s[1] EXCEPT !.at = @ + d]>> \o Tail(s)

LEMMA MovedStack ==
  ASSUME NEW s \in Seq(Frames), s # <<>>, NEW d \in Int
  PROVE  LET t == Moved(s, d) IN
         /\ t \in Seq(Frames) /\ t # <<>> /\ DOMAIN t = DOMAIN s /\ 1 \in DOMAIN s
         /\ t[1] = [s[1] EXCEPT !.at = @ + d]
         /\ t[1].mk = s[1].mk /\ t[1].op = s[1].op /\ t[1].at = s[1].at + d
         /\ \A i \in DOMAIN s : i # 1 => t[i] = s[i]
         /\ \A i \in DOMAIN s : t[i].mk = s[i].mk /\ t[i].op = s[i].op
<1> DEFINE f == [s[1] EXCEPT !.at = @ + d]
           t == Moved(s, d)
<1>1. 1 \in DOMAIN s /\ Tail(s) \in Seq(Frames) /\ s[1] \in Frames
  OBVIOUS
<1>2. f \in Frames /\ f.mk = s[1].mk /\ f.op = s[1].op /\ f.at = s[1].at + d
  BY <1>1 DEF Frames
<1>3. /\ t \in Seq(Frames) /\ DOMAIN t = 1 .. Len(Tail(s)) + 1 /\ t[1] = f
      /\ \A i \in DOMAIN t : i # 1 => i - 1 \in DOMAIN Tail(s) /\ t[i] = Tail(s)[i - 1]
  <2>1. t = <<f>> \o Tail(s)
    BY DEF Moved
  <2>2. t \in Seq(Frames)
    BY <1>1, <1>2, <2>1, StackTypes
  <2>3. QED
    BY <1>1, <1>2, <2>1, <2>2, PushedStack
<1>4. DOMAIN t = DOMAIN s /\ t # <<>>
  BY <1>1, <1>3
<1>5. \A i \in DOMAIN s : i # 1 => t[i] = s[i]
  BY <1>1, <1>3, <1>4, PoppedStack
<1>6. QED
  BY <1>1, <1>2, <1>3, <1>4, <1>5

LEMMA ForwardBackward ==
  ASSUME NEW s \in Seq(Frames), s # <<>>
  PROVE  Forward(s) = Moved(s, 1) /\ Backward(s) = Moved(s, -1)
<1>1. s[1] \in Frames
  OBVIOUS
<1>2. s[1].at - 1 = s[1].at + (-1)
  BY <1>1 DEF Frames
<1>3. QED
  BY <1>2 DEF Forward, Backward, Moved

\* A maker is below at most one maker, at one place, and the top chain below none.
LEMMA OneParent ==
  ASSUME NEW m \in Makers, NEW n \in Makers, NEW i \in DOMAIN Kids[m], NEW j \in DOMAIN Kids[n]
  PROVE  /\ Kids[m][i] \in Makers /\ Kids[m][i] # Top
         /\ Kids[m][i] = Kids[n][j] => m = n /\ i = j
<1>1. Kids[m] \in Seq(Makers \ {Top})
  BY TreeAssumption
<1>2. QED
  BY <1>1, TreeAssumption

LEMMA Lengths == ASSUME NEW m \in Makers
                 PROVE  Len(Kids[m]) \in Nat /\ DOMAIN Kids[m] = 1 .. Len(Kids[m])
<1>1. Kids[m] \in Seq(Makers \ {Top})
  BY TreeAssumption
<1>2. QED
  BY <1>1

\* The current maker of the innermost call has no call of its own.
LEMMA CurrentUncalled ==
  ASSUME NEW s \in Seq(Frames), s # <<>>, NEW op, Linked(s, op), s[1].op = op,
         s[1].at \in DOMAIN Kids[s[1].mk]
  PROVE  \A i \in Calls(s, op) : s[i].mk # Kids[s[1].mk][s[1].at]
<1> SUFFICES ASSUME NEW i \in Calls(s, op), s[i].mk = Kids[s[1].mk][s[1].at]
             PROVE  FALSE
  OBVIOUS
<1>1. 1 \in Calls(s, op) /\ i \in Nat \ {0}
  BY DEF Calls
<1>2. s[1].mk \in Makers /\ \A j \in DOMAIN s : s[j].mk \in Makers
  <2>1. 1 \in DOMAIN s /\ \A j \in DOMAIN s : s[j] \in Frames
    OBVIOUS
  <2>2. QED
    BY <2>1 DEF Frames
<1>3. s[i].mk # Top
  BY <1>2, OneParent
<1>4. i + 1 \in Calls(s, op)
  BY <1>3 DEF Linked
<1>5. /\ s[i + 1].mk \in Makers /\ s[i + 1].at \in DOMAIN Kids[s[i + 1].mk]
      /\ s[i].mk = Kids[s[i + 1].mk][s[i + 1].at]
  <2>1. i + 1 \in DOMAIN s
    BY <1>4 DEF Calls
  <2>2. QED
    BY <1>2, <1>4, <2>1 DEF Linked
<1>6. s[i + 1].mk = s[1].mk
  <2>1. Kids[s[i + 1].mk][s[i + 1].at] = Kids[s[1].mk][s[1].at]
    BY <1>5
  <2>2. \A m, n \in Makers : \A a \in DOMAIN Kids[m], b \in DOMAIN Kids[n] :
          Kids[m][a] = Kids[n][b] => m = n
    BY OneParent
  <2>3. QED
    BY <1>2, <1>5, <2>1, <2>2
<1>7. i + 1 = 1
  BY <1>1, <1>4, <1>6 DEF Linked
<1>8. QED
  BY <1>1, <1>7

\* Moving the innermost call keeps the calls linked.
LEMMA MoveLinked ==
  ASSUME NEW s \in Seq(Frames), s # <<>>, NEW op, Linked(s, op), NEW d \in Int
  PROVE  Linked(Moved(s, d), op) /\ Calls(Moved(s, d), op) = Calls(s, op)
<1> DEFINE t == Moved(s, d)
<1>1. /\ DOMAIN t = DOMAIN s /\ DOMAIN s \subseteq Nat \ {0}
      /\ \A i \in DOMAIN s : i # 1 => t[i] = s[i]
      /\ \A i \in DOMAIN s : t[i].mk = s[i].mk /\ t[i].op = s[i].op
  <2>1. DOMAIN s \subseteq Nat \ {0}
    OBVIOUS
  <2>2. QED
    BY <2>1, MovedStack
<1>2. Calls(t, op) = Calls(s, op)
  BY <1>1 DEF Calls
<1> HIDE DEF t
<1>3. \A i \in Calls(s, op) : i \in DOMAIN s /\ i + 1 # 1
  BY <1>1 DEF Calls
<1>4. Linked(t, op)
  BY <1>1, <1>2, <1>3 DEF Linked
<1>5. QED
  BY <1>2, <1>4 DEF t

\* So does the return of the innermost call,
LEMMA PopLinked ==
  ASSUME NEW s \in Seq(Frames), s # <<>>, NEW op, Linked(s, op)
  PROVE  /\ Linked(Tail(s), op)
         /\ \A i \in Nat : i \in Calls(Tail(s), op) <=> i # 0 /\ i + 1 \in Calls(s, op)
<1> DEFINE t == Tail(s)
<1>1. /\ DOMAIN t = 1 .. Len(s) - 1 /\ DOMAIN s = 1 .. Len(s) /\ Len(s) \in Nat
      /\ \A i \in DOMAIN t : i + 1 \in DOMAIN s /\ t[i] = s[i + 1]
  BY PoppedStack
<1> HIDE DEF t
<1>2. \A i \in Nat : i \in Calls(t, op) <=> i # 0 /\ i + 1 \in Calls(s, op)
  BY <1>1 DEF Calls
<1>3. \A i \in Calls(t, op) : i \in Nat \ {0} /\ t[i] = s[i + 1] /\ i \in DOMAIN t
  BY <1>1 DEF Calls
<1>4. ASSUME NEW i \in Calls(t, op)
      PROVE  /\ \A j \in Calls(t, op) : t[i].mk = t[j].mk => i = j
             /\ \A j \in 1 .. i : j \in Calls(t, op)
             /\ i + 1 \in Calls(t, op) => /\ t[i + 1].at \in DOMAIN Kids[t[i + 1].mk]
                                          /\ t[i].mk = Kids[t[i + 1].mk][t[i + 1].at]
             /\ i + 1 \notin Calls(t, op) => t[i].mk = Top
  <2>1. i + 1 \in Calls(s, op)
    BY <1>2, <1>3, <1>4
  <2>2. ASSUME NEW j \in Calls(t, op), t[i].mk = t[j].mk PROVE i = j
    <3>1. j + 1 \in Calls(s, op) /\ s[i + 1].mk = s[j + 1].mk /\ i \in Nat /\ j \in Nat
      BY <1>2, <1>3, <1>4, <2>2
    <3>2. i + 1 = j + 1
      BY <2>1, <3>1 DEF Linked
    <3>3. QED
      BY <3>1, <3>2
  <2>3. ASSUME NEW j \in 1 .. i PROVE j \in Calls(t, op)
    <3>1. j \in Nat /\ j # 0 /\ j + 1 \in 1 .. i + 1
      BY <1>3, <1>4
    <3>2. j + 1 \in Calls(s, op)
      BY <2>1, <3>1 DEF Linked
    <3>3. QED
      BY <1>2, <3>1, <3>2
  <2>4. i + 1 \in Calls(t, op) <=> (i + 1) + 1 \in Calls(s, op)
    BY <1>2, <1>3, <1>4
  <2>5. i + 1 \in Calls(t, op) => t[i + 1] = s[(i + 1) + 1]
    BY <1>3
  <2>6. t[i] = s[i + 1]
    BY <1>3, <1>4
  <2>7. QED
    BY <2>1, <2>2, <2>3, <2>4, <2>5, <2>6 DEF Linked
<1>5. Linked(t, op)
  BY <1>4 DEF Linked
<1>6. QED
  BY <1>2, <1>5 DEF t

\* a call for the current maker of the innermost call,
LEMMA PushLinked ==
  ASSUME NEW s \in Seq(Frames), s # <<>>, NEW op \in {"init", "make", "finish"},
         Linked(s, op), s[1].op = op, s[1].at \in DOMAIN Kids[s[1].mk], NEW f \in Frames,
         f.mk = Kids[s[1].mk][s[1].at], f.op = op
  PROVE  Linked(<<f>> \o s, op)
<1> DEFINE t == <<f>> \o s
<1>1. /\ DOMAIN t = 1 .. Len(s) + 1 /\ DOMAIN s = 1 .. Len(s) /\ Len(s) \in Nat /\ t[1] = f
      /\ \A i \in DOMAIN s : t[i + 1] = s[i]
      /\ \A i \in DOMAIN t : i # 1 => i - 1 \in DOMAIN s /\ t[i] = s[i - 1]
  BY PushedStack
<1> HIDE DEF t
<1>2. 1 \in Calls(s, op) /\ 1 \in Calls(t, op)
  BY <1>1 DEF Calls
<1>3. \A i \in Calls(t, op) : i # 1 => /\ i \in Nat \ {0, 1} /\ i - 1 \in Calls(s, op)
                                       /\ t[i] = s[i - 1]
  BY <1>1 DEF Calls
<1>4. \A i \in Calls(s, op) : i \in Nat \ {0} /\ i + 1 \in Calls(t, op) /\ t[i + 1] = s[i]
  BY <1>1 DEF Calls
<1>5. ASSUME NEW i \in Calls(t, op), NEW j \in Calls(t, op), t[i].mk = t[j].mk
      PROVE  i = j
  <2>1. \A k \in Calls(t, op) : k # 1 => t[k].mk # f.mk
    BY <1>3, CurrentUncalled
  <2>2. CASE i = 1 \/ j = 1
    BY <1>1, <1>5, <2>1, <2>2
  <2>3. CASE i # 1 /\ j # 1
    <3>1. /\ i \in Nat \ {0, 1} /\ i - 1 \in Calls(s, op) /\ t[i] = s[i - 1]
          /\ j \in Nat \ {0, 1} /\ j - 1 \in Calls(s, op) /\ t[j] = s[j - 1]
      BY <1>3, <2>3
    <3>2. s[i - 1].mk = s[j - 1].mk
      BY <1>5, <3>1
    <3>3. i - 1 = j - 1
      BY <3>1, <3>2 DEF Linked
    <3>4. QED
      BY <3>1, <3>3
  <2>4. QED
    BY <2>2, <2>3
<1>6. ASSUME NEW i \in Calls(t, op), NEW j \in 1 .. i
      PROVE  j \in Calls(t, op)
  <2>1. CASE j = 1
    BY <1>2, <2>1
  <2>2. CASE j # 1
    <3>1. i \in Nat \ {0, 1} /\ i - 1 \in Calls(s, op)
      <4>1. i # 1
        BY <1>6, <2>2
      <4>2. QED
        BY <1>3, <4>1
    <3>2. j - 1 \in 1 .. i - 1 /\ (j - 1) + 1 = j
      BY <2>2, <3>1
    <3>3. j - 1 \in Calls(s, op)
      BY <3>1, <3>2 DEF Linked
    <3>4. QED
      BY <1>4, <3>2, <3>3
  <2>3. QED
    BY <2>1, <2>2
<1>7. ASSUME NEW i \in Calls(t, op)
      PROVE  /\ i + 1 \in Calls(t, op) => /\ t[i + 1].at \in DOMAIN Kids[t[i + 1].mk]
                                          /\ t[i].mk = Kids[t[i + 1].mk][t[i + 1].at]
             /\ i + 1 \notin Calls(t, op) => t[i].mk = Top
  <2>1. CASE i = 1
    <3>1. 1 + 1 \in Calls(t, op) /\ t[1 + 1] = s[1]
      BY <1>2, <1>4
    <3>2. QED
      BY <1>1, <2>1, <3>1
  <2>2. CASE i # 1
    <3>1. i - 1 \in Calls(s, op) /\ t[i] = s[i - 1] /\ (i - 1) + 1 = i /\ i \in Nat
      BY <1>3, <1>7, <2>2
    <3>2. i + 1 \in Calls(t, op) <=> i \in Calls(s, op)
      <4>1. i + 1 # 1 /\ (i + 1) - 1 = i
        BY <1>3, <1>7, <2>2
      <4>2. QED
        BY <1>3, <1>4, <4>1
    <3>3. i + 1 \in Calls(t, op) => t[i + 1] = s[i]
      BY <1>4, <3>2
    <3>4. /\ i \in Calls(s, op) => /\ s[i].at \in DOMAIN Kids[s[i].mk]
                                   /\ s[i - 1].mk = Kids[s[i].mk][s[i].at]
          /\ i \notin Calls(s, op) => s[i - 1].mk = Top
      BY <3>1 DEF Linked
    <3>5. QED
      BY <3>1, <3>2, <3>3, <3>4
  <2>3. QED
    BY <2>1, <2>2
<1>8. Linked(t, op)
  BY <1>5, <1>6, <1>7 DEF Linked
<1>9. QED
  BY <1>8 DEF t

\* and the first call, that of the top chain.
LEMMA StartLinked ==
  ASSUME NEW s \in Seq(Frames), NEW op, Calls(s, op) = {}, NEW f \in Frames,
         f.mk = Top, f.op = op
  PROVE  Linked(<<f>> \o s, op) /\ Calls(<<f>> \o s, op) = {1}
<1> DEFINE t == <<f>> \o s
<1>1. /\ DOMAIN t = 1 .. Len(s) + 1 /\ DOMAIN s = 1 .. Len(s) /\ Len(s) \in Nat /\ t[1] = f
      /\ \A i \in DOMAIN t : i # 1 => i - 1 \in DOMAIN s /\ t[i] = s[i - 1]
  BY PushedStack
<1> HIDE DEF t
<1>2. Calls(t, op) = {1}
  BY <1>1 DEF Calls
<1>3. Linked(t, op)
  BY <1>1, <1>2 DEF Linked
<1>4. QED
  BY <1>2, <1>3 DEF t

LEMMA NoCalls ==
  ASSUME NEW s \in Seq(Frames), NEW op, \A i \in DOMAIN s : s[i].op # op
  PROVE  Calls(s, op) = {} /\ Linked(s, op)
BY DEF Calls, Linked

\* Moving and returning leave calls of one kind where there were only such.
LEMMA ReturnOps ==
  ASSUME NEW s \in Seq(Frames), s # <<>>, NEW op, \A i \in DOMAIN s : s[i].op = op
  PROVE  \A i \in DOMAIN Tail(s) : Tail(s)[i].op = op
<1>1. \A i \in DOMAIN Tail(s) : i + 1 \in DOMAIN s /\ Tail(s)[i] = s[i + 1]
  BY PoppedStack
<1>2. QED
  BY <1>1

LEMMA MoveOps ==
  ASSUME NEW s \in Seq(Frames), s # <<>>, NEW op, \A i \in DOMAIN s : s[i].op = op,
         NEW t, t = Forward(s) \/ t = Backward(s)
  PROVE  \A i \in DOMAIN t : t[i].op = op
<1>1. DOMAIN t = DOMAIN s /\ \A j \in DOMAIN s : t[j].op = s[j].op
  <2>1. PICK d \in Int : t = Moved(s, d)
    BY ForwardBackward
  <2>2. QED
    BY <2>1, MovedStack
<1>2. QED
  BY <1>1

\* The makers with an own call under way, after the stack operations.
LEMMA MoveNested ==
  ASSUME NEW s \in Seq(Frames), s # <<>>, NEW d \in Int, NEW m
  PROVE  Nested(Moved(s, d), m) <=> Nested(s, m)
<1> DEFINE t == Moved(s, d)
<1>1. DOMAIN t = DOMAIN s /\ \A i \in DOMAIN s : t[i].mk = s[i].mk
  BY MovedStack
<1> HIDE DEF t
<1>2. Nested(t, m) <=> Nested(s, m)
  BY <1>1 DEF Nested
<1>3. QED
  BY <1>2 DEF t

LEMMA PushNested ==
  ASSUME NEW s \in Seq(Frames), s # <<>>, NEW f \in Frames, NEW m
  PROVE  Nested(<<f>> \o s, m) <=> f.mk = m \/ Nested(s, m)
<1> DEFINE t == <<f>> \o s
<1>1. /\ DOMAIN t = 1 .. Len(s) + 1 /\ DOMAIN s = 1 .. Len(s) /\ Len(s) \in Nat /\ t[1] = f
      /\ \A i \in DOMAIN s : t[i + 1] = s[i]
      /\ \A i \in DOMAIN t : i # 1 => i - 1 \in DOMAIN s /\ t[i] = s[i - 1]
  BY PushedStack
<1>2. 1 \in DOMAIN s
  OBVIOUS
<1> HIDE DEF t
<1>3. ASSUME f.mk = m PROVE Nested(t, m)
  BY <1>1, <1>2, <1>3 DEF Nested
<1>4. ASSUME Nested(s, m) PROVE Nested(t, m)
  <2>1. PICK i \in DOMAIN s : i + 1 \in DOMAIN s /\ s[i].mk = m
    BY <1>4 DEF Nested
  <2>2. i + 1 \in DOMAIN t /\ (i + 1) + 1 \in DOMAIN t /\ t[i + 1].mk = m
    BY <1>1, <2>1
  <2>3. QED
    BY <2>2 DEF Nested
<1>5. ASSUME Nested(t, m), f.mk # m PROVE Nested(s, m)
  <2>1. PICK i \in DOMAIN t : i + 1 \in DOMAIN t /\ t[i].mk = m
    BY <1>5 DEF Nested
  <2>2. i # 1
    BY <1>1, <1>5, <2>1
  <2>3. i - 1 \in DOMAIN s /\ (i - 1) + 1 \in DOMAIN s /\ s[i - 1].mk = m
    BY <1>1, <2>1, <2>2
  <2>4. QED
    BY <2>3 DEF Nested
<1>6. QED
  BY <1>3, <1>4, <1>5 DEF t

\* What the second call of a stack is, when the innermost one returns to it.
LEMMA Returning ==
  ASSUME NEW s \in Seq(Frames), s # <<>>, NEW op, Linked(s, op),
         \A i \in DOMAIN s : s[i].op = op, Tail(s) # <<>>
  PROVE  /\ Tail(s) \in Seq(Frames) /\ Head(Tail(s)) = s[2] /\ 2 \in DOMAIN s
         /\ s[2].at \in DOMAIN Kids[s[2].mk] /\ s[1].mk = Kids[s[2].mk][s[2].at]
<1>1. /\ Tail(s) \in Seq(Frames) /\ 1 \in DOMAIN Tail(s) /\ 1 \in DOMAIN s
      /\ Head(Tail(s)) = Tail(s)[1]
  OBVIOUS
<1>2. 1 + 1 \in DOMAIN s /\ Tail(s)[1] = s[1 + 1]
  BY <1>1, PoppedStack
<1>3. 1 \in Calls(s, op) /\ 1 + 1 \in Calls(s, op)
  BY <1>1, <1>2 DEF Calls
<1>4. /\ s[1 + 1].at \in DOMAIN Kids[s[1 + 1].mk]
      /\ s[1].mk = Kids[s[1 + 1].mk][s[1 + 1].at]
  BY <1>3 DEF Linked
<1>5. 1 + 1 = 2
  OBVIOUS
<1>6. QED
  BY <1>1, <1>2, <1>4, <1>5

LEMMA PopNested ==
  ASSUME NEW s \in Seq(Frames), s # <<>>, NEW op, Linked(s, op),
         \A i \in DOMAIN s : s[i].op = op, NEW m
  PROVE  Nested(s, m) <=> \/ Nested(Tail(s), m)
                          \/ /\ Tail(s) # <<>>
                             /\ m = Kids[Head(Tail(s)).mk][Head(Tail(s)).at]
<1> DEFINE t == Tail(s)
<1>1. /\ DOMAIN t = 1 .. Len(s) - 1 /\ DOMAIN s = 1 .. Len(s) /\ Len(s) \in Nat
      /\ \A i \in DOMAIN t : i + 1 \in DOMAIN s /\ t[i] = s[i + 1]
  BY PoppedStack
<1>2. t # <<>> <=> 2 \in DOMAIN s
  OBVIOUS
<1>3. t # <<>> => s[1].mk = Kids[Head(t).mk][Head(t).at]
  BY Returning
<1> HIDE DEF t
<1>4. ASSUME Nested(t, m) PROVE Nested(s, m)
  <2>1. PICK i \in DOMAIN t : i + 1 \in DOMAIN t /\ t[i].mk = m
    BY <1>4 DEF Nested
  <2>2. i + 1 \in DOMAIN s /\ (i + 1) + 1 \in DOMAIN s /\ s[i + 1].mk = m
    BY <1>1, <2>1
  <2>3. QED
    BY <2>2 DEF Nested
<1>5. ASSUME t # <<>>, m = s[1].mk PROVE Nested(s, m)
  <2>1. 1 \in DOMAIN s /\ 1 + 1 \in DOMAIN s
    BY <1>1, <1>2, <1>5
  <2>2. QED
    BY <1>5, <2>1 DEF Nested
<1>6. ASSUME Nested(s, m) PROVE Nested(t, m) \/ (t # <<>> /\ m = s[1].mk)
  <2>1. PICK i \in DOMAIN s : i + 1 \in DOMAIN s /\ s[i].mk = m
    BY <1>6 DEF Nested
  <2>2. CASE i = 1
    BY <1>1, <1>2, <2>1, <2>2
  <2>3. CASE i # 1
    <3>1. i - 1 \in DOMAIN t /\ (i - 1) + 1 \in DOMAIN t
      BY <1>1, <2>1, <2>3
    <3>2. t[i - 1] = s[i]
      <4>1. (i - 1) + 1 = i
        BY <1>1, <2>1
      <4>2. QED
        BY <1>1, <3>1, <4>1
    <3>3. QED
      BY <2>1, <3>1, <3>2 DEF Nested
  <2>4. QED
    BY <2>2, <2>3
<1>7. QED
  BY <1>3, <1>4, <1>5, <1>6 DEF t
-----------------------------------------------------------------------------
\* kMakeBeg: the steps in the phases of the program

LEMMA EmptyStack ==
  /\ <<>> \in Seq(Frames) /\ DOMAIN <<>> = {}
  /\ \A op \in {"make", "finish"} : Calls(<<>>, op) = {} /\ Linked(<<>>, op)
<1>1. <<>> \in Seq(Frames) /\ DOMAIN <<>> = {}
  OBVIOUS
<1>2. QED
  BY <1>1, NoCalls

\* Where there are no calls kMakeBeg must not be left.
LEMMA NoCallStep ==
  ASSUME stack' = <<>>, program' # "terminated", bits' \in [Makers -> SUBSET Bits],
         program' \in {"init", "loop"} => \A m \in Makers : "MakeBeg" \notin bits'[m]
  PROVE  MakeInv'
<1>1. PhaseInv' /\ LinkInv' /\ PastLookInv'
  BY EmptyStack DEF PhaseInv, LinkInv, PastLookInv
<1>2. \A m : ~ InMakeOf(m)'
  BY EmptyStack DEF InMakeOf, Nested
<1>3. BegunInv'
  BY <1>2 DEF BegunInv
<1>4. QED
  BY <1>1, <1>3 DEF MakeInv

LEMMA InitPhase ==
  ASSUME program' = "init", stack' \in Seq(Frames),
         \A i \in DOMAIN stack' : stack'[i].op = "init",
         bits' \in [Makers -> SUBSET Bits], \A m \in Makers : "MakeBeg" \notin bits'[m]
  PROVE  MakeInv'
BY NoCalls DEF MakeInv, PhaseInv, LinkInv, PastLookInv, BegunInv

LEMMA LoopPhase ==
  ASSUME program' = "loop", stack' \in Seq(Frames),
         \A i \in DOMAIN stack' : stack'[i].op = "make",
         Linked(stack', "make"), PastLookInv', BegunInv'
  PROVE  MakeInv'
BY NoCalls DEF MakeInv, PhaseInv, LinkInv

LEMMA FinishPhase ==
  ASSUME program' \in {"finish", "terminated"}, Linked(stack', "finish"),
         program' = "finish" => \A i \in DOMAIN stack' : stack'[i].op = "finish",
         program' = "terminated" => Calls(stack', "finish") # {},
         bits' \in [Makers -> SUBSET Bits]
  PROVE  MakeInv'
BY DEF MakeInv, PhaseInv, LinkInv, PastLookInv, BegunInv

\* A call of Make and its current maker.
LEMMA MakeCall ==
  ASSUME IInv, MakeInv, InCall("make")
  PROVE  /\ program = "loop" /\ stack \in Seq(Frames) /\ stack # <<>>
         /\ \A i \in DOMAIN stack : stack[i].op = "make"
         /\ Linked(stack, "make") /\ Frame = stack[1] /\ 1 \in DOMAIN stack
         /\ More => /\ Maker \in Makers /\ stack[1].at \in DOMAIN Kids[stack[1].mk]
                    /\ Maker = Kids[stack[1].mk][stack[1].at] /\ ~ Nested(stack, Maker)
<1>1. program = "loop" /\ stack \in Seq(Frames) /\ stack # <<>>
  BY DEF InCall, Running, IInv, TypeInv, Frames
<1>2. /\ \A i \in DOMAIN stack : stack[i].op = "make"
      /\ Linked(stack, "make")
  BY <1>1 DEF MakeInv, PhaseInv, LinkInv
<1>3. Frame = stack[1] /\ 1 \in DOMAIN stack
  BY <1>1 DEF Frame
<1>4. ASSUME More
      PROVE  /\ Maker \in Makers /\ stack[1].at \in DOMAIN Kids[stack[1].mk]
             /\ Maker = Kids[stack[1].mk][stack[1].at] /\ ~ Nested(stack, Maker)
  <2>1. /\ Maker \in Makers /\ stack[1].at \in DOMAIN Kids[stack[1].mk]
        /\ Maker = Kids[stack[1].mk][stack[1].at]
    BY <1>1, <1>3, <1>4, MakerType DEF More, Maker
  <2>2. \A i \in Calls(stack, "make") : stack[i].mk # Maker
    BY <1>1, <1>2, <1>3, <2>1, CurrentUncalled
  <2>3. QED
    BY <1>2, <2>1, <2>2 DEF Calls, Nested
<1>5. QED
  BY <1>1, <1>2, <1>3, <1>4

\* The innermost call goes on to its next maker.
LEMMA MakeForward ==
  ASSUME IInv, MakeInv, InCall("make"), More, stack' = Forward(stack), step' = "look",
         program' = program,
         \/ step = "look" /\ bits' = bits
         \/ step # "look" /\ bits' = [bits EXCEPT ![Maker] = @ \ {"MakeBeg"}]
  PROVE  MakeInv'
<1>1. /\ program = "loop" /\ stack \in Seq(Frames) /\ stack # <<>>
      /\ \A i \in DOMAIN stack : stack[i].op = "make"
      /\ Linked(stack, "make") /\ Maker \in Makers /\ ~ Nested(stack, Maker)
  BY MakeCall
<1>2. stack' = Moved(stack, 1)
  BY <1>1, ForwardBackward
<1>3. stack' \in Seq(Frames) /\ \A i \in DOMAIN stack' : stack'[i].op = "make"
  <2>1. stack' \in Seq(Frames)
    BY <1>1, StackTypes
  <2>2. \A i \in DOMAIN stack' : stack'[i].op = "make"
    BY <1>1, MoveOps
  <2>3. QED
    BY <2>1, <2>2
<1>4. Linked(stack', "make")
  BY <1>1, <1>2, MoveLinked
<1>5. PastLookInv'
  BY DEF PastLookInv
<1>6. \A m : InMakeOf(m)' <=> Nested(stack, m)
  BY <1>1, <1>2, MoveNested DEF InMakeOf
<1>7. BegunInv'
  <2>1. bits' \in [Makers -> SUBSET Bits]
    BY <1>1 DEF MakeInv, BegunInv, Bits
  <2>2. ASSUME NEW m \in Makers PROVE "MakeBeg" \in bits'[m] <=> Nested(stack, m)
    <3>1. "MakeBeg" \in bits[m] <=> InMakeOf(m)
      BY <1>1 DEF MakeInv, BegunInv
    <3>2. QED
      BY <1>1, <3>1 DEF MakeInv, BegunInv, InMakeOf
  <2>3. QED
    BY <1>1, <1>6, <2>1, <2>2 DEF BegunInv
<1>8. QED
  BY <1>1, <1>3, <1>4, <1>5, <1>7, LoopPhase

\* The innermost call returns.
LEMMA MakeReturn ==
  ASSUME IInv, MakeInv, InCall("make"), stack' = Tail(stack), step' = "back",
         program' = program,
         \/ step = "look" /\ bits' = bits
         \/ step # "look" /\ More /\ bits' = [bits EXCEPT ![Maker] = @ \ {"MakeBeg"}]
  PROVE  MakeInv'
<1>1. /\ program = "loop" /\ stack \in Seq(Frames) /\ stack # <<>>
      /\ \A i \in DOMAIN stack : stack[i].op = "make"
      /\ Linked(stack, "make")
      /\ More => Maker \in Makers /\ ~ Nested(stack, Maker)
  BY MakeCall
<1>3. stack' \in Seq(Frames) /\ \A i \in DOMAIN stack' : stack'[i].op = "make"
  BY <1>1, StackTypes, ReturnOps
<1>4. Linked(stack', "make")
  BY <1>1, PopLinked
<1>5. PastLookInv'
  BY <1>1, Returning DEF PastLookInv, More, Frame
<1>6. \A m : InMakeOf(m)' <=> Nested(stack, m)
  <2>1. Frame' = Head(Tail(stack)) /\ Maker' = Kids[Frame'.mk][Frame'.at]
    BY DEF Frame, Maker
  <2>2. QED
    BY <1>1, <2>1, PopNested DEF InMakeOf
<1>7. BegunInv'
  <2>1. bits' \in [Makers -> SUBSET Bits]
    BY <1>1 DEF MakeInv, BegunInv, SetBit, Bits
  <2>2. ASSUME NEW m \in Makers PROVE "MakeBeg" \in bits'[m] <=> Nested(stack, m)
    <3>1. "MakeBeg" \in bits[m] <=> InMakeOf(m)
      BY <1>1 DEF MakeInv, BegunInv
    <3>2. QED
      BY <1>1, <3>1 DEF MakeInv, BegunInv, InMakeOf
  <2>3. QED
    BY <1>1, <1>6, <2>1, <2>2 DEF BegunInv
<1>8. QED
  BY <1>1, <1>3, <1>4, <1>5, <1>7, LoopPhase

\* The same calls and bits, between two steps past the look.
LEMMA MakeSame ==
  ASSUME IInv, MakeInv, InCall("make"), More, UNCHANGED <<stack, program>>, step' # "look",
         \/ step # "look" /\ bits' = bits
         \/ step = "look" /\ bits' = SetBit(Maker, "MakeBeg")
  PROVE  MakeInv'
<1>1. /\ program = "loop" /\ stack \in Seq(Frames) /\ stack # <<>>
      /\ \A i \in DOMAIN stack : stack[i].op = "make"
      /\ Linked(stack, "make") /\ Maker \in Makers
  BY MakeCall
<1>2. UNCHANGED <<Frame, More, Maker>>
  BY DEF Frame, More, Maker
<1>3. PastLookInv'
  BY <1>2 DEF PastLookInv
<1>4. \A m : InMakeOf(m)' <=> Nested(stack, m) \/ m = Maker
  BY <1>1, <1>2 DEF InMakeOf
<1>5. BegunInv'
  <2>1. bits' \in [Makers -> SUBSET Bits]
    BY <1>1 DEF MakeInv, BegunInv, SetBit, Bits
  <2>2. ASSUME NEW m \in Makers
        PROVE  "MakeBeg" \in bits'[m] <=> Nested(stack, m) \/ m = Maker
    <3>1. "MakeBeg" \in bits[m] <=> InMakeOf(m)
      BY <1>1 DEF MakeInv, BegunInv
    <3>2. QED
      BY <1>1, <3>1 DEF MakeInv, BegunInv, InMakeOf, SetBit
  <2>3. QED
    BY <1>1, <1>4, <2>1, <2>2 DEF BegunInv
<1>6. QED
  BY <1>1, <1>3, <1>5, LoopPhase

\* Every step keeps the calls of Make and kMakeBeg in agreement.
LEMMA StepMakeInv == IInv /\ IInv' /\ MakeInv /\ [Next]_vars => MakeInv'
<1> SUFFICES ASSUME IInv, IInv', MakeInv, [Next]_vars PROVE MakeInv'
  OBVIOUS
<1> USE DEF history, counters
<1>a. /\ stack \in Seq(Frames) /\ stack' \in Seq(Frames)
      /\ bits \in [Makers -> SUBSET Bits] /\ Top \in Makers
  BY TreeAssumption DEF IInv, TypeInv, Frames, MakeInv, BegunInv
<1>b. ASSUME program = "init"
      PROVE  /\ \A i \in DOMAIN stack : stack[i].op = "init"
             /\ \A m \in Makers : "MakeBeg" \notin bits[m]
  BY <1>b DEF MakeInv, PhaseInv, BegunInv
<1>1. CASE InitMaker
  <2>1. program = "init" /\ stack # <<>>
    BY <1>1 DEF InitMaker, InCall, Running
  <2>2. bits' = SetBit(Maker, "InitEnd") \/ bits' = SetBit(Maker, "InitBeg")
    BY <1>1 DEF InitMaker
  <2>3. bits' \in [Makers -> SUBSET Bits] /\ \A m \in Makers : "MakeBeg" \notin bits'[m]
    BY <1>a, <1>b, <2>1, <2>2 DEF SetBit, Bits
  <2>4. CASE stack' = <<>> /\ program' = "finish"
    BY <2>3, <2>4, NoCallStep
  <2>5. CASE stack' = Forward(stack) /\ program' = program
    <3>1. \A i \in DOMAIN stack : stack[i].op = "init"
      BY <1>b, <2>1
    <3>2. \A i \in DOMAIN stack' : stack'[i].op = "init"
      <4>1. stack' = Forward(stack)
        BY <2>5
      <4>2. stack \in Seq(Frames) /\ stack # <<>>
        BY <1>a, <2>1
      <4>3. QED
        BY <3>1, <4>1, <4>2, MoveOps
    <3>3. QED
      BY <1>a, <2>1, <2>3, <2>5, <3>2, InitPhase
  <2>6. QED
    BY <1>1, <2>4, <2>5 DEF InitMaker
<1>2. CASE InitChain
  <2>1. program = "init" /\ stack # <<>> /\ Maker \in Makers
    BY <1>2, <1>a, MakerType DEF InitChain, InCall, Running
  <2>2. bits' \in [Makers -> SUBSET Bits] /\ \A m \in Makers : "MakeBeg" \notin bits'[m]
    BY <1>2, <1>a, <1>b, <2>1 DEF InitChain, SetBit, Bits
  <2> DEFINE f == [mk |-> Maker, op |-> "init", at |-> 1]
  <2>3. stack' = <<f>> \o stack /\ f \in Frames /\ f.op = "init"
    BY <1>2, <2>1 DEF InitChain, Push, Frames
  <2> HIDE DEF f
  <2>4. \A i \in DOMAIN stack' : stack'[i].op = "init"
    BY <1>a, <1>b, <2>1, <2>3, PushedStack
  <2>5. QED
    BY <1>2, <1>a, <2>1, <2>2, <2>4, InitPhase DEF InitChain
<1>3. CASE InitReturn
  <2>1. program = "init" /\ stack # <<>>
    BY <1>3 DEF InitReturn, InCall, Running
  <2>2. bits' \in [Makers -> SUBSET Bits] /\ \A m \in Makers : "MakeBeg" \notin bits'[m]
    BY <1>3, <1>a, <1>b, <2>1 DEF InitReturn, BitMoved, Bits
  <2>3. CASE Len(stack) = 1
    BY <1>3, <2>2, <2>3, NoCallStep DEF InitReturn
  <2>4. CASE Len(stack) # 1
    <3> DEFINE t == Tail(stack)
    <3>1. t \in Seq(Frames) /\ t # <<>>
      BY <1>a, <2>1, <2>4, NonemptyTail
    <3>2. \A i \in DOMAIN stack : stack[i].op = "init"
      BY <1>b, <2>1
    <3>3. \A i \in DOMAIN t : t[i].op = "init"
      BY <1>a, <2>1, <3>2, ReturnOps
    <3>6. stack' = Forward(t)
      BY <1>3, <2>4 DEF InitReturn
    <3> HIDE DEF t
    <3>4. \A i \in DOMAIN stack' : stack'[i].op = "init"
      BY <3>1, <3>3, <3>6, MoveOps
    <3>5. program' = "init"
      BY <1>3, <2>1, <2>4 DEF InitReturn
    <3>7. QED
      BY <1>a, <2>2, <3>4, <3>5, InitPhase
  <2>5. QED
    BY <2>3, <2>4
<1>4. CASE NewEvent
  <2> DEFINE f == [mk |-> Top, op |-> "make", at |-> 1]
  <2>1. /\ stack = <<>> /\ program = "loop" /\ program' = "loop" /\ step' = "look"
        /\ stack' = <<f>> \o stack /\ f \in Frames /\ f.op = "make" /\ f.mk = Top
        /\ bits' = bits
    BY <1>4, <1>a DEF NewEvent, Push, Frames
  <2> HIDE DEF f
  <2>2. /\ DOMAIN stack' = {1} /\ stack'[1].op = "make"
    BY <2>1, <1>a, PushedStack, EmptyStack
  <2>3. Linked(stack', "make")
    BY <2>1, <1>a, EmptyStack, StartLinked
  <2>4. \A m : ~ InMakeOf(m) /\ ~ InMakeOf(m)'
    BY <2>1, <2>2, EmptyStack DEF InMakeOf, Nested
  <2>5. PastLookInv' /\ BegunInv'
    BY <2>1, <2>4 DEF PastLookInv, BegunInv, MakeInv
  <2>6. QED
    BY <1>a, <2>1, <2>2, <2>3, <2>5, LoopPhase
<1>5. CASE SkipInactive
  BY <1>5, MakeForward DEF SkipInactive, Step
<1>6. CASE BeginMaker
  BY <1>6, MakeSame DEF BeginMaker, Step, LooksAtRun
<1>7. CASE InitRun
  <2>1. InCall("make") /\ program = "loop" /\ step = "initrun"
    BY <1>7 DEF InitRun, Step, InCall, Running
  <2>2. More
    BY <2>1 DEF IInv, AtMakerInv
  <2>3. QED
    BY <1>7, <2>1, <2>2, MakeSame DEF InitRun
<1>8. CASE MakeChain
  <2>1. InCall("make") /\ step = "make" /\ program = "loop"
    BY <1>8 DEF MakeChain, Step, InCall, Running
  <2>2. More
    BY <2>1 DEF IInv, AtMakerInv
  <2>3. /\ stack # <<>> /\ \A i \in DOMAIN stack : stack[i].op = "make"
        /\ Linked(stack, "make") /\ 1 \in DOMAIN stack
        /\ Maker \in Makers /\ stack[1].at \in DOMAIN Kids[stack[1].mk]
        /\ Maker = Kids[stack[1].mk][stack[1].at]
    BY <2>1, <2>2, MakeCall
  <2> DEFINE f == [mk |-> Maker, op |-> "make", at |-> 1]
  <2>4. /\ stack' = <<f>> \o stack /\ f \in Frames /\ f.op = "make" /\ f.mk = Maker
        /\ bits' = bits /\ program' = program /\ step' = "look"
    BY <1>8, <2>3 DEF MakeChain, Push, Frames
  <2> HIDE DEF f
  <2>5. \A i \in DOMAIN stack' : stack'[i].op = "make"
    BY <1>a, <2>3, <2>4, PushedStack
  <2>6. Linked(stack', "make")
    BY <1>a, <2>3, <2>4, PushLinked
  <2>7. \A m : InMakeOf(m)' <=> InMakeOf(m)
    BY <1>a, <2>1, <2>3, <2>4, PushNested DEF InMakeOf
  <2>8. PastLookInv' /\ BegunInv'
    BY <2>1, <2>4, <2>7 DEF PastLookInv, BegunInv, MakeInv
  <2>9. QED
    BY <1>a, <2>1, <2>4, <2>5, <2>6, <2>8, LoopPhase
<1>9. ASSUME NEW r \in Runs, ReadRun(r) PROVE MakeInv'
  <2>1. InCall("make") /\ program = "loop" /\ step = "make"
    BY <1>9 DEF ReadRun, Step, InCall, Running
  <2>2. More
    BY <2>1 DEF IInv, AtMakerInv
  <2>3. QED
    BY <1>9, <2>1, <2>2, MakeSame DEF ReadRun
<1>10. ASSUME NEW r, AfterMaker(Maker, r), InCall("make"), step # "look",
              program' = program
       PROVE  MakeInv'
  <2>1. More
    BY <1>10 DEF MakeInv, PastLookInv, InCall, Running
  <2>2. CASE Ends(Maker, r)
    BY <1>10, <2>1, <2>2, MakeReturn DEF AfterMaker, Returned
  <2>3. CASE ~ Ends(Maker, r)
    BY <1>10, <2>1, <2>3, MakeForward DEF AfterMaker
  <2>4. QED
    BY <2>2, <2>3
<1>11. ASSUME NEW r \in Codes, EndMaker(r) PROVE MakeInv'
  BY <1>10, <1>11 DEF EndMaker, Step
<1>12. CASE EndChain
  BY <1>10, <1>12 DEF EndChain, Step
<1>13. CASE ReturnOK
  BY <1>13, MakeReturn DEF ReturnOK, Step, Returned
<1>14. ASSUME program = "loop", stack = <<>>, UNCHANGED <<stack, bits>>,
              program' \in {"loop", "finish"}
       PROVE  MakeInv'
  <2>1. \A m : ~ InMakeOf(m)
    BY <1>14, EmptyStack DEF InMakeOf, Nested
  <2>2. QED
    BY <1>14, <2>1, NoCallStep DEF MakeInv, BegunInv
<1>15. CASE EndEvent
  BY <1>14, <1>15 DEF EndEvent
<1>16. CASE EndLoop
  BY <1>14, <1>16 DEF EndLoop
<1>17. ASSUME FinishTop, program' \in {"finish", "terminated"},
              Calls(stack, "finish") = {}, program' = "finish" => stack = <<>>
       PROVE  MakeInv'
  <2> DEFINE f == [mk |-> Top, op |-> "finish", at |-> Len(Kids[Top])]
  <2>1. /\ stack' = <<f>> \o stack /\ f \in Frames /\ f.op = "finish" /\ f.mk = Top
        /\ bits' = bits
    BY <1>17, <1>a, KidsLength DEF FinishTop, Push, Frames
  <2> HIDE DEF f
  <2>2. Linked(stack', "finish") /\ Calls(stack', "finish") = {1}
    BY <1>17, <1>a, <2>1, StartLinked
  <2>3. stack = <<>> => \A i \in DOMAIN stack' : stack'[i].op = "finish"
    <3>1. ASSUME stack = <<>> PROVE DOMAIN stack' = {1} /\ stack'[1] = f
      BY <3>1, <1>a, <2>1, PushedStack, EmptyStack
    <3>2. QED
      BY <2>1, <3>1
  <2>4. QED
    BY <1>17, <1>a, <2>1, <2>2, <2>3, FinishPhase
<1>18. CASE Finish
  BY <1>17, <1>18, EmptyStack DEF Finish
<1>19. CASE Terminate
  <2>1. Calls(stack, "finish") = {}
    BY <1>19, <1>a, NoCalls DEF Terminate, MakeInv, PhaseInv
  <2>2. QED
    BY <1>17, <1>19, <2>1 DEF Terminate
<1>20. CASE FinishMaker
  <2>1. /\ stack # <<>> /\ Frame.op = "finish" /\ More /\ Maker \in Makers
        /\ program \in {"finish", "terminated"} /\ program' = program
    BY <1>20, <1>a, MakerType DEF FinishMaker, InCall, Running
  <2>2. /\ Frame = stack[1] /\ 1 \in DOMAIN stack
        /\ stack[1].at \in DOMAIN Kids[stack[1].mk]
        /\ Maker = Kids[stack[1].mk][stack[1].at]
    BY <1>a, <2>1 DEF Frame, More, Maker
  <2>3. /\ Linked(stack, "finish") /\ 1 \in Calls(stack, "finish")
        /\ program = "finish" => \A i \in DOMAIN stack : stack[i].op = "finish"
    BY <2>1, <2>2 DEF MakeInv, LinkInv, PhaseInv, Calls
  <2>4. bits' \in [Makers -> SUBSET Bits]
    BY <1>20, <1>a DEF FinishMaker, SetBit, Bits
  <2>5. CASE IsChain(Maker)
    <3> DEFINE f == [mk |-> Maker, op |-> "finish", at |-> Len(Kids[Maker])]
    <3>1. stack' = <<f>> \o stack /\ f \in Frames /\ f.op = "finish" /\ f.mk = Maker
      BY <1>20, <2>1, <2>5, KidsLength DEF FinishMaker, Push, Frames
    <3> HIDE DEF f
    <3>2. Linked(stack', "finish")
      BY <1>a, <2>1, <2>2, <2>3, <3>1, PushLinked
    <3>3. 1 \in Calls(stack', "finish")
      BY <1>a, <3>1, PushedStack DEF Calls
    <3>4. program = "finish" => \A i \in DOMAIN stack' : stack'[i].op = "finish"
      BY <1>a, <2>3, <3>1, PushedStack
    <3>5. QED
      BY <2>1, <2>4, <3>2, <3>3, <3>4, FinishPhase
  <2>6. CASE ~ IsChain(Maker)
    <3>1. stack' = Moved(stack, -1)
      BY <1>20, <1>a, <2>1, <2>6, ForwardBackward DEF FinishMaker
    <3>2. Linked(stack', "finish") /\ Calls(stack', "finish") = Calls(stack, "finish")
      BY <1>a, <2>1, <2>3, <3>1, MoveLinked
    <3>3. ASSUME program = "finish"
          PROVE  \A i \in DOMAIN stack' : stack'[i].op = "finish"
      <4>1. stack' = Backward(stack)
        BY <1>20, <2>6 DEF FinishMaker
      <4>2. \A i \in DOMAIN stack : stack[i].op = "finish"
        BY <2>3, <3>3
      <4>3. QED
        BY <1>a, <2>1, <4>1, <4>2, MoveOps
    <3>4. QED
      BY <2>1, <2>3, <2>4, <3>2, <3>3, FinishPhase
  <2>7. QED
    BY <2>5, <2>6
<1>21. CASE FinishReturn
  <2>1. /\ stack # <<>> /\ Frame.op = "finish" /\ program \in {"finish", "terminated"}
    BY <1>21 DEF FinishReturn, InCall, Running
  <2>2. /\ Linked(stack, "finish")
        /\ program = "finish" => \A i \in DOMAIN stack : stack[i].op = "finish"
    BY DEF MakeInv, LinkInv, PhaseInv
  <2>3. bits' \in [Makers -> SUBSET Bits]
    BY <1>21, <1>a DEF FinishReturn, BitMoved, Bits
  <2>4. CASE Len(stack) > 1 /\ stack[2].op = "finish"
    <3> DEFINE t == Tail(stack)
    <3>1. Len(stack) # 1
      BY <2>4
    <3>2. t \in Seq(Frames) /\ t # <<>>
      BY <1>a, <2>1, <3>1, NonemptyTail
    <3>3. stack' = Backward(t) /\ program' = program
      BY <1>21, <2>4 DEF FinishReturn
    <3>4. 1 + 1 \in Calls(stack, "finish")
      BY <1>a, <2>4 DEF Calls
    <3>5. Linked(t, "finish") /\ 1 \in Calls(t, "finish")
      <4>1. 1 \in Calls(t, "finish") <=> 1 # 0 /\ 1 + 1 \in Calls(stack, "finish")
        BY <1>a, <2>1, <2>2, PopLinked
      <4>2. QED
        BY <1>a, <2>1, <2>2, <3>4, <4>1, PopLinked
    <3>6. program = "finish" => \A i \in DOMAIN t : t[i].op = "finish"
      BY <1>a, <2>1, <2>2, ReturnOps
    <3> HIDE DEF t
    <3>7. Linked(stack', "finish") /\ 1 \in Calls(stack', "finish")
      <4>1. stack' = Moved(t, -1)
        BY <3>2, <3>3, ForwardBackward
      <4>2. Linked(Moved(t, -1), "finish") /\ Calls(Moved(t, -1), "finish") = Calls(t, "finish")
        BY <3>2, <3>5, MoveLinked
      <4>3. QED
        BY <3>5, <4>1, <4>2
    <3>8. ASSUME program = "finish"
          PROVE  \A i \in DOMAIN stack' : stack'[i].op = "finish"
      <4>1. \A i \in DOMAIN t : t[i].op = "finish"
        BY <3>6, <3>8
      <4>2. stack' = Backward(t)
        BY <3>3
      <4>3. QED
        BY <3>2, <4>1, <4>2, MoveOps
    <3>9. QED
      BY <2>1, <2>3, <3>3, <3>7, <3>8, FinishPhase
  <2>5. CASE ~ (Len(stack) > 1 /\ stack[2].op = "finish")
    BY <1>21, <2>3, <2>5, NoCallStep DEF FinishReturn
  <2>6. QED
    BY <2>4, <2>5
<1>22. CASE UNCHANGED vars
  BY <1>22 DEF vars, MakeInv, PhaseInv, LinkInv, PastLookInv, BegunInv, InMakeOf,
               Frame, More, Maker
<1>23. CASE FinishAgain
  BY <1>22, <1>23 DEF FinishAgain
<1>24. QED
  BY <1>1, <1>2, <1>3, <1>4, <1>5, <1>6, <1>7, <1>8, <1>9, <1>11, <1>12, <1>13, <1>15,
     <1>16, <1>18, <1>19, <1>20, <1>21, <1>22, <1>23 DEF Next
-----------------------------------------------------------------------------
\* kFiniEnd

\* Before Finish is called nothing is finished.
LEMMA NotFinishing ==
  ASSUME MakeInv', program' \in {"init", "loop"} \/ (stack' = <<>> /\ program' = "finish"),
         stack' \in Seq(Frames), \A m \in Makers : ~ Ended(m)'
  PROVE  FinishingInv'
<1>1. Calls(stack', "finish") = {}
  BY NoCalls, EmptyStack DEF MakeInv, PhaseInv
<1>2. \A m \in Makers : \A k \in DOMAIN Kids[m] : Kids[m][k] \in Makers
  BY KidsAreMakers
<1>3. QED
  BY <1>1, <1>2 DEF FinishingInv

\* The innermost call of Finish has finished its current maker.
LEMMA EndsCurrent ==
  ASSUME NEW s \in Seq(Frames), s # <<>>, Linked(s, "finish"), s[1].op = "finish",
         s[1].at \in DOMAIN Kids[s[1].mk], NEW c \in Makers,
         c = Kids[s[1].mk][s[1].at],
         \A i \in Calls(s, "finish") : FinishedAfter(s[i]),
         \A m \in Makers : m # c /\ (\A i \in Calls(s, "finish") : s[i].mk # m) =>
            \A k \in DOMAIN Kids[m] : Ended(Kids[m][k]) <=> Ended(m),
         \A k \in DOMAIN Kids[c] : Ended(Kids[c][k]),
         \A m \in Makers : Ended(m)' <=> Ended(m) \/ m = c,
         stack' = Moved(s, -1)
  PROVE  FinishingInv'
<1> DEFINE t == Moved(s, -1)
           p == s[1].mk
           a == s[1].at
<1>1. /\ DOMAIN t = DOMAIN s /\ 1 \in DOMAIN s
      /\ t[1].mk = p /\ t[1].at = a + (-1)
      /\ \A i \in DOMAIN s : i # 1 => t[i] = s[i]
      /\ \A i \in DOMAIN s : t[i].mk = s[i].mk
  <2>1. ASSUME NEW d \in Int
        PROVE  LET u == Moved(s, d) IN
               /\ DOMAIN u = DOMAIN s /\ 1 \in DOMAIN s
               /\ u[1].mk = p /\ u[1].at = a + d
               /\ \A i \in DOMAIN s : i # 1 => u[i] = s[i]
               /\ \A i \in DOMAIN s : u[i].mk = s[i].mk
    BY MovedStack
  <2>2. -1 \in Int
    OBVIOUS
  <2>3. QED
    BY <2>1, <2>2
<1>2. Calls(t, "finish") = Calls(s, "finish")
  BY MoveLinked
<1>3. 1 \in Calls(s, "finish") /\ \A i \in Calls(s, "finish") : s[i].mk \in Makers /\ i \in DOMAIN s
  <2>1. \A i \in DOMAIN s : s[i] \in Frames
    OBVIOUS
  <2>2. QED
    BY <1>1, <2>1 DEF Calls, Frames
<1> HIDE DEF t
<1>4. \A i \in Calls(s, "finish") : s[i].mk # c
  BY CurrentUncalled
<1>5. \A m \in Makers : m # p => \A k \in DOMAIN Kids[m] : /\ Kids[m][k] \in Makers
                                                          /\ Kids[m][k] # c
  BY <1>3, OneParent
<1>6. ASSUME NEW i \in Calls(s, "finish") PROVE FinishedAfter(t[i])'
  <2>1. FinishedAfter(s[i]) /\ s[i].mk \in Makers
    BY <1>3
  <2>2. CASE i # 1
    <3>1. t[i] = s[i] /\ s[i].mk # p
      BY <1>1, <1>3, <2>2 DEF Linked
    <3>2. QED
      BY <1>4, <1>5, <2>1, <3>1 DEF FinishedAfter
  <2>3. CASE i = 1
    <3>1. Len(Kids[p]) \in Nat /\ a \in 1 .. Len(Kids[p])
      BY <1>3, Lengths
    <3>2. t[i].at \in 0 .. Len(Kids[t[i].mk]) /\ t[i].mk = p /\ t[i].at = a - 1
      BY <1>1, <2>3, <3>1
    <3>3. ASSUME NEW k \in DOMAIN Kids[p]
          PROVE  Ended(Kids[p][k])' <=> k > a - 1
      <4>1. k \in 1 .. Len(Kids[p]) /\ Kids[p][k] \in Makers /\ (Kids[p][k] = c <=> k = a)
        BY <1>3, Lengths, OneParent
      <4>2. Ended(Kids[p][k]) <=> k > a
        BY <2>1, <2>3 DEF FinishedAfter
      <4>3. QED
        BY <3>1, <4>1, <4>2
    <3>4. ~ Ended(p)'
      BY <1>3, <1>4, <2>1, <2>3 DEF FinishedAfter
    <3>5. QED
      BY <3>2, <3>3, <3>4 DEF FinishedAfter
  <2>4. QED
    BY <2>2, <2>3
<1>7. ASSUME NEW m \in Makers, \A i \in Calls(s, "finish") : s[i].mk # m,
             NEW k \in DOMAIN Kids[m]
      PROVE  Ended(Kids[m][k])' <=> Ended(m)'
  <2>1. m # p /\ Kids[m][k] \in Makers /\ Kids[m][k] # c
    BY <1>3, <1>5, <1>7
  <2>2. QED
    BY <1>7, <2>1
<1>8. stack' = t
  BY DEF t
<1>9. \A i \in Calls(s, "finish") : t[i].mk = s[i].mk
  BY <1>1, <1>3
<1>10. QED
  BY <1>2, <1>3, <1>6, <1>7, <1>8, <1>9 DEF FinishingInv

\* Every step keeps the order of Finish.
LEMMA StepFinishingInv ==
  IInv /\ IInv' /\ MakeInv /\ MakeInv' /\ FinishingInv /\ [Next]_vars => FinishingInv'
<1> SUFFICES ASSUME IInv, IInv', MakeInv, MakeInv', FinishingInv, [Next]_vars
             PROVE  FinishingInv'
  OBVIOUS
<1> USE DEF history, counters
<1>a. /\ stack \in Seq(Frames) /\ stack' \in Seq(Frames)
      /\ bits \in [Makers -> SUBSET Bits] /\ Top \in Makers
  BY TreeAssumption DEF IInv, TypeInv, Frames, MakeInv, BegunInv
<1>b. ASSUME program \in {"init", "loop"}
      PROVE  Calls(stack, "finish") = {} /\ \A m \in Makers : ~ Ended(m)
  <2>1. Calls(stack, "finish") = {}
    BY <1>a, <1>b, NoCalls DEF MakeInv, PhaseInv
  <2>2. QED
    BY <1>b, <2>1 DEF FinishingInv
<1>1. ASSUME program \in {"init", "loop"},
             program' \in {"init", "loop"} \/ (stack' = <<>> /\ program' = "finish"),
             \A m \in Makers : Ended(m)' => Ended(m)
      PROVE  FinishingInv'
  BY <1>a, <1>b, <1>1, NotFinishing
<1>2. CASE InitMaker
  <2>1. \A m \in Makers : Ended(m)' => Ended(m)
    BY <1>2, <1>a DEF InitMaker, SetBit, Ended
  <2>2. QED
    BY <1>1, <1>2, <2>1 DEF InitMaker, InCall, Running
<1>3. CASE InitChain \/ InitReturn
  <2>1. \A m \in Makers : Ended(m)' => Ended(m)
    BY <1>3, <1>a DEF InitChain, InitReturn, SetBit, BitMoved, Ended
  <2>2. QED
    BY <1>1, <1>3, <2>1 DEF InitChain, InitReturn, InCall, Running
<1>4. CASE NewEvent \/ SkipInactive \/ InitRun \/ MakeChain \/ ReturnOK
  BY <1>1, <1>4 DEF NewEvent, SkipInactive, InitRun, MakeChain, ReturnOK, Step, InCall,
     Running, Ended
<1>5. CASE BeginMaker
  <2>1. \A m \in Makers : Ended(m)' => Ended(m)
    BY <1>5, <1>a DEF BeginMaker, SetBit, Ended
  <2>2. QED
    BY <1>1, <1>5, <2>1 DEF BeginMaker, Step, InCall, Running
<1>6. ASSUME NEW r \in Runs, ReadRun(r) PROVE FinishingInv'
  BY <1>1, <1>6 DEF ReadRun, Step, InCall, Running, Ended
<1>7. ASSUME NEW r, AfterMaker(Maker, r), InCall("make"), program' = program
      PROVE  FinishingInv'
  <2>1. \A m \in Makers : Ended(m)' => Ended(m)
    BY <1>7, <1>a DEF AfterMaker, Ended
  <2>2. QED
    BY <1>1, <1>7, <2>1 DEF InCall, Running
<1>8. ASSUME NEW r \in Codes, EndMaker(r) PROVE FinishingInv'
  BY <1>7, <1>8 DEF EndMaker, Step
<1>9. CASE EndChain
  BY <1>7, <1>9 DEF EndChain, Step
<1>10. CASE EndEvent \/ EndLoop
  BY <1>1, <1>10 DEF EndEvent, EndLoop, Ended
<1>11. ASSUME FinishTop, Calls(stack, "finish") = {}, \A m \in Makers : ~ Ended(m)
       PROVE  FinishingInv'
  <2> DEFINE f == [mk |-> Top, op |-> "finish", at |-> Len(Kids[Top])]
  <2>1. /\ stack' = <<f>> \o stack /\ f \in Frames /\ f.op = "finish" /\ f.mk = Top
        /\ f.at = Len(Kids[Top]) /\ bits' = bits
    BY <1>11, <1>a, KidsLength DEF FinishTop, Push, Frames
  <2> HIDE DEF f
  <2>2. Calls(stack', "finish") = {1} /\ stack'[1] = f
    BY <1>11, <1>a, <2>1, StartLinked, PushedStack
  <2>3. \A m \in Makers : ~ Ended(m)' /\ \A k \in DOMAIN Kids[m] : ~ Ended(Kids[m][k])'
    BY <1>11, <2>1, KidsAreMakers DEF Ended
  <2>4. FinishedAfter(f)'
    <3>1. \A k \in DOMAIN Kids[Top] : ~ (k > f.at)
      BY <1>a, <2>1, Lengths
    <3>2. f.at \in 0 .. Len(Kids[f.mk])
      BY <1>a, <2>1, Lengths
    <3>3. QED
      BY <1>a, <2>1, <2>3, <3>1, <3>2 DEF FinishedAfter
  <2>5. QED
    BY <2>2, <2>3, <2>4 DEF FinishingInv
<1>12. CASE Finish
  <2>1. Calls(stack, "finish") = {} /\ \A m \in Makers : ~ Ended(m)
    BY <1>12, EmptyStack DEF Finish, FinishingInv
  <2>2. QED
    BY <1>11, <1>12, <2>1 DEF Finish
<1>13. CASE Terminate
  BY <1>11, <1>13, <1>b DEF Terminate
<1>14. ASSUME InCall("finish")
       PROVE  /\ stack # <<>> /\ Linked(stack, "finish") /\ stack[1].op = "finish"
              /\ Frame = stack[1] /\ 1 \in Calls(stack, "finish")
              /\ stack[1].mk \in Makers /\ FinishedAfter(stack[1])
              /\ \A i \in Calls(stack, "finish") : FinishedAfter(stack[i])
              /\ \A m \in Makers : (\A i \in Calls(stack, "finish") : stack[i].mk # m) =>
                    \A k \in DOMAIN Kids[m] : Ended(Kids[m][k]) <=> Ended(m)
  <2>1. stack # <<>> /\ Frame.op = "finish"
    BY <1>14 DEF InCall
  <2>2. Frame = stack[1] /\ 1 \in DOMAIN stack /\ stack[1] \in Frames
    BY <1>a, <2>1 DEF Frame
  <2>3. 1 \in Calls(stack, "finish") /\ stack[1].mk \in Makers
    BY <2>1, <2>2 DEF Calls, Frames
  <2>4. QED
    BY <2>1, <2>2, <2>3 DEF MakeInv, LinkInv, FinishingInv
<1>15. CASE FinishMaker
  <2>1. InCall("finish") /\ More /\ ~ Ended(Maker)
    BY <1>15 DEF FinishMaker, Ended
  <2>2. /\ Maker \in Makers /\ stack[1].at \in DOMAIN Kids[stack[1].mk]
        /\ Maker = Kids[stack[1].mk][stack[1].at]
    BY <1>a, <1>14, <2>1, MakerType DEF More, Maker
  <2>3. \A i \in Calls(stack, "finish") : stack[i].mk # Maker
    BY <1>a, <1>14, <2>1, <2>2, CurrentUncalled
  <2>4. CASE IsChain(Maker)
    <3>1. PICK f \in Frames : /\ stack' = <<f>> \o stack
                             /\ f.mk = Maker /\ f.op = "finish" /\ f.at = Len(Kids[Maker])
      <4> DEFINE g == [mk |-> Maker, op |-> "finish", at |-> Len(Kids[Maker])]
      <4>1. /\ g \in Frames
            /\ g.mk = Maker /\ g.op = "finish" /\ g.at = Len(Kids[Maker])
        BY <2>2, KidsLength DEF Frames
      <4>2. stack' = <<g>> \o stack
        BY <1>15, <2>4 DEF FinishMaker, Push
      <4> HIDE DEF g
      <4>3. QED
        BY <4>1, <4>2
    <3>2. \A m \in Makers : Ended(m)' <=> Ended(m)
      BY <1>15, <1>a, <2>4 DEF FinishMaker, SetBit, Ended
    <3>3. /\ 1 \in Calls(stack', "finish") /\ stack'[1] = f
          /\ \A i \in Calls(stack', "finish") : i # 1 =>
                i - 1 \in Calls(stack, "finish") /\ stack'[i] = stack[i - 1]
          /\ \A i \in Calls(stack, "finish") :
                i + 1 \in Calls(stack', "finish") /\ stack'[i + 1] = stack[i]
      BY <1>a, <3>1, PushedStack DEF Calls
    <3>4. \A m \in Makers : \A k \in DOMAIN Kids[m] : Kids[m][k] \in Makers
      BY KidsAreMakers
    <3>5. FinishedAfter(f)'
      <4>1. \A k \in DOMAIN Kids[Maker] : ~ Ended(Kids[Maker][k]) /\ ~ (k > f.at)
        BY <1>14, <2>1, <2>2, <2>3, <3>1, Lengths
      <4>2. f.at \in 0 .. Len(Kids[f.mk])
        BY <2>2, <3>1, Lengths
      <4>3. QED
        BY <2>1, <2>2, <3>1, <3>2, <3>4, <4>1, <4>2 DEF FinishedAfter
    <3>6. ASSUME NEW g \in Frames, FinishedAfter(g) PROVE FinishedAfter(g)'
      <4>1. g.mk \in Makers
        BY DEF Frames
      <4>2. QED
        BY <3>2, <3>4, <3>6, <4>1 DEF FinishedAfter
    <3>7. ASSUME NEW i \in Calls(stack', "finish") PROVE FinishedAfter(stack[i])'
      <4>1. CASE i = 1
        BY <3>3, <3>5, <4>1
      <4>2. CASE i # 1
        <5>1. i - 1 \in Calls(stack, "finish") /\ stack'[i] = stack[i - 1]
          BY <3>3, <3>7, <4>2
        <5>2. FinishedAfter(stack[i - 1]) /\ stack[i - 1] \in Frames
          BY <1>a, <1>14, <2>1, <5>1 DEF Calls
        <5>3. PICK g \in Frames : g = stack[i - 1]
          BY <5>2
        <5>4. FinishedAfter(g)'
          BY <3>6, <5>2, <5>3
        <5>5. QED
          BY <5>1, <5>3, <5>4
      <4>3. QED
        BY <4>1, <4>2
    <3>8. ASSUME NEW m \in Makers, \A i \in Calls(stack', "finish") : stack'[i].mk # m,
                 NEW k \in DOMAIN Kids[m]
          PROVE  Ended(Kids[m][k])' <=> Ended(m)'
      <4>1. \A i \in Calls(stack, "finish") : stack[i].mk # m
        BY <3>3, <3>8
      <4>2. QED
        BY <1>14, <2>1, <3>2, <3>4, <3>8, <4>1
    <3>9. Calls(stack', "finish") # {}
      BY <3>3
    <3>10. \A m \in Makers : (\A i \in Calls(stack', "finish") : stack'[i].mk # m) =>
              \A k \in DOMAIN Kids[m] : Ended(Kids[m][k])' <=> Ended(m)'
      BY <3>8
    <3>11. QED
      BY <3>7, <3>9, <3>10 DEF FinishingInv
  <2>5. CASE ~ IsChain(Maker)
    <3>1. PICK c \in Makers : c = Maker
      BY <2>2
    <3>2. \A k \in DOMAIN Kids[c] : Ended(Kids[c][k])
      BY <2>5, <3>1, EmptyStack DEF IsChain, Chains
    <3>3. \A m \in Makers : Ended(m)' <=> Ended(m) \/ m = c
      BY <1>15, <1>a, <2>5, <3>1 DEF FinishMaker, SetBit, Ended
    <3>4. stack' = Moved(stack, -1)
      <4>1. stack' = Backward(stack)
        BY <1>15, <2>5 DEF FinishMaker
      <4>2. QED
        BY <1>a, <1>14, <2>1, <4>1, ForwardBackward
    <3>5. \A m \in Makers : m # c /\ (\A i \in Calls(stack, "finish") : stack[i].mk # m) =>
             \A k \in DOMAIN Kids[m] : Ended(Kids[m][k]) <=> Ended(m)
      BY <1>14, <2>1
    <3>6. /\ stack \in Seq(Frames) /\ stack # <<>> /\ Linked(stack, "finish")
          /\ stack[1].op = "finish" /\ stack[1].at \in DOMAIN Kids[stack[1].mk]
          /\ c = Kids[stack[1].mk][stack[1].at]
          /\ \A i \in Calls(stack, "finish") : FinishedAfter(stack[i])
      BY <1>a, <1>14, <2>1, <2>2, <3>1
    <3>7. QED
      BY <3>2, <3>3, <3>4, <3>5, <3>6, EndsCurrent
  <2>6. QED
    BY <2>4, <2>5
<1>16. CASE FinishReturn
  <2> DEFINE p == stack[1].mk
  <2>1. InCall("finish") /\ ~ More
    BY <1>16 DEF FinishReturn, FinishDone
  <2>2. p \in Makers /\ \A k \in DOMAIN Kids[p] : Ended(Kids[p][k])
    <3>1. /\ stack[1].at \notin DOMAIN Kids[p] /\ stack[1].at \in 0 .. Len(Kids[p])
          /\ p \in Makers
      BY <1>14, <2>1 DEF More, FinishedAfter
    <3>2. \A k \in DOMAIN Kids[p] : k > stack[1].at
      BY <3>1, Lengths
    <3>3. QED
      BY <1>14, <2>1, <3>1, <3>2 DEF FinishedAfter
  <2>3. \A m \in Makers : Ended(m)' <=> Ended(m) \/ m = p
    BY <1>16, <1>a, <1>14, <2>1 DEF FinishReturn, BitMoved, Ended
  <2>4. CASE Len(stack) > 1 /\ stack[2].op = "finish"
    <3> DEFINE t == Tail(stack)
    <3>1. Len(stack) # 1
      BY <2>4
    <3>2. t \in Seq(Frames) /\ t # <<>>
      BY <1>a, <1>14, <2>1, <3>1, NonemptyTail
    <3>3. stack' = Backward(t)
      BY <1>16, <2>4 DEF FinishReturn
    <3>4. /\ Linked(t, "finish")
          /\ \A i \in Nat : i \in Calls(t, "finish") <=> i # 0 /\ i + 1 \in Calls(stack, "finish")
      BY <1>a, <1>14, <2>1, PopLinked
    <3>5. \A i \in Calls(t, "finish") : i \in Nat /\ i # 0 /\ t[i] = stack[i + 1]
      <4>1. DOMAIN t \subseteq Nat /\ 0 \notin DOMAIN t
        BY <3>2
      <4>2. QED
        BY <1>a, <1>14, <2>1, <4>1, PoppedStack DEF Calls
    <3>6. t[1] = stack[2] /\ 2 \in Calls(stack, "finish")
      BY <1>a, <2>4 DEF Calls
    <3> HIDE DEF t
    <3>7. stack' = Moved(t, -1)
      BY <3>2, <3>3, ForwardBackward
    <3>8. t[1].op = "finish" /\ t[1].at \in DOMAIN Kids[t[1].mk] /\ p = Kids[t[1].mk][t[1].at]
      <4>1. 1 + 1 = 2
        OBVIOUS
      <4>2. /\ stack[2].at \in DOMAIN Kids[stack[2].mk]
            /\ stack[1].mk = Kids[stack[2].mk][stack[2].at]
        BY <1>14, <2>1, <3>6, <4>1 DEF Linked
      <4>3. QED
        BY <2>4, <3>6, <4>2
    <3>9. ASSUME NEW m \in Makers, m # p, \A i \in Calls(t, "finish") : t[i].mk # m
          PROVE  \A k \in DOMAIN Kids[m] : Ended(Kids[m][k]) <=> Ended(m)
      <4>1. ASSUME NEW i \in Calls(stack, "finish") PROVE stack[i].mk # m
        <5>1. CASE i = 1
          BY <3>9, <5>1
        <5>2. CASE i # 1
          <6>1. i \in Nat /\ i # 0
            BY <1>a, <4>1 DEF Calls
          <6>2. i - 1 \in Nat /\ i - 1 # 0 /\ (i - 1) + 1 = i
            BY <5>2, <6>1
          <6>3. i - 1 \in Calls(t, "finish")
            BY <3>4, <4>1, <6>2
          <6>4. QED
            BY <3>5, <3>9, <6>2, <6>3
        <5>3. QED
          BY <5>1, <5>2
      <4>2. QED
        BY <1>14, <2>1, <4>1
    <3>10. \A i \in Calls(t, "finish") : FinishedAfter(t[i])
      BY <1>14, <2>1, <3>4, <3>5
    <3>11. QED
      BY <2>2, <2>3, <3>2, <3>4, <3>7, <3>8, <3>9, <3>10, EndsCurrent
  <2>5. CASE ~ (Len(stack) > 1 /\ stack[2].op = "finish")
    <3>1. stack' = <<>> /\ program' \in {"finished", "exited"}
      BY <1>16, <2>5 DEF FinishReturn
    <3>2. Calls(stack', "finish") = {}
      BY <3>1, EmptyStack
    <3>3. 2 \notin Calls(stack, "finish")
      BY <1>a, <2>5 DEF Calls
    <3>4. \A i \in Calls(stack, "finish") : i = 1
      <4>1. \A i \in Calls(stack, "finish") : i \in Nat /\ i # 0
        BY <1>a DEF Calls
      <4>2. \A i \in Calls(stack, "finish") : i # 1 => 2 \in 1 .. i
        BY <4>1
      <4>3. QED
        BY <1>14, <2>1, <3>3, <4>2 DEF Linked
    <3>5. p = Top
      <4>1. 1 + 1 = 2
        OBVIOUS
      <4>2. QED
        BY <1>14, <2>1, <3>3, <4>1 DEF Linked
    <3>6. ASSUME NEW m \in Makers, NEW k \in DOMAIN Kids[m]
          PROVE  Ended(Kids[m][k])' <=> Ended(m)'
      <4>1. Kids[m][k] \in Makers /\ Kids[m][k] # Top
        BY OneParent
      <4>2. CASE m = Top
        BY <2>2, <2>3, <3>5, <4>1, <4>2
      <4>3. CASE m # Top
        BY <1>14, <2>1, <2>3, <3>4, <3>5, <4>1, <4>3
      <4>4. QED
        BY <4>2, <4>3
    <3>7. QED
      BY <3>1, <3>2, <3>6 DEF FinishingInv
  <2>6. QED
    BY <2>4, <2>5
<1>17. CASE UNCHANGED vars
  BY <1>17 DEF vars, FinishingInv, FinishedAfter, Ended
<1>18. CASE FinishAgain
  BY <1>17, <1>18 DEF FinishAgain
<1>19. QED
  BY <1>2, <1>3, <1>4, <1>5, <1>6, <1>8, <1>9, <1>10, <1>12, <1>13, <1>15, <1>16,
     <1>17, <1>18 DEF Next
-----------------------------------------------------------------------------
\* Types and counts

\* The types of what the argument so far leaves aside.
OtherTypes ==
  /\ \A i \in DOMAIN stack : stack[i].at \in Nat
  /\ program \in {"init", "loop", "finish", "finished", "terminated", "exited"}
  /\ step \in {"look", "initrun", "make", "read", "back"}
  /\ ret \in Codes \cup {kStOK, kStErr}
  /\ unmatched \subseteq Makers /\ made \subseteq Makers
  /\ left \subseteq Chains /\ halted \in BOOLEAN

CallsInv == IInv /\ MakeInv /\ FinishingInv /\ CountInv /\ OtherTypes

LEMMA InitCallsInv == Init => CallsInv
<1> SUFFICES ASSUME Init PROVE CallsInv
  OBVIOUS
<1> DEFINE f == [mk |-> Top, op |-> "init", at |-> 1]
<1>1. IInv
  BY InitIInv
<1>2. /\ stack \in Seq(Frames) /\ stack = <<f>> /\ Top \in Makers
      /\ DOMAIN stack = {1} /\ stack[1].op = "init" /\ stack[1].at = 1
      /\ program = "init" /\ bits = [m \in Makers |-> {}]
  BY <1>1, TreeAssumption DEF Init, IInv, TypeInv, Frames
<1>3. /\ \A op \in {"make", "finish"} : Calls(stack, op) = {} /\ Linked(stack, op)
  BY <1>2, NoCalls
<1>4. MakeInv
  BY <1>2, <1>3 DEF MakeInv, PhaseInv, LinkInv, PastLookInv, BegunInv
<1>5. FinishingInv
  BY <1>2, <1>3, KidsAreMakers DEF FinishingInv, Ended
<1>6. CountInv
  BY ParametersAssumption DEF Init, CountInv
<1>7. OtherTypes
  <2>1. \A i \in DOMAIN stack : stack[i].at \in Nat
    BY <1>2
  <2>2. /\ step = "look" /\ ret = kStOK /\ unmatched = {} /\ made = {}
        /\ left = {} /\ halted = FALSE
    BY DEF Init
  <2>3. QED
    BY <1>2, <2>1, <2>2 DEF OtherTypes
<1>8. QED
  BY <1>1, <1>4, <1>5, <1>6, <1>7 DEF CallsInv

LEMMA StepCountInv == IInv /\ CountInv /\ OtherTypes /\ [Next]_vars => CountInv'
<1> SUFFICES ASSUME IInv, CountInv, OtherTypes, [Next]_vars PROVE CountInv'
  OBVIOUS
<1> USE DEF history, counters
<1>1. ASSUME UNCHANGED counters,
             program' = "loop" /\ (stack' # <<>> \/ step' = "back") =>
                program = "loop" /\ (stack # <<>> \/ step = "back")
      PROVE  CountInv'
  BY <1>1 DEF CountInv
<1>2. CASE InitMaker \/ InitChain \/ InitReturn
  BY <1>1, <1>2 DEF InitMaker, InitChain, InitReturn, InCall, Running, IInv, FreshInv
<1>3. CASE NewEvent
  BY <1>3 DEF NewEvent, CountInv, MoreEvents
<1>4. CASE SkipInactive \/ BeginMaker \/ InitRun \/ MakeChain \/ ReturnOK
  BY <1>1, <1>4 DEF SkipInactive, BeginMaker, InitRun, MakeChain, ReturnOK, Step,
     InCall, Running
<1>5. ASSUME NEW r \in Runs, ReadRun(r) PROVE CountInv'
  BY <1>1, <1>5 DEF ReadRun, Step, InCall, Running
<1>6. ASSUME NEW r \in Codes, EndMaker(r) PROVE CountInv'
  BY <1>1, <1>6 DEF EndMaker, Step, InCall, Running
<1>7. CASE EndChain
  BY <1>1, <1>7 DEF EndChain, Step, InCall, Running
<1>8. CASE EndEvent
  <2>1. /\ event \in 1 .. Last /\ nTotal = event - 1 /\ nFailed \in 0 .. nTotal
        /\ Last \in Nat
    BY <1>8, ParametersAssumption DEF EndEvent, CountInv
  <2>2. nFailed' = nFailed + 1 \/ nFailed' = nFailed
    BY <1>8, <2>1 DEF EndEvent
  <2>3. CASE ret % 10 \in {kStEOF, kStFatal}
    <3>1. ret # kStErr
      BY <2>3
    <3>2. nFailed' = nFailed /\ UNCHANGED <<event, nTotal>> /\ program' = "finish"
      BY <1>8, <2>1, <2>3, <3>1 DEF EndEvent
    <3>3. QED
      BY <2>1, <3>2 DEF CountInv
  <2>4. CASE ret % 10 \notin {kStEOF, kStFatal}
    <3>1. nTotal' = nTotal + 1 /\ event' = event + 1 /\ stack' = <<>> /\ step' = "look"
      BY <1>8, <2>4 DEF EndEvent
    <3>2. QED
      BY <2>1, <2>2, <3>1 DEF CountInv
  <2>5. QED
    BY <2>3, <2>4
<1>9. CASE EndLoop
  BY <1>1, <1>9 DEF EndLoop
<1>10. CASE Finish \/ Terminate
  BY <1>1, <1>10 DEF Finish, Terminate, FinishTop
<1>11. CASE FinishMaker
  BY <1>1, <1>11 DEF FinishMaker, InCall, Running
<1>12. CASE FinishReturn
  BY <1>1, <1>12 DEF FinishReturn, InCall, Running
<1>13. CASE FinishAgain \/ UNCHANGED vars
  BY <1>1, <1>13 DEF FinishAgain, vars
<1>14. QED
  BY <1>2, <1>3, <1>4, <1>5, <1>6, <1>7, <1>8, <1>9, <1>10, <1>11, <1>12, <1>13 DEF Next

\* Positions in the list of makers stay natural numbers.
AllNat(s) == \A i \in DOMAIN s : s[i].at \in Nat

LEMMA PopNat ==
  ASSUME NEW s \in Seq(Frames), s # <<>>, AllNat(s)
  PROVE  AllNat(Tail(s))
<1>1. \A i \in DOMAIN Tail(s) : i + 1 \in DOMAIN s /\ Tail(s)[i] = s[i + 1]
  BY PoppedStack
<1>2. QED
  BY <1>1 DEF AllNat

LEMMA PushNat ==
  ASSUME NEW s \in Seq(Frames), AllNat(s), NEW m \in Makers,
         NEW op \in {"init", "make", "finish"}, NEW a \in Nat
  PROVE  AllNat(<<[mk |-> m, op |-> op, at |-> a]>> \o s)
<1> DEFINE f == [mk |-> m, op |-> op, at |-> a]
<1>1. f \in Frames /\ f.at \in Nat
  BY DEF Frames
<1> HIDE DEF f
<1>2. AllNat(<<f>> \o s)
  BY <1>1, PushedStack DEF AllNat
<1>3. QED
  BY <1>2 DEF f

LEMMA MoveNat ==
  ASSUME NEW s \in Seq(Frames), s # <<>>, AllNat(s)
  PROVE  AllNat(Forward(s)) /\ (s[1].at # 0 => AllNat(Backward(s)))
<1>1. 1 \in DOMAIN s /\ s[1].at \in Nat
  BY DEF AllNat
<1>2. ASSUME NEW d \in Int, s[1].at + d \in Nat PROVE AllNat(Moved(s, d))
  <2> DEFINE t == Moved(s, d)
  <2>1. /\ DOMAIN t = DOMAIN s /\ t[1].at = s[1].at + d
        /\ \A i \in DOMAIN s : i # 1 => t[i] = s[i]
    BY MovedStack
  <2> HIDE DEF t
  <2>2. AllNat(t)
    BY <1>2, <2>1 DEF AllNat
  <2>3. QED
    BY <2>2 DEF t
<1>3. 1 \in Int /\ -1 \in Int /\ s[1].at + 1 \in Nat /\ (s[1].at # 0 => s[1].at + (-1) \in Nat)
  BY <1>1
<1>4. QED
  BY <1>2, <1>3, ForwardBackward

LEMMA StepOtherTypes ==
  IInv /\ IInv' /\ MakeInv /\ FinishingInv /\ OtherTypes /\ [Next]_vars => OtherTypes'
<1> SUFFICES ASSUME IInv, IInv', MakeInv, FinishingInv, OtherTypes, [Next]_vars
             PROVE  OtherTypes'
  OBVIOUS
<1> USE DEF history, counters
<1>a. stack \in Seq(Frames) /\ Top \in Makers /\ AllNat(stack)
  BY TreeAssumption DEF IInv, TypeInv, Frames, OtherTypes, AllNat
<1>b. AllNat(<<>>)
  BY EmptyStack DEF AllNat
<1>c. ASSUME AllNat(stack'),
             program' \in {"init", "loop", "finish", "finished", "terminated", "exited"},
             step' \in {"look", "initrun", "make", "read", "back"},
             ret' \in Codes \cup {kStOK, kStErr},
             unmatched' \subseteq Makers, made' \subseteq Makers,
             left' \subseteq Chains, halted' \in BOOLEAN
      PROVE  OtherTypes'
  BY <1>c DEF OtherTypes, AllNat
<1>1. CASE InitMaker
  <2>1. AllNat(stack')
    BY <1>1, <1>a, <1>b, MoveNat DEF InitMaker, InCall
  <2>2. QED
    BY <1>1, <1>c, <2>1 DEF InitMaker, OtherTypes
<1>2. CASE InitChain
  <2>1. AllNat(stack')
    BY <1>2, <1>a, MakerType, PushNat DEF InitChain, InCall, Push
  <2>2. QED
    BY <1>2, <1>c, <2>1 DEF InitChain, OtherTypes
<1>3. CASE InitReturn
  <2>1. AllNat(stack')
    <3>1. stack # <<>> /\ (Len(stack) # 1 => Tail(stack) \in Seq(Frames) /\ Tail(stack) # <<>>)
      BY <1>3, <1>a, NonemptyTail DEF InitReturn, InCall
    <3>2. AllNat(Tail(stack))
      BY <1>a, <3>1, PopNat
    <3>3. Len(stack) # 1 => AllNat(Forward(Tail(stack)))
      BY <3>1, <3>2, MoveNat
    <3>4. QED
      BY <1>3, <1>b, <3>3 DEF InitReturn
  <2>2. QED
    BY <1>3, <1>c, <2>1 DEF InitReturn, OtherTypes
<1>4. CASE NewEvent
  <2>1. AllNat(stack')
    BY <1>4, <1>a, PushNat DEF NewEvent, Push
  <2>2. QED
    BY <1>4, <1>c, <2>1 DEF NewEvent, OtherTypes
<1>5. CASE SkipInactive
  <2>1. AllNat(stack')
    BY <1>5, <1>a, MoveNat DEF SkipInactive, Step, InCall
  <2>2. QED
    BY <1>5, <1>c, <2>1 DEF SkipInactive, OtherTypes
<1>6. CASE BeginMaker
  <2>1. Maker \in Makers
    BY <1>6, <1>a, MakerType DEF BeginMaker, Step, InCall
  <2>2. unmatched' \subseteq Makers
    BY <1>6, <2>1 DEF BeginMaker, FinishRun, OtherTypes
  <2>3. QED
    BY <1>6, <1>a, <1>c, <2>2 DEF BeginMaker, LooksAtRun, OtherTypes
<1>7. CASE InitRun
  BY <1>7, <1>a, <1>c DEF InitRun, OtherTypes
<1>8. ASSUME Step("make") PROVE Maker \in Makers
  BY <1>8, <1>a, MakerType DEF Step, InCall, Running, IInv, AtMakerInv
<1>9. CASE MakeChain
  <2>1. Maker \in Makers
    BY <1>8, <1>9 DEF MakeChain
  <2>2. AllNat(stack')
    BY <1>9, <1>a, <2>1, PushNat DEF MakeChain, Push
  <2>3. QED
    BY <1>9, <1>c, <2>1, <2>2 DEF MakeChain, Made, OtherTypes
<1>10. ASSUME NEW r \in Runs, ReadRun(r) PROVE OtherTypes'
  <2>1. Maker \in Makers
    BY <1>8, <1>10 DEF ReadRun
  <2>2. QED
    BY <1>10, <1>a, <1>c, <2>1 DEF ReadRun, OtherTypes
<1>11. ASSUME NEW r \in Codes \cup {kStOK, kStErr}, AfterMaker(Maker, r), InCall("make"),
              step # "look"
       PROVE  /\ AllNat(stack') /\ step' \in {"look", "back"}
              /\ ret' \in Codes \cup {kStOK, kStErr} /\ left' \subseteq Chains
  <2>1. program = "loop" /\ stack # <<>> /\ More
    BY <1>11 DEF MakeInv, PastLookInv, InCall, Running
  <2>2. Frame.mk \in Chains
    <3>1. Frame \in Frames /\ Frame.at \in DOMAIN Kids[Frame.mk]
      BY <1>a, <2>1 DEF Frame, More
    <3>2. Kids[Frame.mk] # <<>>
      BY <3>1, EmptyStack
    <3>3. QED
      BY <3>1, <3>2 DEF Frames, Chains
  <2>3. left' \subseteq Chains
    BY <1>11, <2>2 DEF AfterMaker, Left, OtherTypes
  <2>4. AllNat(stack')
    BY <1>11, <1>a, <2>1, MoveNat, PopNat DEF AfterMaker, Returned
  <2>5. QED
    BY <1>11, <2>3, <2>4 DEF AfterMaker, Returned, OtherTypes
<1>12. ASSUME NEW r \in Codes, EndMaker(r) PROVE OtherTypes'
  <2>1. /\ AllNat(stack') /\ step' \in {"look", "back"}
        /\ ret' \in Codes \cup {kStOK, kStErr} /\ left' \subseteq Chains
    BY <1>11, <1>12 DEF EndMaker, Step
  <2>2. made' \subseteq Makers
    BY <1>8, <1>12 DEF EndMaker, Made, Step, OtherTypes
  <2>3. halted' \in BOOLEAN
    BY <1>12 DEF EndMaker, OtherTypes
  <2>4. QED
    BY <1>12, <1>c, <2>1, <2>2, <2>3 DEF EndMaker, OtherTypes
<1>13. CASE EndChain
  <2>1. /\ AllNat(stack') /\ step' \in {"look", "back"}
        /\ ret' \in Codes \cup {kStOK, kStErr} /\ left' \subseteq Chains
    BY <1>11, <1>13 DEF EndChain, Step, OtherTypes
  <2>2. QED
    BY <1>13, <1>c, <2>1 DEF EndChain, OtherTypes
<1>14. CASE ReturnOK
  <2>1. AllNat(stack')
    BY <1>14, <1>a, PopNat DEF ReturnOK, Returned, Step, InCall
  <2>2. QED
    BY <1>14, <1>c, <2>1 DEF ReturnOK, Returned, OtherTypes
<1>15. CASE EndEvent \/ EndLoop
  BY <1>15, <1>a, <1>c DEF EndEvent, EndLoop, OtherTypes
<1>16. ASSUME NEW m \in Makers, FinishesRun(m) PROVE unmatched' \subseteq Makers
  BY <1>16 DEF FinishesRun, FinishRun, OtherTypes
<1>17. CASE Finish \/ Terminate
  <2>1. FinishTop /\ program' \in {"finish", "terminated"}
    BY <1>17 DEF Finish, Terminate
  <2>2. AllNat(stack')
    BY <1>a, <2>1, KidsLength, PushNat DEF FinishTop, Push
  <2>3. unmatched' \subseteq Makers
    BY <1>a, <1>16, <2>1 DEF FinishTop
  <2>4. QED
    BY <1>c, <2>1, <2>2, <2>3 DEF FinishTop, OtherTypes
<1>18. CASE FinishMaker
  <2>1. stack # <<>> /\ More /\ Maker \in Makers
    BY <1>18, <1>a, MakerType DEF FinishMaker, InCall
  <2>2. stack[1].at # 0
    <3>1. Frame = stack[1] /\ Frame \in Frames
      BY <1>a, <2>1 DEF Frame
    <3>2. Frame.at \in 1 .. Len(Kids[Frame.mk])
      BY <2>1, <3>1, Lengths DEF More, Frames
    <3>3. QED
      BY <3>1, <3>2
  <2>3. AllNat(stack')
    BY <1>18, <1>a, <2>1, <2>2, KidsLength, MoveNat, PushNat DEF FinishMaker, Push
  <2>4. unmatched' \subseteq Makers
    BY <1>16, <1>18, <2>1 DEF FinishMaker
  <2>5. QED
    BY <1>18, <1>c, <2>3, <2>4 DEF FinishMaker, OtherTypes
<1>19. CASE FinishReturn
  <2>1. stack # <<>> /\ Frame.op = "finish"
    BY <1>19 DEF FinishReturn, InCall
  <2>2. AllNat(stack')
    <3>1. CASE Len(stack) > 1 /\ stack[2].op = "finish"
      <4> DEFINE t == Tail(stack)
      <4>1. Len(stack) # 1
        BY <3>1
      <4>2. t \in Seq(Frames) /\ t # <<>> /\ AllNat(t)
        BY <1>a, <2>1, <4>1, NonemptyTail, PopNat
      <4>3. /\ 1 \in Calls(stack, "finish") /\ 1 + 1 \in Calls(stack, "finish")
            /\ t[1] = stack[1 + 1] /\ stack[1 + 1] \in Frames
        BY <1>a, <2>1, <3>1 DEF Calls, Frame
      <4>4. t[1].at \in DOMAIN Kids[t[1].mk] /\ t[1].mk \in Makers
        BY <4>3 DEF MakeInv, LinkInv, Linked, Frames
      <4>5. t[1].at # 0
        <5>1. Len(Kids[t[1].mk]) \in Nat /\ t[1].at \in 1 .. Len(Kids[t[1].mk])
          BY <4>4, Lengths
        <5>2. ASSUME NEW a, NEW n \in Nat, a \in 1 .. n PROVE a # 0
          BY <5>2
        <5>3. QED
          BY <5>1, <5>2
      <4>6. stack' = Backward(t)
        BY <1>19, <3>1 DEF FinishReturn
      <4> HIDE DEF t
      <4>7. QED
        BY <4>2, <4>5, <4>6, MoveNat
    <3>2. CASE ~ (Len(stack) > 1 /\ stack[2].op = "finish")
      BY <1>19, <1>b, <3>2 DEF FinishReturn
    <3>3. QED
      BY <3>1, <3>2
  <2>3. program' \in {program, "exited", "finished"}
    BY <1>19 DEF FinishReturn
  <2>4. QED
    BY <1>19, <1>c, <2>2, <2>3 DEF FinishReturn, OtherTypes
<1>20. CASE UNCHANGED vars
  BY <1>20 DEF vars, OtherTypes
<1>21. CASE FinishAgain
  BY <1>20, <1>21 DEF FinishAgain
<1>22. QED
  BY <1>1, <1>2, <1>3, <1>4, <1>5, <1>6, <1>7, <1>9, <1>10, <1>12, <1>13, <1>14,
     <1>15, <1>17, <1>18, <1>19, <1>20, <1>21 DEF Next

\* The whole invariant holds in every reachable state.
LEMMA CallsInvariance == Spec => []CallsInv
<1>1. CallsInv /\ [Next]_vars => CallsInv'
  BY StepIInv, StepMakeInv, StepFinishingInv, StepCountInv, StepOtherTypes DEF CallsInv
<1>2. QED
  BY <1>1, InitCallsInv, PTL DEF Spec

\* The type invariant, for any tree of makers.
THEOREM TypeCorrect == Spec => []TypeOK
<1>1. CallsInv => TypeOK
  <2> SUFFICES ASSUME CallsInv PROVE TypeOK
    OBVIOUS
  <2>1. stack \in Seq(Frames) /\ \A i \in DOMAIN stack : stack[i].at \in Nat
    BY DEF CallsInv, IInv, TypeInv, Frames, OtherTypes
  <2>2. stack \in Seq([mk : Makers, op : {"init", "make", "finish"}, at : Nat])
    <3> DEFINE NatFrames == [mk : Makers, op : {"init", "make", "finish"}, at : Nat]
    <3>1. \A f \in Frames : f.at \in Nat => f \in NatFrames
      BY DEF Frames
    <3>2. \A i \in 1 .. Len(stack) : stack[i] \in Frames /\ stack[i].at \in Nat
      BY <2>1
    <3>3. \A i \in 1 .. Len(stack) : stack[i] \in NatFrames
      BY <3>1, <3>2
    <3> HIDE DEF NatFrames
    <3>4. stack \in Seq(NatFrames)
      BY <2>1, <3>3
    <3>5. QED
      BY <3>4 DEF NatFrames
  <2>3. event \in 1 .. Last + 1 /\ nTotal \in 0 .. Last /\ nFailed \in 0 .. Last
    BY ParametersAssumption DEF CallsInv, CountInv
  <2>4. bits \in [Makers -> SUBSET Bits]
    BY DEF CallsInv, MakeInv, BegunInv
  <2>5. QED
    BY <2>2, <2>3, <2>4 DEF CallsInv, IInv, TypeInv, OtherTypes, TypeOK
<1>2. QED
  BY <1>1, CallsInvariance, PTL

\* A maker has kMakeBeg exactly while its Make is under way, whatever the tree,
\* the return codes and the way out of each call: StMaker::Make never finds the
\* bit of a maker it is about to call.
THEOREM BitsMatchHolds == Spec => []BitsMatchCalls
<1>1. CallsInv => BitsMatchCalls
  <2> SUFFICES ASSUME CallsInv, program = "loop"
               PROVE  {m \in Makers : "MakeBeg" \in bits[m]} = UnderWay
    BY DEF BitsMatchCalls
  <2>1. /\ stack \in Seq(Frames) /\ Linked(stack, "make")
        /\ \A i \in DOMAIN stack : stack[i].op = "make" /\ stack[i] \in Frames /\ i \in Nat /\ i # 0
        /\ \A m \in Makers : "MakeBeg" \in bits[m] <=> InMakeOf(m)
    <3>1. stack \in Seq(Frames)
      BY DEF CallsInv, IInv, TypeInv, Frames
    <3>2. \A i \in DOMAIN stack : stack[i] \in Frames /\ i \in Nat /\ i # 0
      BY <3>1
    <3>3. QED
      BY <3>1, <3>2 DEF CallsInv, MakeInv, PhaseInv, LinkInv, BegunInv
  <2>2. \A i \in DOMAIN stack : i # 1 => i - 1 \in DOMAIN stack /\ (i - 1) + 1 = i
    BY <2>1
  <2>3. ASSUME NEW i \in DOMAIN stack, i # 1
        PROVE  /\ stack[i].at \in DOMAIN Kids[stack[i].mk]
               /\ stack[i - 1].mk = Kids[stack[i].mk][stack[i].at]
    <3>1. i - 1 \in Calls(stack, "make") /\ (i - 1) + 1 \in Calls(stack, "make") /\ (i - 1) + 1 = i
      BY <2>1, <2>2, <2>3 DEF Calls
    <3>2. QED
      BY <2>1, <3>1 DEF Linked
  <2>4. stack # <<>> /\ step # "look" =>
           /\ 1 \in DOMAIN stack /\ Maker = Kids[stack[1].mk][stack[1].at] /\ Maker \in Makers
    <3>1. stack # <<>> => 1 \in DOMAIN stack /\ Frame = stack[1]
      BY <2>1 DEF Frame
    <3>2. QED
      BY <2>1, <3>1, MakerType DEF CallsInv, MakeInv, PastLookInv, Maker
  <2>5. \A i \in DOMAIN stack : InMake(i) <=> i # 1 \/ step # "look"
    <3>1. \A i \in DOMAIN stack : i > 1 <=> i # 1
      BY <2>1
    <3>2. QED
      BY <2>1, <2>2, <3>1 DEF InMake
  <2>6. ASSUME NEW m \in Makers, InMakeOf(m) PROVE m \in UnderWay
    <3>1. CASE Nested(stack, m)
      <4>1. PICK i \in DOMAIN stack : i + 1 \in DOMAIN stack /\ stack[i].mk = m
        BY <3>1 DEF Nested
      <4>2. i + 1 # 1 /\ (i + 1) - 1 = i
        BY <2>1, <4>1
      <4>3. InMake(i + 1) /\ m = Kids[stack[i + 1].mk][stack[i + 1].at]
        BY <2>3, <2>5, <4>1, <4>2
      <4>4. QED
        BY <4>1, <4>3 DEF UnderWay
    <3>2. CASE ~ Nested(stack, m)
      <4>1. 1 \in DOMAIN stack /\ m = Kids[stack[1].mk][stack[1].at] /\ step # "look"
        BY <2>4, <2>6, <3>2 DEF InMakeOf
      <4>2. QED
        BY <2>5, <4>1 DEF UnderWay
    <3>3. QED
      BY <3>1, <3>2
  <2>7. ASSUME NEW m \in UnderWay PROVE m \in Makers /\ InMakeOf(m)
    <3>1. PICK i \in DOMAIN stack : InMake(i) /\ m = Kids[stack[i].mk][stack[i].at]
      BY <2>7 DEF UnderWay
    <3>2. CASE i # 1
      <4>1. i - 1 \in DOMAIN stack /\ (i - 1) + 1 \in DOMAIN stack /\ stack[i - 1].mk = m
        BY <2>2, <2>3, <3>1, <3>2
      <4>2. m \in Makers
        BY <2>1, <4>1 DEF Frames
      <4>3. QED
        BY <4>1, <4>2 DEF InMakeOf, Nested
    <3>3. CASE i = 1
      <4>1. step # "look" /\ stack # <<>>
        BY <2>5, <3>1, <3>3, EmptyStack
      <4>2. QED
        BY <2>4, <3>1, <3>3, <4>1 DEF InMakeOf
    <3>4. QED
      BY <3>2, <3>3
  <2>8. QED
    BY <2>1, <2>6, <2>7
<1>2. QED
  BY <1>1, CallsInvariance, PTL

\* Finish goes through any tree from the last maker to the first, also when the
\* signal handler calls it in the middle of an event: a chain has kFiniEnd only
\* after all of its makers, and a maker only after its followers.
THEOREM FinishOrderHolds == Spec => []FinishOrder
<1>1. CallsInv => FinishOrder
  <2> SUFFICES ASSUME CallsInv, NEW m \in Makers, NEW i \in DOMAIN Kids[m]
               PROVE  /\ Ended(m) => Ended(Kids[m][i])
                      /\ Ended(Kids[m][i]) => \A j \in i .. Len(Kids[m]) : Ended(Kids[m][j])
    BY DEF FinishOrder, Ended
  <2>1. /\ Len(Kids[m]) \in Nat /\ i \in 1 .. Len(Kids[m])
        /\ \A j \in i .. Len(Kids[m]) : j \in DOMAIN Kids[m]
    BY Lengths
  <2>2. CASE \A n \in Calls(stack, "finish") : stack[n].mk # m
    BY <2>1, <2>2 DEF CallsInv, FinishingInv
  <2>3. CASE \E n \in Calls(stack, "finish") : stack[n].mk = m
    <3>1. PICK n \in Calls(stack, "finish") : stack[n].mk = m
      BY <2>3
    <3>2. /\ ~ Ended(m) /\ stack[n].at \in 0 .. Len(Kids[m])
          /\ \A k \in DOMAIN Kids[m] : Ended(Kids[m][k]) <=> k > stack[n].at
      BY <3>1 DEF CallsInv, FinishingInv, FinishedAfter
    <3>3. QED
      BY <2>1, <3>2
  <2>4. QED
    BY <2>2, <2>3
<1>2. QED
  BY <1>1, CallsInvariance, PTL

\* After an end of file or a fatal error the chains only return, with that value.
HaltInv ==
  /\ program = "init" => ~ halted
  /\ program = "loop" /\ halted => step = "back" /\ ret % 10 \in {kStEOF, kStFatal}

LEMMA StepHaltInv == HaltInv /\ [Next]_vars => HaltInv'
<1> SUFFICES ASSUME HaltInv, [Next]_vars PROVE HaltInv'
  OBVIOUS
<1> USE DEF history, counters
<1>1. CASE InitMaker \/ InitChain \/ InitReturn
  BY <1>1 DEF InitMaker, InitChain, InitReturn, InCall, Running, HaltInv
<1>2. CASE NewEvent \/ SkipInactive \/ BeginMaker \/ InitRun \/ MakeChain \/ ReturnOK
  BY <1>2 DEF NewEvent, SkipInactive, BeginMaker, InitRun, MakeChain, ReturnOK, Step,
     InCall, Running, HaltInv
<1>3. ASSUME NEW r \in Runs, ReadRun(r) PROVE HaltInv'
  BY <1>3 DEF ReadRun, Step, InCall, Running, HaltInv
<1>4. ASSUME NEW r, AfterMaker(Maker, r), r % 10 \in {kStEOF, kStFatal}
      PROVE  step' = "back" /\ ret' = r
  <2>1. Ends(Maker, r)
    BY <1>4 DEF Ends
  <2>2. QED
    BY <1>4, <2>1 DEF AfterMaker, Returned
<1>5. ASSUME NEW r \in Codes, EndMaker(r) PROVE HaltInv'
  <2>1. program = "loop" /\ program' = "loop" /\ step \in {"make", "read"}
    BY <1>5 DEF EndMaker, Step, InCall, Running
  <2>2. halted' => r % 10 \in {kStEOF, kStFatal}
    BY <1>5, <2>1 DEF EndMaker, HaltInv
  <2>3. QED
    BY <1>4, <1>5, <2>1, <2>2 DEF EndMaker, HaltInv
<1>6. CASE EndChain
  BY <1>4, <1>6 DEF EndChain, Step, InCall, Running, HaltInv
<1>7. CASE EndEvent
  BY <1>7 DEF EndEvent, HaltInv
<1>8. CASE EndLoop \/ Finish \/ Terminate
  BY <1>8 DEF EndLoop, Finish, Terminate, FinishTop, HaltInv
<1>9. CASE FinishMaker \/ FinishReturn
  BY <1>9 DEF FinishMaker, FinishReturn, InCall, Running, HaltInv
<1>10. CASE FinishAgain \/ UNCHANGED vars
  BY <1>10 DEF FinishAgain, vars, HaltInv
<1>11. QED
  BY <1>1, <1>2, <1>3, <1>5, <1>6, <1>7, <1>8, <1>9, <1>10 DEF Next

\* An end of file or a fatal error stops the job from any depth of any tree, past
\* makers of any privilege: no maker is called after it.
THEOREM HaltHolds == Spec => HaltIsFinal
<1>1. Init => HaltInv
  BY DEF Init, HaltInv
<1>2. HaltInv /\ [Next]_vars => [halted => made' \subseteq made]_vars
  <2> SUFFICES ASSUME HaltInv, [Next]_vars, halted PROVE made' \subseteq made
    OBVIOUS
  <2> USE DEF history, counters
  <2>1. CASE UNCHANGED made
    BY <2>1
  <2>2. program = "loop" => step = "back"
    BY DEF HaltInv
  <2>3. ASSUME NEW r \in Codes, EndMaker(r) PROVE FALSE
    BY <2>2, <2>3 DEF EndMaker, Step, InCall, Running
  <2>4. ASSUME NEW r \in Runs, ReadRun(r) PROVE FALSE
    BY <2>2, <2>4 DEF ReadRun, Step, InCall, Running
  <2>5. CASE MakeChain \/ NewEvent
    BY <2>2, <2>5 DEF MakeChain, NewEvent, Step, InCall, Running
  <2>6. QED
    BY <2>1, <2>3, <2>4, <2>5
       DEF Next, InitMaker, InitChain, InitReturn, SkipInactive, BeginMaker, InitRun,
           EndChain, ReturnOK, EndEvent, EndLoop, Finish, Terminate, FinishTop,
           FinishMaker, FinishReturn, FinishAgain, vars
<1>3. QED
  BY <1>1, <1>2, StepHaltInv, PTL DEF Spec, HaltIsFinal
-----------------------------------------------------------------------------
\* Who is called in an event

\* What a call of Make leaves behind: makers D have been called, of its makers
\* before the current one the active ones.
Passed(f, D) ==
  /\ f.at >= 1
  /\ \A k \in DOMAIN Kids[f.mk] : k < f.at /\ Kids[f.mk][k] \in Active => Kids[f.mk][k] \in D
AtCalled(f, D) == Kids[f.mk][f.at] \in D
AllPassed(s, st, D) == \A i \in DOMAIN s :
  /\ Passed(s[i], D)
  /\ i # 1 \/ st \in {"read", "back"} => AtCalled(s[i], D)

\* A maker has been left early, in chains L, or its active makers were called.
Served(m, D, L) == m \in L \/ Range(Kids[m]) \cap Active \subseteq D
HasCall(s, m) == \E i \in DOMAIN s : s[i].mk = m
Settled(m) == \/ Served(m, made, left)
              \/ HasCall(stack, m)
              \/ stack # <<>> /\ step = "read" /\ m = Maker

\* Every maker that was called is served, or its call is under way.
EventInv ==
  program = "loop" /\ ~ halted /\ ~ (stack = <<>> /\ step = "look") =>
    AllPassed(stack, step, made) /\ \A m \in made \cup {Top} : Settled(m)

\* A loop that was left with an end of file or a fatal error has been halted.
ValueInv ==
  program = "loop" /\ step = "back" /\ ret % 10 \in {kStEOF, kStFatal} => halted

\* More makers called and more chains left.
LEMMA PassedMore ==
  ASSUME NEW D, NEW E, D \subseteq E
  PROVE  /\ \A f : Passed(f, D) => Passed(f, E)
         /\ \A f : AtCalled(f, D) => AtCalled(f, E)
         /\ \A s, st : AllPassed(s, st, D) => AllPassed(s, st, E)
         /\ \A m, L, K : L \subseteq K /\ Served(m, D, L) => Served(m, E, K)
BY DEF Passed, AtCalled, AllPassed, Served

\* The stack operations, each with the makers that were called meanwhile: the
\* innermost loop goes on to its next maker,
LEMMA ForwardPassed ==
  ASSUME NEW s \in Seq(Frames), s # <<>>, NEW D, NEW E, D \subseteq E, NEW st,
         AllPassed(s, st, D),
         Kids[s[1].mk][s[1].at] \in Active => AtCalled(s[1], E)
  PROVE  /\ AllPassed(Forward(s), "look", E)
         /\ \A m : HasCall(s, m) => HasCall(Forward(s), m)
<1> DEFINE t == Forward(s)
<1>1. /\ DOMAIN t = DOMAIN s /\ 1 \in DOMAIN s /\ t[1].mk = s[1].mk /\ t[1].at = s[1].at + 1
      /\ \A i \in DOMAIN s : i # 1 => t[i] = s[i]
      /\ \A i \in DOMAIN s : t[i].mk = s[i].mk
  <2>1. PICK d \in Int : d = 1 /\ t = Moved(s, d)
    BY ForwardBackward
  <2> HIDE DEF t
  <2> QED
    BY <2>1, MovedStack
<1>2. s[1].at \in Int /\ s[1].mk \in Makers
  <2>1. s[1] \in Frames
    BY <1>1
  <2> QED
    BY <2>1 DEF Frames
<1> HIDE DEF t
<1>3. AllPassed(s, st, E)
  BY PassedMore
<1>4. Passed(t[1], E)
  <2>1. /\ s[1].at >= 1
        /\ \A k \in DOMAIN Kids[s[1].mk] :
             k < s[1].at /\ Kids[s[1].mk][k] \in Active => Kids[s[1].mk][k] \in E
    BY <1>1, <1>3 DEF AllPassed, Passed
  <2>2. ASSUME NEW k \in DOMAIN Kids[s[1].mk], k < s[1].at + 1, Kids[s[1].mk][k] \in Active
        PROVE  Kids[s[1].mk][k] \in E
    <3>1. k \in Nat
      BY <1>2, <2>2, Lengths
    <3>2. CASE k < s[1].at
      BY <2>1, <2>2, <3>2
    <3>3. CASE k = s[1].at
      BY <2>2, <3>3 DEF AtCalled
    <3> QED
      BY <1>2, <2>2, <3>1, <3>2, <3>3
  <2>3. s[1].at + 1 >= 1
    BY <1>2, <2>1
  <2> QED
    BY <1>1, <2>2, <2>3 DEF Passed
<1>5. AllPassed(t, "look", E)
  BY <1>1, <1>3, <1>4 DEF AllPassed
<1>6. \A m : HasCall(s, m) => HasCall(t, m)
  BY <1>1 DEF HasCall
<1> QED
  BY <1>5, <1>6 DEF t

\* it returns,
LEMMA PopPassed ==
  ASSUME NEW s \in Seq(Frames), s # <<>>, NEW D, NEW E, D \subseteq E, NEW st,
         AllPassed(s, st, D)
  PROVE  /\ AllPassed(Tail(s), "back", E)
         /\ \A m : HasCall(s, m) => m = s[1].mk \/ HasCall(Tail(s), m)
<1> DEFINE t == Tail(s)
<1>1. /\ DOMAIN t = 1 .. Len(s) - 1 /\ DOMAIN s = 1 .. Len(s) /\ Len(s) \in Nat
      /\ \A i \in DOMAIN t : i + 1 \in DOMAIN s /\ t[i] = s[i + 1]
  BY PoppedStack
<1> HIDE DEF t
<1>2. AllPassed(s, st, E)
  BY PassedMore
<1>3. \A i \in DOMAIN t : i + 1 # 1
  BY <1>1
<1>4. AllPassed(t, "back", E)
  BY <1>1, <1>2, <1>3 DEF AllPassed
<1>5. ASSUME NEW i \in DOMAIN s, i # 1 PROVE HasCall(t, s[i].mk)
  <2>1. i - 1 \in DOMAIN t /\ (i - 1) + 1 = i
    BY <1>1, <1>5
  <2> QED
    BY <1>1, <2>1 DEF HasCall
<1>6. \A m : HasCall(s, m) => m = s[1].mk \/ HasCall(t, m)
  BY <1>5 DEF HasCall
<1> QED
  BY <1>4, <1>6 DEF t

\* its current maker is called.
LEMMA PushPassed ==
  ASSUME NEW s \in Seq(Frames), NEW D, NEW E, D \subseteq E, NEW st,
         AllPassed(s, st, D), s # <<>> => AtCalled(s[1], E), NEW f \in Frames, f.at = 1
  PROVE  /\ AllPassed(<<f>> \o s, "look", E)
         /\ \A m : HasCall(s, m) \/ m = f.mk => HasCall(<<f>> \o s, m)
<1> DEFINE t == <<f>> \o s
<1>1. /\ DOMAIN t = 1 .. Len(s) + 1 /\ DOMAIN s = 1 .. Len(s) /\ Len(s) \in Nat /\ t[1] = f
      /\ \A i \in DOMAIN s : t[i + 1] = s[i]
      /\ \A i \in DOMAIN t : i # 1 => i - 1 \in DOMAIN s /\ t[i] = s[i - 1]
  BY PushedStack
<1> HIDE DEF t
<1>2. AllPassed(s, st, E)
  BY PassedMore
<1>3. Passed(f, E)
  <2>1. ASSUME NEW k \in DOMAIN Kids[f.mk], k < f.at PROVE FALSE
    <3>1. f.mk \in Makers
      BY DEF Frames
    <3>2. k \in 1 .. Len(Kids[f.mk])
      BY <3>1, Lengths
    <3> QED
      BY <2>1, <3>1, <3>2, Lengths
  <2> QED
    BY <2>1 DEF Passed
<1>4. \A i \in DOMAIN s : Passed(s[i], E) /\ AtCalled(s[i], E)
  <2>1. \A i \in DOMAIN s : s # <<>>
    OBVIOUS
  <2> QED
    BY <1>2, <2>1 DEF AllPassed
<1>5. AllPassed(t, "look", E)
  <2>1. \A i \in DOMAIN t : Passed(t[i], E) /\ (i # 1 => AtCalled(t[i], E))
    BY <1>1, <1>3, <1>4
  <2> QED
    BY <2>1 DEF AllPassed
<1>6. \A m : HasCall(s, m) \/ m = f.mk => HasCall(t, m)
  <2>1. \A i \in DOMAIN s : i + 1 \in DOMAIN t
    BY <1>1
  <2>2. 1 \in DOMAIN t
    BY <1>1
  <2> QED
    BY <1>1, <2>1, <2>2 DEF HasCall
<1> QED
  BY <1>5, <1>6 DEF t
-----------------------------------------------------------------------------
\* A step that leaves the calls alone calls at most the current maker.
LEMMA SameSettled ==
  ASSUME CallsInv, EventInv, InCall("make"), More, ~ halted', halted => halted',
         UNCHANGED <<stack, program>>, step \notin {"read", "back"},
         left' = left, step' # "back", made \subseteq made',
         step' = "read" => made' = made \cup {Maker},
         step' # "read" => made' = made
  PROVE  EventInv'
<1>1. /\ stack \in Seq(Frames) /\ stack # <<>> /\ Frame = stack[1] /\ program = "loop"
      /\ Maker = Kids[stack[1].mk][stack[1].at]
      /\ AllPassed(stack, step, made) /\ \A m \in made \cup {Top} : Settled(m)
  BY MakeCall DEF CallsInv, EventInv
<1>2. AllPassed(stack, step', made')
  BY <1>1, PassedMore DEF AllPassed, AtCalled
<1>3. ASSUME NEW m \in made' \cup {Top} PROVE Settled(m)'
  <2>1. CASE m \in made \cup {Top}
    BY <1>1, <2>1, PassedMore DEF Settled
  <2>2. CASE m \notin made \cup {Top}
    BY <1>1, <1>3, <2>2 DEF Settled, Maker, Frame
  <2> QED
    BY <2>1, <2>2
<1> QED
  BY <1>1, <1>2, <1>3 DEF EventInv

\* The loop goes on to its next maker.
LEMMA ForwardSettled ==
  ASSUME CallsInv, EventInv, InCall("make"), More, ~ halted', halted => halted',
         stack' = Forward(stack), step' = "look", program' = program,
         made' \in {made, made \cup {Maker}}, left \subseteq left',
         Maker \in Active => Maker \in made',
         made' # made \/ step = "read" => ~ IsChain(Maker)
  PROVE  EventInv'
<1>1. /\ stack \in Seq(Frames) /\ stack # <<>> /\ Frame = stack[1] /\ program = "loop"
      /\ Maker = Kids[stack[1].mk][stack[1].at] /\ Maker \in Makers
      /\ AllPassed(stack, step, made) /\ \A m \in made \cup {Top} : Settled(m)
  BY MakeCall DEF CallsInv, EventInv
<1>2. made \subseteq made'
  OBVIOUS
<1>3. /\ AllPassed(stack', "look", made')
      /\ \A m : HasCall(stack, m) => HasCall(stack', m)
  BY <1>1, <1>2, ForwardPassed DEF AtCalled
<1>4. ~ IsChain(Maker) => Served(Maker, made', left')
  BY <1>1 DEF IsChain, Chains, Served, Range
<1>5. ASSUME NEW m \in made' \cup {Top} PROVE Settled(m)'
  <2>1. CASE m \in made \cup {Top}
    BY <1>1, <1>2, <1>3, <1>4, <2>1, PassedMore DEF Settled
  <2>2. CASE m \notin made \cup {Top}
    BY <1>4, <1>5, <2>2 DEF Settled
  <2> QED
    BY <2>1, <2>2
<1> QED
  BY <1>3, <1>5 DEF EventInv

\* The loop returns to the one that called it.
LEMMA ReturnSettled ==
  ASSUME CallsInv, EventInv, InCall("make"), ~ halted', halted => halted',
         stack' = Tail(stack), step' = "back", program' = program,
         made' \in {made, made \cup {Maker}}, made' # made => More, left \subseteq left',
         Served(Frame.mk, made', left'),
         made' # made \/ step = "read" => More /\ ~ IsChain(Maker)
  PROVE  EventInv'
<1>1. /\ stack \in Seq(Frames) /\ stack # <<>> /\ Frame = stack[1] /\ program = "loop"
      /\ More => Maker \in Makers
      /\ AllPassed(stack, step, made) /\ \A m \in made \cup {Top} : Settled(m)
  BY MakeCall DEF CallsInv, EventInv
<1>2. made \subseteq made'
  OBVIOUS
<1>3. /\ AllPassed(stack', "back", made')
      /\ \A m : HasCall(stack, m) => m = Frame.mk \/ HasCall(stack', m)
  BY <1>1, <1>2, PopPassed
<1>4. More /\ ~ IsChain(Maker) => Served(Maker, made', left')
  BY <1>1 DEF IsChain, Chains, Served, Range
<1>5. ASSUME NEW m \in made' \cup {Top} PROVE Settled(m)'
  <2>1. CASE m \in made \cup {Top}
    BY <1>1, <1>2, <1>3, <1>4, <2>1, PassedMore DEF Settled
  <2>2. CASE m \notin made \cup {Top}
    BY <1>4, <1>5, <2>2 DEF Settled
  <2> QED
    BY <2>1, <2>2
<1> QED
  BY <1>3, <1>5 DEF EventInv

\* The value that a maker returns: it serves the chain that the loop leaves for it.
LEMMA AfterMakerSettled ==
  ASSUME CallsInv, EventInv, InCall("make"), More, NEW r \in Codes \cup {kStOK, kStErr},
         AfterMaker(Maker, r), ~ halted', halted => halted', program' = program,
         made' \in {made, made \cup {Maker}}, Maker \in made',
         made' # made \/ step = "read" => ~ IsChain(Maker),
         r % 10 \notin {kStEOF, kStFatal}
  PROVE  EventInv' /\ (step' = "back" => ret' = r)
<1>1. left \subseteq left'
  BY DEF AfterMaker, Left
<1>2. CASE Ends(Maker, r)
  <2>1. r \in {0, 1, 2, 3, 4, 13}
    BY ParametersAssumption
  <2>2. r % 10 = kStErr
    BY <1>2, <2>1 DEF Ends
  <2>3. Served(Frame.mk, made', left')
    BY <1>2, <2>2 DEF AfterMaker, Left, Ends, Served
  <2> QED
    BY <1>1, <1>2, <2>3, ReturnSettled DEF AfterMaker, Returned
<1>3. CASE ~ Ends(Maker, r)
  <2>1. stack' = Forward(stack) /\ step' = "look"
    BY <1>3 DEF AfterMaker
  <2>2. EventInv'
    BY <1>1, <2>1, ForwardSettled
  <2> QED
    BY <2>1, <2>2
<1> QED
  BY <1>2, <1>3
\* Every step keeps the invariant.
LEMMA StepEventInv == CallsInv /\ EventInv /\ ValueInv /\ [Next]_vars => EventInv' /\ ValueInv'
<1> SUFFICES ASSUME CallsInv, EventInv, ValueInv, [Next]_vars PROVE EventInv' /\ ValueInv'
  OBVIOUS
<1> USE DEF history, counters
<1>1. CASE program' # "loop"
  BY <1>1 DEF EventInv, ValueInv
<1>2. CASE UNCHANGED vars \/ FinishAgain
  <2>1. UNCHANGED <<program, stack, step, ret, made, left, halted>>
    BY <1>2 DEF vars, FinishAgain
  <2>2. UNCHANGED Maker /\ \A m : Served(m, made, left)' = Served(m, made, left)
    BY <2>1 DEF Maker, Frame, Served
  <2> QED
    BY <2>1, <2>2 DEF EventInv, ValueInv, AllPassed, Passed, AtCalled, Settled, HasCall
<1>3. CASE InitMaker \/ InitChain \/ InitReturn
  <2>1. program = "init" /\ step = "look" /\ step' = step
    BY <1>3 DEF InitMaker, InitChain, InitReturn, InCall, Running, CallsInv, IInv, FreshInv
  <2>2. program' = "loop" => stack' = <<>>
    BY <1>3, <2>1 DEF InitMaker, InitChain, InitReturn
  <2> QED
    BY <2>1, <2>2 DEF EventInv, ValueInv
<1>4. CASE NewEvent
  <2> DEFINE f == [mk |-> Top, op |-> "make", at |-> 1]
  <2>1. /\ program' = "loop" /\ stack = <<>> /\ stack' = <<f>> \o stack /\ step' = "look"
        /\ made' = {} /\ left' = {} /\ f \in Frames /\ f.at = 1 /\ f.mk = Top
    BY <1>4, TreeAssumption DEF NewEvent, Push, Frames
  <2> HIDE DEF f
  <2>2. AllPassed(stack, "look", {})
    BY <2>1, EmptyStack DEF AllPassed
  <2>3. AllPassed(stack', "look", {}) /\ HasCall(stack', Top)
    BY <2>1, <2>2, EmptyStack, PushPassed
  <2> QED
    BY <2>1, <2>3 DEF EventInv, ValueInv, Settled
<1>5. CASE SkipInactive
  <2>1. /\ InCall("make") /\ More /\ stack' = Forward(stack) /\ step = "look"
        /\ UNCHANGED <<program, step, made, left, halted>> /\ Maker \notin Active
    BY <1>5 DEF SkipInactive, Step
  <2>2. halted' \/ EventInv'
    BY <2>1, ForwardSettled DEF OtherTypes, CallsInv
  <2> QED
    BY <2>1, <2>2 DEF EventInv, ValueInv
<1>6. CASE BeginMaker
  <2>1. /\ InCall("make") /\ More /\ step = "look" /\ step' \in {"initrun", "make"}
        /\ UNCHANGED <<program, stack, made, left, halted>>
    BY <1>6 DEF BeginMaker, Step, LooksAtRun
  <2>2. halted' \/ EventInv'
    BY <2>1, SameSettled
  <2> QED
    BY <2>1, <2>2 DEF EventInv, ValueInv
<1>7. CASE InitRun
  <2>1. /\ InCall("make") /\ step = "initrun" /\ step' = "make" /\ program = "loop"
        /\ UNCHANGED <<program, stack, made, left, halted>>
    BY <1>7 DEF InitRun, Step, InCall, Running
  <2>2. More
    BY <2>1 DEF CallsInv, IInv, AtMakerInv
  <2>3. halted' \/ EventInv'
    BY <2>1, <2>2, SameSettled
  <2> QED
    BY <2>1, <2>3 DEF EventInv, ValueInv
<1>8. CASE MakeChain
  <2> DEFINE f == [mk |-> Maker, op |-> "make", at |-> 1]
  <2>1. /\ InCall("make") /\ step = "make" /\ step' = "look" /\ program = "loop"
        /\ stack' = <<f>> \o stack /\ made' = made \cup {Maker}
        /\ UNCHANGED <<program, left, halted>>
    BY <1>8 DEF MakeChain, Step, InCall, Running, Made, Push
  <2>2. /\ stack \in Seq(Frames) /\ stack # <<>> /\ Maker = Kids[stack[1].mk][stack[1].at]
        /\ Maker \in Makers
    BY <2>1, MakeCall DEF CallsInv, IInv, AtMakerInv
  <2>3. f \in Frames /\ f.at = 1 /\ f.mk = Maker
    BY <2>2 DEF Frames
  <2> HIDE DEF f
  <2>4. CASE halted
    BY <2>1, <2>4 DEF EventInv, ValueInv
  <2>5. CASE ~ halted
    <3>1. AllPassed(stack, step, made) /\ \A m \in made \cup {Top} : Settled(m)
      BY <2>1, <2>2, <2>5 DEF EventInv
    <3>2. made \subseteq made' /\ AtCalled(stack[1], made')
      BY <2>1, <2>2 DEF AtCalled
    <3>3. /\ AllPassed(stack', "look", made')
          /\ \A m : HasCall(stack, m) \/ m = Maker => HasCall(stack', m)
      BY <2>1, <2>2, <2>3, <3>1, <3>2, PushPassed
    <3>4. ASSUME NEW m \in made' \cup {Top} PROVE Settled(m)'
      BY <2>1, <3>1, <3>2, <3>3, <3>4, PassedMore DEF Settled
    <3> QED
      BY <2>1, <3>3, <3>4 DEF EventInv, ValueInv
  <2> QED
    BY <2>4, <2>5
<1>9. ASSUME NEW r \in Runs, ReadRun(r) PROVE EventInv' /\ ValueInv'
  <2>1. /\ InCall("make") /\ step = "make" /\ step' = "read" /\ program = "loop"
        /\ made' = made \cup {Maker} /\ UNCHANGED <<program, stack, left, halted>>
    BY <1>9 DEF ReadRun, Step, InCall, Running
  <2>2. More
    BY <2>1 DEF CallsInv, IInv, AtMakerInv
  <2>3. halted' \/ EventInv'
    BY <2>1, <2>2, SameSettled
  <2> QED
    BY <2>1, <2>3 DEF EventInv, ValueInv
<1>10. ASSUME NEW r \in Codes, EndMaker(r) PROVE EventInv' /\ ValueInv'
  <2>1. /\ InCall("make") /\ step \in {"make", "read"} /\ program = "loop" /\ stack # <<>>
        /\ ~ IsChain(Maker) /\ AfterMaker(Maker, r) /\ program' = program
        /\ halted' = (halted \/ r % 10 \in {kStEOF, kStFatal})
        /\ made' = (IF step = "make" THEN made \cup {Maker} ELSE made)
    BY <1>10 DEF EndMaker, Step, InCall, Running, Made
  <2>2. More
    BY <2>1 DEF CallsInv, MakeInv, PastLookInv
  <2>3. CASE halted'
    BY <2>3 DEF EventInv, ValueInv
  <2>4. CASE ~ halted'
    <3>1. AllPassed(stack, step, made) /\ 1 \in DOMAIN stack /\ Maker = Kids[stack[1].mk][stack[1].at]
      BY <2>1, <2>2, <2>4, MakeCall DEF CallsInv, EventInv
    <3>2. Maker \in made'
      BY <2>1, <3>1 DEF AllPassed, AtCalled
    <3>3. made' \in {made, made \cup {Maker}}
      BY <2>1
    <3>4. r % 10 \notin {kStEOF, kStFatal} /\ ~ halted /\ r \in Codes \cup {kStOK, kStErr}
      BY <2>1, <2>4
    <3>5. EventInv' /\ (step' = "back" => ret' = r)
      BY <2>1, <2>2, <2>4, <3>2, <3>3, <3>4, AfterMakerSettled
    <3> QED
      BY <3>4, <3>5 DEF ValueInv
  <2> QED
    BY <2>3, <2>4
<1>11. CASE EndChain
  <2>1. /\ InCall("make") /\ step = "back" /\ program = "loop" /\ stack # <<>>
        /\ AfterMaker(Maker, ret) /\ UNCHANGED <<program, made, halted>>
    BY <1>11 DEF EndChain, Step, InCall, Running
  <2>2. More
    BY <2>1 DEF CallsInv, MakeInv, PastLookInv
  <2>3. CASE halted'
    BY <2>3 DEF EventInv, ValueInv
  <2>4. CASE ~ halted'
    <3>1. AllPassed(stack, step, made) /\ 1 \in DOMAIN stack /\ Maker = Kids[stack[1].mk][stack[1].at]
      BY <2>1, <2>2, <2>4, MakeCall DEF CallsInv, EventInv
    <3>2. Maker \in made'
      BY <2>1, <3>1 DEF AllPassed, AtCalled
    <3>3. made' \in {made, made \cup {Maker}} /\ made' = made /\ step # "read"
      BY <2>1
    <3>4. ret % 10 \notin {kStEOF, kStFatal} /\ ~ halted /\ ret \in Codes \cup {kStOK, kStErr}
      BY <2>1, <2>4 DEF ValueInv, CallsInv, OtherTypes
    <3>5. EventInv' /\ (step' = "back" => ret' = ret)
      BY <2>1, <2>2, <2>4, <3>2, <3>3, <3>4, AfterMakerSettled
    <3> QED
      BY <3>4, <3>5 DEF ValueInv
  <2> QED
    BY <2>3, <2>4
<1>12. CASE ReturnOK
  <2>1. /\ InCall("make") /\ step = "look" /\ ~ More /\ stack' = Tail(stack) /\ step' = "back"
        /\ ret' = 0 /\ program = "loop" /\ UNCHANGED <<program, made, left, halted>>
    BY <1>12 DEF ReturnOK, Step, InCall, Running, Returned
  <2>2. ASSUME ~ halted PROVE Served(Frame.mk, made, left)
    <3>1. /\ Frame = stack[1] /\ 1 \in DOMAIN stack /\ stack \in Seq(Frames)
          /\ stack # <<>> /\ AllPassed(stack, step, made)
      BY <2>1, <2>2, MakeCall DEF CallsInv, EventInv
    <3>2. /\ Frame.at >= 1 /\ Frame \in Frames
          /\ \A k \in DOMAIN Kids[Frame.mk] :
               k < Frame.at /\ Kids[Frame.mk][k] \in Active => Kids[Frame.mk][k] \in made
      BY <3>1 DEF AllPassed, Passed
    <3>3. Frame.mk \in Makers /\ Frame.at \in Int
      BY <3>2 DEF Frames
    <3>4. \A k \in DOMAIN Kids[Frame.mk] : k < Frame.at
      BY <2>1, <3>2, <3>3, Lengths DEF More
    <3> QED
      BY <3>2, <3>4 DEF Served, Range
  <2>3. halted' \/ EventInv'
    <3>1. CASE halted
      BY <2>1, <3>1
    <3>2. CASE ~ halted
      <4>1. ~ halted' /\ Served(Frame.mk, made', left') /\ left \subseteq left' /\ made' = made
        BY <2>1, <2>2, <3>2
      <4> QED
        BY <2>1, <4>1, ReturnSettled
    <3> QED
      BY <3>1, <3>2
  <2>4. 0 % 10 = 0
    OBVIOUS
  <2> QED
    BY <2>1, <2>3, <2>4 DEF EventInv, ValueInv
<1>13. CASE EndEvent \/ EndLoop
  BY <1>13 DEF EndEvent, EndLoop, EventInv, ValueInv
<1>14. CASE Finish \/ Terminate
  BY <1>1, <1>14 DEF Finish, Terminate, FinishTop
<1>15. CASE FinishMaker \/ FinishReturn
  BY <1>1, <1>15 DEF FinishMaker, FinishReturn, InCall, Running
<1> QED
  BY <1>2, <1>3, <1>4, <1>5, <1>6, <1>7, <1>8, <1>9, <1>10, <1>11, <1>12, <1>13, <1>14,
     <1>15 DEF Next

\* The makers reached through active chains are among those that a set closed
\* under active makers has.
LEMMA ReachedLeast ==
  ASSUME NEW m, NEW S, NEW R \in SUBSET Makers,
         \A x \in R \cup {m} : Range(Kids[x]) \cap S \subseteq R
  PROVE  Reached(m, S) \subseteq R
BY DEF Reached

\* What is reached from m is closed.
LEMMA ReachedClosed ==
  ASSUME NEW m \in Makers, NEW S
  PROVE  /\ Reached(m, S) \subseteq Makers
         /\ \A x \in Reached(m, S) \cup {m} : Range(Kids[x]) \cap S \subseteq Reached(m, S)
<1>1. Reached(m, S) \subseteq Makers
  BY DEF Reached
<1>2. ASSUME NEW x \in Reached(m, S) \cup {m}, NEW k \in Range(Kids[x]), k \in S
      PROVE  k \in Reached(m, S)
  <2>1. x \in Makers
    BY <1>1
  <2>2. k \in Makers
    BY <2>1, KidsAreMakers DEF Range
  <2>3. ASSUME NEW R \in SUBSET Makers,
               \A y \in R \cup {m} : Range(Kids[y]) \cap S \subseteq R
        PROVE  k \in R
    <3>1. x \in R \cup {m}
      BY <2>3, ReachedLeast
    <3> QED
      BY <1>2, <2>3, <3>1
  <2> QED
    BY <2>2, <2>3 DEF Reached
<1> QED
  BY <1>1, <1>2

\* An error in one maker does not cost the others the event, for any tree of
\* makers, any privileges and any return codes.
THEOREM EveryActiveHolds == Spec => []EveryActiveMade
<1>1. Init => EventInv /\ ValueInv
  BY DEF Init, EventInv, ValueInv
<1>2. CallsInv /\ EventInv => EveryActiveMade
  <2> SUFFICES ASSUME CallsInv, EventInv, program = "loop", stack = <<>>, step = "back", ~ halted
               PROVE  Called[Top] \subseteq made \cup UNION {Below[c] : c \in left}
    BY DEF EveryActiveMade
  <2> DEFINE R == made \cup UNION {Below[c] : c \in left}
  <2>1. /\ \A m \in made \cup {Top} : Served(m, made, left)
        /\ made \subseteq Makers /\ left \subseteq Makers /\ Top \in Makers
    BY EmptyStack, TreeAssumption DEF EventInv, Settled, HasCall, CallsInv, OtherTypes, Chains
  <2>2. \A c \in left : /\ Below[c] \subseteq Makers
                        /\ \A x \in Below[c] \cup {c} : Range(Kids[x]) \subseteq Below[c]
    <3>1. ASSUME NEW c \in left
          PROVE  /\ Below[c] \subseteq Makers
                 /\ \A x \in Below[c] \cup {c} : Range(Kids[x]) \subseteq Below[c]
      <4>1. Below[c] = Reached(c, Makers) /\ c \in Makers
        BY <2>1 DEF Below
      <4>2. \A x \in Makers : Range(Kids[x]) \cap Makers = Range(Kids[x])
        BY KidsAreMakers DEF Range
      <4> QED
        BY <4>1, <4>2, ReachedClosed
    <3> QED
      BY <3>1
  <2>3. R \in SUBSET Makers
    BY <2>1, <2>2
  <2>4. ASSUME NEW x \in R \cup {Top} PROVE Range(Kids[x]) \cap Active \subseteq R
    <3>1. CASE x \in made \cup {Top}
      BY <2>1, <2>2, <3>1 DEF Served
    <3>2. CASE \E c \in left : x \in Below[c]
      BY <2>2, <3>2
    <3> QED
      BY <2>4, <3>1, <3>2
  <2>5. Called[Top] = Reached(Top, Active)
    BY <2>1 DEF Called
  <2> HIDE DEF R
  <2>6. Called[Top] \subseteq R
    BY <2>3, <2>4, <2>5, ReachedLeast
  <2> QED
    BY <2>6 DEF R
<1> QED
  BY <1>1, <1>2, StepEventInv, CallsInvariance, PTL DEF Spec
=============================================================================
