------------------------- MODULE MakerProtocolProofs -------------------------
(* Proofs that the maker chain implements MakerProtocol: for every tree of     *)
(* makers, every set of active, privileged and input makers, whatever they     *)
(* return and wherever SIGTERM comes, each maker but the top chain sees its    *)
(* Init, InitRun, Make, FinishRun and Finish in order; all are finished in the *)
(* end, and those called in the run of the header with their own run.          *)
EXTENDS StMakerChainCallsProofs

\* The makers that are initialised.
Inited == {m \in Makers : "InitEnd" \in bits[m]}

\* Makers D are initialised: those of a call of Init before its current one,
InitedBefore(f, D) ==
  /\ f.at >= 1
  /\ \A k \in DOMAIN Kids[f.mk] : k < f.at => Kids[f.mk][k] \in D

\* and with a maker all that it has.
WithKids(D) == \A m \in D : \A k \in DOMAIN Kids[m] : Kids[m][k] \in D

\* In the event loop the makers of the top chain are initialised, and the loops
\* that run are of such makers.
InitedInv ==
  /\ program = "init" => /\ Linked(stack, "init")
                         /\ \A i \in DOMAIN stack : InitedBefore(stack[i], Inited)
  /\ program \in {"init", "loop"} => WithKids(Inited)
  /\ program = "loop" =>
        /\ \A k \in DOMAIN Kids[Top] : Kids[Top][k] \in Inited
        /\ \A i \in DOMAIN stack : stack[i].mk \in Inited \cup {Top}

\* Makers D have been called in this event: with a maker the one that it is
\* below, of a loop its own maker, but not those behind its current one.
CalledFromTop(D) ==
  \A m \in Makers : \A k \in DOMAIN Kids[m] : Kids[m][k] \in D => m \in D \cup {Top}
NotYet(f, D) ==
  /\ f.mk \in D \cup {Top}
  /\ \A k \in DOMAIN Kids[f.mk] : k > f.at => Kids[f.mk][k] \notin D

\* The current maker of the innermost loop has been called once its Make began.
OnceInv ==
  /\ program = "init" => made = {}
  /\ program = "loop" =>
       /\ CalledFromTop(made)
       /\ \A i \in DOMAIN stack : NotYet(stack[i], made)
       /\ stack # <<>> /\ More => (Maker \in made <=> step \in {"read", "back"})

\* kFiniBeg is set for the makers but the top chain whose Finish is under way.
FiniBegInv == \A m \in Makers :
  "FiniBeg" \in bits[m] <=> m # Top /\ \E i \in Calls(stack, "finish") : stack[i].mk = m

\* Before an input has read a run no maker is in one.
BeforeInv == header = -2 => \A m \in Makers : begun[m] \notin Runs

ProtocolInv == CallsInv /\ InitedInv /\ OnceInv /\ FiniBegInv /\ BeforeInv

-----------------------------------------------------------------------------
\* Run numbers of real data are neither of the two marks.
LEMMA RunNumbers == \A r \in Runs : r \in Nat /\ r # -2 /\ r # -3
BY ParametersAssumption

\* Every step keeps it: a run is begun only with the number in the header.
LEMMA StepBeforeInv == IInv /\ BeforeInv /\ [Next]_vars => BeforeInv'
<1> SUFFICES ASSUME IInv, BeforeInv, [Next]_vars, header' = -2
             PROVE  \A m \in Makers : begun'[m] \notin Runs
  BY DEF BeforeInv
<1> USE DEF history, counters
<1>1. header = -2 /\ begun \in [Makers -> Runs \cup {-2, NoRun}] /\ -2 \notin Runs /\ -3 \notin Runs
  <2>1. begun \in [Makers -> Runs \cup {-2, NoRun}] /\ -2 \notin Runs /\ -3 \notin Runs
    BY RunNumbers DEF IInv, TypeInv
  <2>2. header' = header \/ header' \in Runs
    BY DEF Next, vars, InitMaker, InitChain, InitReturn, NewEvent, SkipInactive, BeginMaker, InitRun,
           MakeChain, ReadRun, EndMaker, EndChain, ReturnOK, EndEvent, EndLoop, Finish, Terminate,
           FinishTop, FinishMaker, FinishReturn, FinishAgain
  <2> QED
    BY <2>1, <2>2
<1>2. ASSUME NEW m, NEW r, begun' = [begun EXCEPT ![m] = r], r \notin Runs
      PROVE  \A n \in Makers : begun'[n] \notin Runs
  BY <1>1, <1>2 DEF BeforeInv
<1>3. CASE begun' = begun
  BY <1>1, <1>3 DEF BeforeInv
<1>4. ASSUME NEW m, NEW r, FinishRun(m, r) PROVE \A n \in Makers : begun'[n] \notin Runs
  <2>1. begun' = [begun EXCEPT ![m] = NoRun] /\ NoRun \notin Runs
    BY <1>1, <1>4 DEF FinishRun, NoRun
  <2> QED
    BY <1>2, <2>1
<1>5. CASE BeginMaker \/ Finish \/ Terminate \/ FinishMaker
  BY <1>3, <1>4, <1>5 DEF BeginMaker, Finish, Terminate, FinishMaker, FinishTop, FinishesRun
<1>6. CASE InitRun
  <2>1. begun' = [begun EXCEPT ![Maker] = header]
    BY <1>6 DEF InitRun
  <2> QED
    BY <1>1, <1>2, <2>1
<1>7. CASE ~ (BeginMaker \/ Finish \/ Terminate \/ FinishMaker \/ InitRun)
  BY <1>3, <1>7 DEF Next, vars, InitMaker, InitChain, InitReturn, NewEvent, SkipInactive,
         MakeChain, ReadRun, EndMaker, EndChain, ReturnOK, EndEvent, EndLoop,
         FinishReturn, FinishAgain
<1> QED
  BY <1>5, <1>6, <1>7

\* Where Finish has not begun, or all is over, no bit kFiniBeg may be left.
LEMMA NoFiniBeg ==
  ASSUME MakeInv, MakeInv', FiniBegInv, stack \in Seq(Frames), stack' \in Seq(Frames),
         program \in {"init", "loop"}, program' \in {"init", "loop"} \/ stack' = <<>>,
         \A m \in Makers : "FiniBeg" \in bits'[m] => "FiniBeg" \in bits[m]
  PROVE  FiniBegInv'
<1>1. Calls(stack, "finish") = {}
  BY NoCalls DEF MakeInv, PhaseInv
<1>2. Calls(stack', "finish") = {}
  BY NoCalls, EmptyStack DEF MakeInv, PhaseInv
<1> QED
  BY <1>1, <1>2 DEF FiniBegInv

\* Finish of the makers.
LEMMA MovedSame ==
  ASSUME NEW s \in Seq(Frames), s # <<>>
  PROVE  LET t == Moved(s, -1) IN
         /\ DOMAIN t = DOMAIN s /\ \A i \in DOMAIN s : t[i].mk = s[i].mk /\ t[i].op = s[i].op
<1>1. \A d \in Int : LET t == Moved(s, d) IN
        /\ DOMAIN t = DOMAIN s /\ \A i \in DOMAIN s : t[i].mk = s[i].mk /\ t[i].op = s[i].op
  BY MovedStack
<1>2. -1 \in Int
  OBVIOUS
<1> QED
  BY <1>1, <1>2

\* Every step keeps kFiniBeg and the calls of Finish in agreement.
LEMMA StepFiniBegInv == CallsInv /\ CallsInv' /\ FiniBegInv /\ [Next]_vars => FiniBegInv'
<1> SUFFICES ASSUME CallsInv, CallsInv', FiniBegInv, [Next]_vars PROVE FiniBegInv'
  OBVIOUS
<1> USE DEF history, counters
<1>a. /\ stack \in Seq(Frames) /\ stack' \in Seq(Frames)
      /\ bits \in [Makers -> SUBSET Bits] /\ Top \in Makers /\ MakeInv /\ MakeInv'
  BY TreeAssumption DEF CallsInv, IInv, TypeInv, Frames, MakeInv, BegunInv
<1>1. CASE InitMaker
  <2>1. \A m \in Makers : "FiniBeg" \in bits'[m] => "FiniBeg" \in bits[m]
    BY <1>1, <1>a DEF InitMaker, SetBit
  <2> QED
    BY <1>1, <1>a, <2>1, NoFiniBeg DEF InitMaker, InCall, Running
<1>2. CASE InitChain \/ InitReturn
  <2>1. \A m \in Makers : "FiniBeg" \in bits'[m] => "FiniBeg" \in bits[m]
    BY <1>2, <1>a DEF InitChain, InitReturn, SetBit, BitMoved
  <2> QED
    BY <1>2, <1>a, <2>1, NoFiniBeg DEF InitChain, InitReturn, InCall, Running
<1>3. CASE NewEvent \/ SkipInactive \/ InitRun \/ MakeChain \/ ReturnOK \/ \E r \in Runs : ReadRun(r)
  BY <1>3, <1>a, NoFiniBeg DEF NewEvent, SkipInactive, InitRun, MakeChain, ReturnOK, ReadRun, Step,
     InCall, Running
<1>4. CASE BeginMaker
  <2>1. \A m \in Makers : "FiniBeg" \in bits'[m] => "FiniBeg" \in bits[m]
    BY <1>4, <1>a DEF BeginMaker, SetBit
  <2> QED
    BY <1>4, <1>a, <2>1, NoFiniBeg DEF BeginMaker, Step, InCall, Running
<1>5. ASSUME EndChain \/ \E r \in Codes : EndMaker(r) PROVE FiniBegInv'
  <2>1. \A m \in Makers : "FiniBeg" \in bits'[m] => "FiniBeg" \in bits[m]
    BY <1>5, <1>a DEF EndChain, EndMaker, AfterMaker
  <2> QED
    BY <1>5, <1>a, <2>1, NoFiniBeg DEF EndChain, EndMaker, Step, InCall, Running
<1>6. CASE EndEvent \/ EndLoop
  BY <1>6, <1>a, NoFiniBeg DEF EndEvent, EndLoop
<1>7. CASE FinishTop /\ Calls(stack, "finish") = {}
  <2> DEFINE f == [mk |-> Top, op |-> "finish", at |-> Len(Kids[Top])]
  <2>1. /\ stack' = <<f>> \o stack /\ f \in Frames /\ f.op = "finish" /\ f.mk = Top
        /\ bits' = bits
    BY <1>7, <1>a, KidsLength DEF FinishTop, Push, Frames
  <2> HIDE DEF f
  <2>2. stack'[1] = f /\ Calls(stack', "finish") = {1}
    BY <1>7, <1>a, <2>1, StartLinked, PushedStack
  <2> QED
    BY <1>7, <2>1, <2>2 DEF FiniBegInv
<1>8. CASE Finish \/ Terminate
  <2>1. Calls(stack, "finish") = {}
    BY <1>8, <1>a, NoCalls, EmptyStack DEF Finish, Terminate, MakeInv, PhaseInv
  <2> QED
    BY <1>7, <1>8, <2>1 DEF Finish, Terminate
<1>9. CASE FinishMaker
  <2>1. /\ stack # <<>> /\ Frame.op = "finish" /\ More /\ Maker \in Makers /\ Frame = stack[1]
    BY <1>9, <1>a, MakerType DEF FinishMaker, InCall, Frame
  <2>2. Maker # Top
    <3>1. stack[1] \in Frames
      BY <1>a, <2>1
    <3> QED
      BY <2>1, <3>1, OneParent DEF Frames, More, Maker
  <2>3. CASE IsChain(Maker)
    <3> DEFINE f == [mk |-> Maker, op |-> "finish", at |-> Len(Kids[Maker])]
    <3>1. stack' = <<f>> \o stack /\ f \in Frames /\ f.op = "finish" /\ f.mk = Maker
      BY <1>9, <2>1, <2>3, KidsLength DEF FinishMaker, Push, Frames
    <3> HIDE DEF f
    <3>2. \A m : (\E i \in Calls(stack', "finish") : stack'[i].mk = m)
                   <=> m = Maker \/ \E i \in Calls(stack, "finish") : stack[i].mk = m
      <4>1. /\ DOMAIN stack' = 1 .. Len(stack) + 1 /\ stack'[1] = f
            /\ DOMAIN stack = 1 .. Len(stack) /\ Len(stack) \in Nat
            /\ \A i \in DOMAIN stack : stack'[i + 1] = stack[i]
            /\ \A i \in DOMAIN stack' : i # 1 => i - 1 \in DOMAIN stack /\ stack'[i] = stack[i - 1]
        BY <1>a, <3>1, PushedStack
      <4>2. 1 \in DOMAIN stack' /\ \A i \in DOMAIN stack : i + 1 \in DOMAIN stack'
        BY <4>1
      <4> QED
        BY <3>1, <4>1, <4>2 DEF Calls
    <3>3. \A m \in Makers : "FiniBeg" \in bits'[m] <=> m = Maker \/ "FiniBeg" \in bits[m]
      BY <1>9, <1>a, <2>1, <2>3 DEF FinishMaker, SetBit
    <3> QED
      BY <2>2, <3>2, <3>3 DEF FiniBegInv
  <2>4. CASE ~ IsChain(Maker)
    <3>1. stack' = Moved(stack, -1)
      BY <1>9, <1>a, <2>1, <2>4, ForwardBackward DEF FinishMaker
    <3>2. DOMAIN stack' = DOMAIN stack /\ \A i \in DOMAIN stack : stack'[i].mk = stack[i].mk /\ stack'[i].op = stack[i].op
      BY <1>a, <2>1, <3>1, MovedSame
    <3>3. \A m \in Makers : "FiniBeg" \in bits'[m] <=> "FiniBeg" \in bits[m]
      BY <1>9, <1>a, <2>1, <2>4 DEF FinishMaker, SetBit
    <3> QED
      BY <3>2, <3>3 DEF FiniBegInv, Calls
  <2> QED
    BY <2>3, <2>4
<1>10. CASE FinishReturn
  <2>1. /\ stack # <<>> /\ Frame.op = "finish" /\ Frame = stack[1] /\ 1 \in DOMAIN stack
        /\ Frame.mk \in Makers
    <3>1. /\ stack # <<>> /\ Frame.op = "finish" /\ Frame = stack[1] /\ 1 \in DOMAIN stack
      BY <1>10, <1>a DEF FinishReturn, InCall, Frame
    <3>2. stack[1] \in Frames
      BY <1>a, <3>1
    <3> QED
      BY <3>1, <3>2 DEF Frames
  <2>2. Linked(stack, "finish") /\ 1 \in Calls(stack, "finish")
    BY <1>a, <2>1 DEF MakeInv, LinkInv, Calls
  <2>3. \A m \in Makers : "FiniBeg" \in bits'[m] <=> m # Frame.mk /\ "FiniBeg" \in bits[m]
    BY <1>10, <1>a, <2>1 DEF FinishReturn, BitMoved
  <2>4. \A m : (\E i \in Calls(stack, "finish") : stack[i].mk = m) /\ m # Frame.mk
                 <=> \E i \in Calls(stack, "finish") : i # 1 /\ stack[i].mk = m
    BY <2>1, <2>2 DEF Linked
  <2>5. CASE Len(stack) > 1 /\ stack[2].op = "finish"
    <3> DEFINE t == Tail(stack)
    <3>1. t \in Seq(Frames) /\ t # <<>> /\ stack' = Moved(t, -1)
      <4>1. Len(stack) # 1
        BY <2>5
      <4>2. t \in Seq(Frames) /\ t # <<>>
        BY <1>a, <2>1, <4>1, NonemptyTail
      <4>3. stack' = Backward(t)
        BY <1>10, <2>5 DEF FinishReturn
      <4> QED
        BY <4>2, <4>3, ForwardBackward
    <3> HIDE DEF t
    <3>2. DOMAIN stack' = DOMAIN t /\ \A i \in DOMAIN t : stack'[i].mk = t[i].mk /\ stack'[i].op = t[i].op
      BY <3>1, MovedSame
    <3>3. /\ DOMAIN t = 1 .. Len(stack) - 1 /\ DOMAIN stack = 1 .. Len(stack) /\ Len(stack) \in Nat
          /\ \A i \in DOMAIN t : i + 1 \in DOMAIN stack /\ t[i] = stack[i + 1]
      BY <1>a, <2>1, PoppedStack DEF t
    <3>4. \A m : (\E i \in Calls(stack', "finish") : stack'[i].mk = m)
                   <=> \E i \in Calls(stack, "finish") : i # 1 /\ stack[i].mk = m
      <4>1. \A i \in DOMAIN t : i + 1 \in DOMAIN stack /\ i + 1 # 1 /\ stack'[i].mk = stack[i + 1].mk
                                /\ stack'[i].op = stack[i + 1].op
        BY <3>2, <3>3
      <4>2. \A i \in DOMAIN stack : i # 1 => i - 1 \in DOMAIN t /\ (i - 1) + 1 = i
        BY <3>3
      <4> QED
        BY <3>2, <4>1, <4>2 DEF Calls
    <3> QED
      BY <2>3, <2>4, <3>4 DEF FiniBegInv
  <2>6. CASE ~ (Len(stack) > 1 /\ stack[2].op = "finish")
    <3>1. stack' = <<>>
      BY <1>10, <2>6 DEF FinishReturn
    <3>2. \A i \in Calls(stack, "finish") : i = 1
      <4> SUFFICES ASSUME NEW i \in Calls(stack, "finish"), i # 1 PROVE FALSE
        OBVIOUS
      <4>1. i \in 1 .. Len(stack) /\ Len(stack) \in Nat
        BY <1>a DEF Calls
      <4>2. 2 \in 1 .. i
        BY <4>1
      <4>3. 2 \in Calls(stack, "finish")
        BY <2>2, <4>2 DEF Linked
      <4> QED
        BY <2>6, <4>1, <4>3 DEF Calls
    <3> QED
      BY <2>3, <2>4, <3>1, <3>2, EmptyStack DEF FiniBegInv
  <2> QED
    BY <2>5, <2>6
<1>11. CASE UNCHANGED vars \/ FinishAgain
  BY <1>11 DEF vars, FinishAgain, FiniBegInv
<1> QED
  BY <1>1, <1>2, <1>3, <1>4, <1>5, <1>6, <1>8, <1>9, <1>10, <1>11 DEF Next

-----------------------------------------------------------------------------
\* Init of the makers.

\* The innermost loop goes on, past a maker that is initialised now.
LEMMA InitedForward ==
  ASSUME NEW s \in Seq(Frames), s # <<>>, NEW D, NEW E, D \subseteq E,
         \A i \in DOMAIN s : InitedBefore(s[i], D),
         s[1].at \in DOMAIN Kids[s[1].mk] => Kids[s[1].mk][s[1].at] \in E
  PROVE  \A i \in DOMAIN Forward(s) : InitedBefore(Forward(s)[i], E)
<1> DEFINE t == Forward(s)
<1>1. /\ DOMAIN t = DOMAIN s /\ 1 \in DOMAIN s /\ t[1].mk = s[1].mk /\ t[1].at = s[1].at + 1
      /\ \A i \in DOMAIN s : i # 1 => t[i] = s[i]
  <2>1. PICK d \in Int : d = 1 /\ t = Moved(s, d)
    BY ForwardBackward
  <2> HIDE DEF t
  <2> QED
    BY <2>1, MovedStack
<1> HIDE DEF t
<1>2. s[1].mk \in Makers /\ s[1].at \in Int
  <2>1. s[1] \in Frames
    BY <1>1
  <2> QED
    BY <2>1 DEF Frames
<1>3. \A i \in DOMAIN s : InitedBefore(s[i], E)
  BY DEF InitedBefore
<1>4. InitedBefore(t[1], E)
  <2>1. ASSUME NEW k \in DOMAIN Kids[s[1].mk], k < s[1].at + 1
        PROVE  Kids[s[1].mk][k] \in E
    <3>1. k \in Nat
      BY <1>2, <2>1, Lengths
    <3>2. k = s[1].at \/ k < s[1].at
      BY <1>2, <2>1, <3>1
    <3> QED
      BY <1>1, <1>3, <2>1, <3>2 DEF InitedBefore
  <2>2. s[1].at >= 1
    BY <1>1, <1>3 DEF InitedBefore
  <2> QED
    BY <1>1, <1>2, <2>1, <2>2 DEF InitedBefore
<1> QED
  BY <1>1, <1>3, <1>4 DEF t

\* The loops that run are of the same makers after it.
LEMMA SameMakers ==
  ASSUME NEW s \in Seq(Frames), s # <<>>
  PROVE  DOMAIN Forward(s) = DOMAIN s /\ \A i \in DOMAIN s : Forward(s)[i].mk = s[i].mk
<1> DEFINE t == Forward(s)
<1>1. PICK d \in Int : d = 1 /\ t = Moved(s, d)
  BY ForwardBackward
<1> HIDE DEF t
<1>2. DOMAIN t = DOMAIN s /\ \A i \in DOMAIN s : t[i].mk = s[i].mk
  BY <1>1, MovedStack
<1> QED
  BY <1>2 DEF t

\* Going on keeps the calls linked.
LEMMA ForwardLinked ==
  ASSUME NEW s \in Seq(Frames), s # <<>>, NEW op, Linked(s, op)
  PROVE  Linked(Forward(s), op)
<1>1. PICK d \in Int : d = 1 /\ Forward(s) = Moved(s, d)
  BY ForwardBackward
<1>2. Linked(Moved(s, d), op)
  BY MoveLinked
<1> QED
  BY <1>1, <1>2

\* Every step keeps what Init has reached; the event loop begins with all done.
LEMMA StepInitedInv == CallsInv /\ CallsInv' /\ InitedInv /\ [Next]_vars => InitedInv'
<1> SUFFICES ASSUME CallsInv, CallsInv', InitedInv, [Next]_vars PROVE InitedInv'
  OBVIOUS
<1> USE DEF history, counters
<1>a. /\ stack \in Seq(Frames) /\ stack' \in Seq(Frames)
      /\ bits \in [Makers -> SUBSET Bits] /\ Top \in Makers /\ MakeInv /\ MakeInv'
      /\ \A i \in DOMAIN stack : stack[i] \in Frames /\ stack[i].mk \in Makers /\ stack[i].at \in Int
  <2>1. stack \in Seq(Frames)
    BY DEF CallsInv, IInv, TypeInv, Frames
  <2>2. \A i \in DOMAIN stack : stack[i] \in Frames
    BY <2>1
  <2> QED
    BY <2>1, <2>2, TreeAssumption DEF CallsInv, IInv, TypeInv, Frames, MakeInv, BegunInv
<1>b. \A m \in Makers : \A k \in DOMAIN Kids[m] : Kids[m][k] \in Makers
  BY KidsAreMakers
<1>1. CASE program' \notin {"init", "loop"}
  BY <1>1 DEF InitedInv
\* In the event loop the bits of Init stay.
<1>2. ASSUME program = "loop", program' = "loop", Inited' = Inited,
             \A i \in DOMAIN stack' : stack'[i].mk \in Inited \cup {Top}
      PROVE  InitedInv'
  BY <1>2 DEF InitedInv, WithKids
<1>3. ASSUME program = "init"
      PROVE  /\ \A i \in DOMAIN stack : stack[i].op = "init" /\ InitedBefore(stack[i], Inited)
             /\ Linked(stack, "init") /\ WithKids(Inited)
             /\ stack # <<>> => stack[1] = Frame /\ 1 \in DOMAIN stack
  BY <1>3, <1>a DEF MakeInv, PhaseInv, InitedInv, Frame
\* A maker becomes initialised whose makers are.
<1>4. ASSUME program = "init", NEW c \in Makers, \A k \in DOMAIN Kids[c] : Kids[c][k] \in Inited,
             Inited' = Inited \cup {c}
      PROVE  WithKids(Inited')
  BY <1>3, <1>4 DEF WithKids
<1>5. CASE InitMaker /\ program' = "init"
  <2>1. /\ program = "init" /\ stack # <<>> /\ More /\ ~ IsChain(Maker) /\ Maker \in Makers
        /\ stack' = Forward(stack) /\ bits' = SetBit(Maker, "InitEnd")
    BY <1>5, <1>a, MakerType DEF InitMaker, InCall, Running
  <2>2. DOMAIN Kids[Maker] = {}
    BY <2>1, EmptyStack DEF IsChain, Chains
  <2>3. Inited' = Inited \cup {Maker}
    BY <1>a, <2>1 DEF SetBit, Inited
  <2>4. WithKids(Inited')
    BY <1>4, <2>1, <2>2, <2>3
  <2>5. stack[1].at \in DOMAIN Kids[stack[1].mk] => Kids[stack[1].mk][stack[1].at] \in Inited'
    BY <1>3, <2>1, <2>3 DEF Maker
  <2>6. \A i \in DOMAIN stack' : InitedBefore(stack'[i], Inited')
    <3>1. Inited \subseteq Inited' /\ \A i \in DOMAIN stack : InitedBefore(stack[i], Inited)
      BY <1>3, <2>1, <2>3
    <3> HIDE DEF Inited
    <3> QED
      BY <1>a, <2>1, <2>5, <3>1, InitedForward
  <2>7. Linked(stack', "init")
    BY <1>3, <1>a, <2>1, ForwardLinked
  <2> QED
    BY <1>5, <2>4, <2>6, <2>7 DEF InitedInv
<1>6. CASE InitChain
  <2>1. program = "init" /\ stack # <<>> /\ More /\ Maker \in Makers
    BY <1>6, <1>a, MakerType DEF InitChain, InCall, Running
  <2> DEFINE f == [mk |-> Maker, op |-> "init", at |-> 1]
  <2>2. /\ stack' = <<f>> \o stack /\ f \in Frames /\ f.op = "init" /\ f.mk = Maker /\ f.at = 1
        /\ bits' = SetBit(Maker, "InitBeg") /\ program' = program
    BY <1>6, <2>1 DEF InitChain, Push, Frames
  <2> HIDE DEF f
  <2>3. Inited' = Inited
    BY <1>a, <2>1, <2>2 DEF SetBit, Inited
  <2>4. Linked(stack', "init")
    <3>1. stack[1].op = "init" /\ stack[1].at \in DOMAIN Kids[stack[1].mk] /\ f.mk = Kids[stack[1].mk][stack[1].at]
      BY <1>3, <2>1, <2>2 DEF More, Maker
    <3>2. Linked(<<f>> \o stack, "init")
      BY <1>3, <1>a, <2>1, <2>2, <3>1, PushLinked
    <3> QED
      BY <2>2, <3>2
  <2>5. InitedBefore(f, Inited)
    <3>1. \A k \in DOMAIN Kids[Maker] : ~ (k < 1)
      BY <2>1, Lengths
    <3> QED
      BY <2>2, <3>1 DEF InitedBefore
  <2>6. \A i \in DOMAIN stack' : stack'[i] = f \/ \E j \in DOMAIN stack : stack'[i] = stack[j]
    BY <1>a, <2>2, PushedStack
  <2>7. \A i \in DOMAIN stack' : InitedBefore(stack'[i], Inited)
    BY <1>3, <2>1, <2>5, <2>6
  <2> QED
    BY <1>3, <2>1, <2>2, <2>3, <2>4, <2>7 DEF InitedInv
<1>7. CASE InitReturn
  <2>1. /\ program = "init" /\ stack # <<>> /\ ~ More /\ Frame = stack[1] /\ 1 \in DOMAIN stack
        /\ InitedBefore(stack[1], Inited)
    BY <1>3, <1>7 DEF InitReturn, InCall, Running
  <2> DEFINE c == Frame.mk
  <2>2. c \in Makers /\ Frame.at \in Int /\ stack[1] \in Frames
    BY <1>a, <2>1
  <2>3. \A k \in DOMAIN Kids[c] : Kids[c][k] \in Inited
    <3>1. \A k \in DOMAIN Kids[c] : k < Frame.at
      BY <2>1, <2>2, Lengths DEF More, InitedBefore
    <3> QED
      BY <2>1, <3>1 DEF InitedBefore
  <2>4. CASE Len(stack) = 1
    <3>1. stack' = <<>> /\ program' = "loop" /\ bits' = bits
      BY <1>7, <2>4 DEF InitReturn
    <3>2. c = Top
      <4>1. 1 \in Calls(stack, "init") /\ 1 + 1 \notin Calls(stack, "init")
        BY <1>3, <1>a, <2>1, <2>4 DEF Calls
      <4> QED
        BY <1>3, <2>1, <4>1 DEF Linked
    <3>3. \A k \in DOMAIN Kids[Top] : Kids[Top][k] \in Inited
      BY <2>3, <3>2
    <3>4. Inited' = Inited /\ WithKids(Inited)
      BY <1>3, <2>1, <3>1 DEF Inited
    <3> QED
      BY <3>1, <3>3, <3>4, EmptyStack DEF InitedInv
  <2>5. CASE Len(stack) # 1
    <3> DEFINE t == Tail(stack)
    <3>1. t \in Seq(Frames) /\ t # <<>>
      BY <1>a, <2>1, <2>5, NonemptyTail
    <3>2. /\ stack' = Forward(t) /\ program' = "init"
          /\ bits' = BitMoved(c, "InitBeg", "InitEnd")
      BY <1>7, <2>1, <2>5 DEF InitReturn
    <3>3. /\ t[1].at \in DOMAIN Kids[t[1].mk] /\ c = Kids[t[1].mk][t[1].at]
      <4>1. \A i \in DOMAIN stack : stack[i].op = "init"
        BY <1>3, <2>1
      <4>2. /\ Head(t) = stack[2]
            /\ stack[2].at \in DOMAIN Kids[stack[2].mk] /\ stack[1].mk = Kids[stack[2].mk][stack[2].at]
        BY <1>3, <1>a, <2>1, <3>1, <4>1, Returning
      <4>3. t[1] = Head(t)
        BY <3>1
      <4> QED
        BY <2>1, <4>2, <4>3
    <3>4. /\ \A i \in DOMAIN t : InitedBefore(t[i], Inited)
          /\ Linked(t, "init")
      <4>1. Linked(t, "init")
        BY <1>3, <1>a, <2>1, PopLinked
      <4>2. \A i \in DOMAIN t : i + 1 \in DOMAIN stack /\ t[i] = stack[i + 1]
        BY <1>a, <2>1, PoppedStack
      <4> QED
        BY <1>3, <2>1, <4>1, <4>2
    <3> HIDE DEF t
    <3>5. Inited' = Inited \cup {c}
      BY <1>a, <2>2, <3>2 DEF BitMoved, Inited
    <3> HIDE DEF c
    <3>6. WithKids(Inited')
      BY <1>4, <2>1, <2>2, <2>3, <3>5
    <3>7. \A i \in DOMAIN stack' : InitedBefore(stack'[i], Inited')
      <4>1. Inited \subseteq Inited' /\ Kids[t[1].mk][t[1].at] \in Inited'
        BY <3>3, <3>5
      <4> HIDE DEF Inited
      <4> QED
        BY <3>1, <3>2, <3>4, <4>1, InitedForward
    <3>8. Linked(stack', "init")
      BY <3>1, <3>2, <3>4, ForwardLinked
    <3> QED
      BY <3>2, <3>6, <3>7, <3>8 DEF InitedInv
  <2> QED
    BY <2>4, <2>5
<1>8. ASSUME program = "loop"
      PROVE  \A i \in DOMAIN stack : stack[i].mk \in Inited \cup {Top}
  BY <1>8 DEF InitedInv
<1>9. ASSUME program = "loop", program' = "loop", stack # <<>>, stack' \in {stack, Forward(stack), Tail(stack)},
             Inited' = Inited
      PROVE  InitedInv'
  <2>1. \A i \in DOMAIN stack' : \E j \in DOMAIN stack : stack'[i].mk = stack[j].mk
    <3>1. CASE stack' = stack
      BY <3>1
    <3>2. CASE stack' = Forward(stack)
      BY <1>a, <1>9, <3>2, SameMakers
    <3>3. CASE stack' = Tail(stack)
      BY <1>a, <1>9, <3>3, PoppedStack
    <3> QED
      BY <1>9, <3>1, <3>2, <3>3
  <2> QED
    BY <1>2, <1>8, <1>9, <2>1
<1>10. CASE NewEvent
  <2> DEFINE f == [mk |-> Top, op |-> "make", at |-> 1]
  <2>1. /\ program = "loop" /\ program' = "loop" /\ stack = <<>> /\ bits' = bits
        /\ stack' = <<f>> \o stack /\ f \in Frames /\ f.mk = Top
    BY <1>10, <1>a DEF NewEvent, Push, Frames
  <2> HIDE DEF f
  <2>2. \A i \in DOMAIN stack' : stack'[i].mk = Top
    BY <1>a, <2>1, PushedStack, EmptyStack
  <2> QED
    BY <1>2, <2>1, <2>2 DEF Inited
<1>11. CASE SkipInactive \/ ReturnOK \/ InitRun \/ \E r \in Runs : ReadRun(r)
  <2>1. /\ program = "loop" /\ program' = "loop" /\ stack # <<>> /\ bits' = bits
        /\ stack' \in {stack, Forward(stack), Tail(stack)}
    BY <1>11 DEF SkipInactive, ReturnOK, InitRun, ReadRun, Step, InCall, Running, Returned
  <2> QED
    BY <1>9, <2>1 DEF Inited
<1>12. CASE BeginMaker
  <2>1. Inited' = Inited
    BY <1>12, <1>a DEF BeginMaker, SetBit, Inited
  <2> QED
    BY <1>9, <1>12, <2>1 DEF BeginMaker, Step, InCall, Running
<1>13. ASSUME EndChain \/ \E r \in Codes : EndMaker(r) PROVE InitedInv'
  <2>1. PICK r : AfterMaker(Maker, r) /\ program = "loop" /\ program' = "loop" /\ stack # <<>>
    BY <1>13 DEF EndChain, EndMaker, Step, InCall, Running
  <2>2. Inited' = Inited
    BY <1>a, <2>1 DEF AfterMaker, Inited
  <2> QED
    BY <1>9, <2>1, <2>2 DEF AfterMaker, Returned
<1>14. CASE MakeChain
  <2>1. InCall("make") /\ program = "loop" /\ program' = "loop" /\ step = "make" /\ bits' = bits
    BY <1>14 DEF MakeChain, Step, InCall, Running
  <2>2. /\ stack # <<>> /\ 1 \in DOMAIN stack
        /\ Maker \in Makers /\ stack[1].at \in DOMAIN Kids[stack[1].mk]
        /\ Maker = Kids[stack[1].mk][stack[1].at]
    BY <2>1, MakeCall DEF CallsInv, IInv, AtMakerInv
  <2>3. Maker \in Inited
    BY <1>8, <2>1, <2>2 DEF InitedInv, WithKids
  <2> DEFINE f == [mk |-> Maker, op |-> "make", at |-> 1]
  <2>4. stack' = <<f>> \o stack /\ f \in Frames /\ f.mk = Maker
    BY <1>14, <2>2 DEF MakeChain, Push, Frames
  <2> HIDE DEF f
  <2>5. \A i \in DOMAIN stack' : stack'[i].mk = Maker \/ \E j \in DOMAIN stack : stack'[i].mk = stack[j].mk
    BY <1>a, <2>4, PushedStack
  <2>6. Inited' = Inited
    BY <2>1 DEF Inited
  <2> QED
    BY <1>2, <1>8, <2>1, <2>3, <2>5, <2>6
<1>15. CASE EndEvent /\ program' = "loop"
  <2>1. program = "loop" /\ UNCHANGED <<stack, bits>> /\ stack = <<>>
    BY <1>15 DEF EndEvent
  <2>2. Inited' = Inited
    BY <2>1 DEF Inited
  <2> QED
    BY <1>2, <1>15, <2>1, <2>2, EmptyStack
<1>16. CASE UNCHANGED vars \/ FinishAgain
  <2>1. UNCHANGED <<program, stack, bits>>
    BY <1>16 DEF vars, FinishAgain
  <2>2. Inited' = Inited
    BY <2>1 DEF Inited
  <2> QED
    BY <2>1, <2>2 DEF InitedInv
<1>17. CASE EndLoop \/ Finish \/ Terminate \/ FinishMaker \/ FinishReturn
  BY <1>1, <1>17 DEF EndLoop, Finish, Terminate, FinishMaker, FinishReturn, FinishTop, InCall, Running
<1>18. /\ InitMaker => program' \in {"init", "finish"}
       /\ EndEvent => program' \in {"loop", "finish"}
  BY DEF InitMaker, EndEvent, InCall, Running
<1> QED
  BY <1>1, <1>5, <1>6, <1>7, <1>10, <1>11, <1>12, <1>13, <1>14, <1>15, <1>16, <1>17, <1>18 DEF Next

-----------------------------------------------------------------------------
\* Who has been called in this event.

\* The current maker of the innermost loop is called.
LEMMA CalledNow ==
  ASSUME NEW s \in Seq(Frames), s # <<>>, Linked(s, "make"), \A i \in DOMAIN s : s[i].op = "make",
         s[1].at \in DOMAIN Kids[s[1].mk], NEW c, c = Kids[s[1].mk][s[1].at],
         NEW D, CalledFromTop(D), \A i \in DOMAIN s : NotYet(s[i], D)
  PROVE  /\ CalledFromTop(D \cup {c}) /\ \A i \in DOMAIN s : NotYet(s[i], D \cup {c})
         /\ c \notin D => \A k \in DOMAIN Kids[c] : Kids[c][k] \notin D \cup {c}
<1>1. /\ 1 \in DOMAIN s /\ 1 \in Calls(s, "make") /\ \A i \in DOMAIN s : i \in Calls(s, "make")
      /\ \A i \in DOMAIN s : s[i].mk \in Makers /\ s[i].at \in Int
  <2>1. 1 \in DOMAIN s /\ \A i \in DOMAIN s : s[i] \in Frames
    OBVIOUS
  <2> QED
    BY <2>1 DEF Calls, Frames
<1>2. c \in Makers /\ c # Top /\ \A i \in DOMAIN s : s[i].mk # c
  <2>1. c \in Makers /\ c # Top
    BY <1>1, OneParent
  <2> QED
    BY <1>1, <2>1, CurrentUncalled
<1>3. \A m \in Makers : \A k \in DOMAIN Kids[m] : Kids[m][k] = c => m = s[1].mk /\ k = s[1].at
  BY <1>1, OneParent
<1>4. CalledFromTop(D \cup {c})
  BY <1>1, <1>3 DEF CalledFromTop, NotYet
<1>5. ASSUME NEW i \in DOMAIN s PROVE NotYet(s[i], D \cup {c})
  <2>1. ASSUME NEW k \in DOMAIN Kids[s[i].mk], k > s[i].at PROVE Kids[s[i].mk][k] # c
    <3>1. ASSUME Kids[s[i].mk][k] = c PROVE FALSE
      <4>1. s[i].mk = s[1].mk /\ k = s[1].at
        BY <1>1, <1>3, <3>1
      <4>2. i = 1
        BY <1>1, <4>1 DEF Linked
      <4> QED
        BY <1>1, <2>1, <4>1, <4>2
    <3> QED
      BY <3>1
  <2> QED
    BY <1>5, <2>1 DEF NotYet
<1>6. ASSUME c \notin D, NEW k \in DOMAIN Kids[c] PROVE Kids[c][k] \notin D \cup {c}
  <2>1. Kids[c][k] \notin D
    BY <1>2, <1>6 DEF CalledFromTop
  <2>2. Kids[c][k] # c
    BY <1>1, <1>2, <1>3
  <2> QED
    BY <2>1, <2>2
<1> QED
  BY <1>4, <1>5, <1>6

\* The loop goes on to its next maker.
LEMMA ForwardNotYet ==
  ASSUME NEW s \in Seq(Frames), s # <<>>, NEW D, \A i \in DOMAIN s : NotYet(s[i], D)
  PROVE  /\ \A i \in DOMAIN Forward(s) : NotYet(Forward(s)[i], D)
         /\ Forward(s)[1].at \in DOMAIN Kids[Forward(s)[1].mk] =>
               Kids[Forward(s)[1].mk][Forward(s)[1].at] \notin D
<1> DEFINE t == Forward(s)
<1>1. /\ DOMAIN t = DOMAIN s /\ 1 \in DOMAIN s /\ t[1].mk = s[1].mk /\ t[1].at = s[1].at + 1
      /\ \A i \in DOMAIN s : i # 1 => t[i] = s[i]
  <2>1. PICK d \in Int : d = 1 /\ t = Moved(s, d)
    BY ForwardBackward
  <2> HIDE DEF t
  <2> QED
    BY <2>1, MovedStack
<1> HIDE DEF t
<1>2. s[1].mk \in Makers /\ s[1].at \in Int /\ NotYet(s[1], D)
  <2>1. s[1] \in Frames
    BY <1>1
  <2> QED
    BY <1>1, <2>1 DEF Frames
<1>3. \A k \in DOMAIN Kids[s[1].mk] : k \in Int
  BY <1>2, Lengths
<1>4. \A k \in Int : k > s[1].at + 1 => k > s[1].at
  BY <1>2
<1>5. s[1].at + 1 > s[1].at
  BY <1>2
<1>6. NotYet(t[1], D)
  BY <1>1, <1>2, <1>3, <1>4 DEF NotYet
<1>7. t[1].at \in DOMAIN Kids[t[1].mk] => Kids[t[1].mk][t[1].at] \notin D
  BY <1>1, <1>2, <1>5 DEF NotYet
<1> QED
  BY <1>1, <1>6, <1>7 DEF t

\* A loop goes on or returns: its maker was called, the next one was not.
LEMMA OnceForward ==
  ASSUME stack \in Seq(Frames), stack # <<>>, CalledFromTop(made'),
         \A i \in DOMAIN stack : NotYet(stack[i], made'),
         stack' = Forward(stack), step' = "look", program' = "loop"
  PROVE  OnceInv'
<1> DEFINE t == Forward(stack)
           E == made'
<1>1. /\ \A i \in DOMAIN t : NotYet(t[i], E)
      /\ t[1].at \in DOMAIN Kids[t[1].mk] => Kids[t[1].mk][t[1].at] \notin E
  <2>1. \A i \in DOMAIN stack : NotYet(stack[i], E)
    OBVIOUS
  <2> HIDE DEF E
  <2> QED
    BY <2>1, ForwardNotYet
<1>2. stack' = t
  OBVIOUS
<1> HIDE DEF t
<1>3. /\ CalledFromTop(E) /\ \A i \in DOMAIN stack' : NotYet(stack'[i], E)
      /\ stack'[1].at \in DOMAIN Kids[stack'[1].mk] => Kids[stack'[1].mk][stack'[1].at] \notin E
  BY <1>1, <1>2
<1>4. stack' # <<>> /\ More' => ~ (Maker' \in made')
  BY <1>3 DEF More, Maker, Frame
<1> QED
  BY <1>3, <1>4 DEF OnceInv, NotYet, CalledFromTop

\* and one that returns has been called itself.
LEMMA OnceReturn ==
  ASSUME CallsInv, InCall("make"), CalledFromTop(made'),
         \A i \in DOMAIN stack : NotYet(stack[i], made'),
         stack' = Tail(stack), step' = "back", program' = "loop"
  PROVE  OnceInv'
<1> DEFINE t == Tail(stack)
<1>1. /\ stack \in Seq(Frames) /\ stack # <<>> /\ \A i \in DOMAIN stack : stack[i].op = "make"
      /\ Linked(stack, "make") /\ 1 \in DOMAIN stack
  BY MakeCall DEF CallsInv
<1>2. \A i \in DOMAIN t : NotYet(t[i], made')
  BY <1>1, PoppedStack
<1>3. ASSUME t # <<>> PROVE Kids[t[1].mk][t[1].at] \in made'
  <2>1. /\ t \in Seq(Frames) /\ Head(t) = stack[2] /\ 2 \in DOMAIN stack
        /\ stack[2].at \in DOMAIN Kids[stack[2].mk] /\ stack[1].mk = Kids[stack[2].mk][stack[2].at]
    BY <1>1, <1>3, Returning
  <2>2. stack[2].mk \in Makers
    <3>1. stack[2] \in Frames
      BY <1>1, <2>1
    <3> QED
      BY <3>1 DEF Frames
  <2>3. stack[1].mk # Top
    BY <2>1, <2>2, OneParent
  <2>4. stack[1].mk \in made'
    BY <1>1, <2>3 DEF NotYet
  <2>5. t[1] = stack[2]
    BY <1>3, <2>1
  <2> QED
    BY <2>1, <2>4, <2>5
<1>4. stack' = t
  OBVIOUS
<1> HIDE DEF t
<1>5. stack' # <<>> => Maker' \in made'
  <2>1. stack' # <<>> => stack'[1] = Head(stack')
    BY <1>4
  <2> QED
    BY <1>3, <1>4, <2>1 DEF Maker, Frame
<1> QED
  BY <1>2, <1>4, <1>5 DEF OnceInv, NotYet, CalledFromTop

\* Every step of a loop calls a maker at most once.
LEMMA StepOnceInv == CallsInv /\ CallsInv' /\ OnceInv /\ [Next]_vars => OnceInv'
<1> SUFFICES ASSUME CallsInv, CallsInv', OnceInv, [Next]_vars PROVE OnceInv'
  OBVIOUS
<1> USE DEF history, counters
<1>a. stack \in Seq(Frames)
  BY DEF CallsInv, IInv, TypeInv, Frames
\* In a call of Make the maker that is called now was not, nor were its makers.
<1>b. ASSUME InCall("make")
      PROVE  /\ program = "loop" /\ stack # <<>> /\ CalledFromTop(made)
             /\ \A i \in DOMAIN stack : NotYet(stack[i], made)
  BY <1>b DEF InCall, Running, OnceInv
<1>c. ASSUME InCall("make"), More, made' = made \cup {Maker}
      PROVE  CalledFromTop(made') /\ \A i \in DOMAIN stack : NotYet(stack[i], made')
  <2>1. /\ stack # <<>> /\ \A i \in DOMAIN stack : stack[i].op = "make"
        /\ Linked(stack, "make") /\ stack[1].at \in DOMAIN Kids[stack[1].mk]
        /\ Maker = Kids[stack[1].mk][stack[1].at]
    BY <1>c, MakeCall DEF CallsInv
  <2>2. CalledFromTop(made \cup {Maker}) /\ \A i \in DOMAIN stack : NotYet(stack[i], made \cup {Maker})
    BY <1>a, <1>b, <1>c, <2>1, CalledNow
  <2> QED
    BY <1>c, <2>2
<1>1. CASE program' = "init"
  BY <1>1 DEF Next, vars, InitMaker, InitChain, InitReturn, NewEvent, SkipInactive, BeginMaker, InitRun,
     MakeChain, ReadRun, EndMaker, EndChain, ReturnOK, EndEvent, EndLoop, Finish, Terminate,
     FinishTop, FinishMaker, FinishReturn, FinishAgain, OnceInv, Step, InCall, Running
<1>2. CASE program' \notin {"init", "loop"}
  BY <1>2 DEF OnceInv
<1>3. CASE NewEvent
  <2> DEFINE f == [mk |-> Top, op |-> "make", at |-> 1]
  <2>1. /\ program' = "loop" /\ stack = <<>> /\ made' = {} /\ step' = "look"
        /\ stack' = <<f>> \o stack /\ f \in Frames /\ f.mk = Top
    BY <1>3, TreeAssumption DEF NewEvent, Push, Frames
  <2> HIDE DEF f
  <2>2. \A i \in DOMAIN stack' : stack'[i].mk = Top
    BY <1>a, <2>1, PushedStack, EmptyStack
  <2> QED
    BY <2>1, <2>2 DEF OnceInv, CalledFromTop, NotYet
<1>4. CASE InitReturn /\ program' = "loop"
  <2>1. stack' = <<>> /\ made' = {}
    BY <1>4 DEF InitReturn, OnceInv, InCall, Running
  <2> QED
    BY <1>4, <2>1, EmptyStack DEF OnceInv, CalledFromTop
<1>5. CASE SkipInactive
  BY <1>5, <1>a, <1>b, OnceForward DEF SkipInactive, Step
<1>6. CASE ReturnOK
  BY <1>6, <1>b, OnceReturn DEF ReturnOK, Returned, Step
<1>7. ASSUME EndChain \/ \E r \in Codes : EndMaker(r) PROVE OnceInv'
  <2>1. PICK r : AfterMaker(Maker, r) /\ program' = program /\ InCall("make") /\ More
                 /\ made' \in {made, made \cup {Maker}}
    BY <1>7, MakeCall DEF EndChain, EndMaker, Made, Step, CallsInv, MakeInv, PastLookInv, InCall, Running
  <2>2. CalledFromTop(made') /\ \A i \in DOMAIN stack : NotYet(stack[i], made')
    BY <1>b, <1>c, <2>1
  <2> QED
    BY <1>a, <1>b, <2>1, <2>2, OnceForward, OnceReturn DEF AfterMaker, Returned
<1>8. CASE BeginMaker \/ InitRun \/ \E r \in Runs : ReadRun(r)
  <2>1. /\ InCall("make") /\ More /\ UNCHANGED <<stack, program>> /\ program = "loop"
        /\ (BeginMaker \/ InitRun) => made' = made /\ step \in {"look", "initrun"} /\ step' \in {"initrun", "make"}
        /\ ~ (BeginMaker \/ InitRun) => made' = made \cup {Maker} /\ step' = "read"
    BY <1>8, <1>b DEF BeginMaker, InitRun, ReadRun, LooksAtRun, Step, CallsInv, IInv, AtMakerInv
  <2>2. CalledFromTop(made') /\ \A i \in DOMAIN stack : NotYet(stack[i], made')
    BY <1>b, <1>c, <2>1
  <2>3. Maker' = Maker /\ (Maker' \in made' <=> step' \in {"read", "back"})
    BY <1>b, <2>1 DEF Maker, Frame, OnceInv
  <2> QED
    BY <2>1, <2>2, <2>3 DEF OnceInv, NotYet, CalledFromTop
<1>9. CASE MakeChain
  <2> DEFINE c == Maker
             f == [mk |-> c, op |-> "make", at |-> 1]
  <2>1. /\ InCall("make") /\ More /\ step = "make" /\ step' = "look" /\ program' = "loop"
        /\ made' = made \cup {c} /\ stack' = <<f>> \o stack /\ stack # <<>>
    BY <1>9, <1>b DEF MakeChain, Step, Made, Push, CallsInv, IInv, AtMakerInv
  <2>2. /\ \A i \in DOMAIN stack : stack[i].op = "make"
        /\ Linked(stack, "make") /\ stack[1].at \in DOMAIN Kids[stack[1].mk]
        /\ c = Kids[stack[1].mk][stack[1].at] /\ c \in Makers
    BY <2>1, MakeCall DEF CallsInv
  <2>3. c \notin made
    BY <1>b, <2>1 DEF OnceInv
  <2>4. f \in Frames /\ f.mk = c /\ f.at = 1
    BY <2>2 DEF Frames
  <2> HIDE DEF f, c
  <2>5. /\ CalledFromTop(made') /\ \A i \in DOMAIN stack : NotYet(stack[i], made')
        /\ \A k \in DOMAIN Kids[c] : Kids[c][k] \notin made'
    <3>1. /\ CalledFromTop(made \cup {c}) /\ \A i \in DOMAIN stack : NotYet(stack[i], made \cup {c})
          /\ \A k \in DOMAIN Kids[c] : Kids[c][k] \notin made \cup {c}
      BY <1>a, <1>b, <2>1, <2>2, <2>3, CalledNow
    <3> QED
      BY <2>1, <3>1
  <2>6. NotYet(f, made')
    BY <2>1, <2>4, <2>5 DEF NotYet
  <2>7. stack'[1] = f /\ \A i \in DOMAIN stack' : stack'[i] = f \/ \E j \in DOMAIN stack : stack'[i] = stack[j]
    BY <1>a, <2>1, <2>4, PushedStack
  <2>8. More' => Maker' \notin made'
    <3>1. Frame' = f
      BY <2>1, <2>4, <2>7, <1>a DEF Frame
    <3> QED
      BY <2>4, <2>5, <3>1 DEF More, Maker
  <2>9. \A i \in DOMAIN stack' : NotYet(stack'[i], made')
    BY <2>5, <2>6, <2>7
  <2>10. CalledFromTop(made)' /\ \A i \in DOMAIN stack' : NotYet(stack[i], made)'
    BY <2>5, <2>9 DEF NotYet, CalledFromTop
  <2> QED
    BY <2>1, <2>8, <2>10 DEF OnceInv
<1>10. CASE EndEvent /\ program' = "loop"
  BY <1>10 DEF EndEvent, OnceInv, CalledFromTop, NotYet
<1>11. CASE UNCHANGED vars \/ FinishAgain
  BY <1>11 DEF vars, FinishAgain, OnceInv, More, Maker, Frame, CalledFromTop, NotYet
<1>12. CASE EndLoop \/ Finish \/ Terminate \/ FinishMaker \/ FinishReturn
  BY <1>2, <1>12 DEF EndLoop, Finish, Terminate, FinishMaker, FinishReturn, FinishTop, InCall, Running
<1>13. /\ InitMaker => program' \in {"init", "finish"}
       /\ EndEvent => program' \in {"loop", "finish"}
       /\ InitChain => program' = "init"
       /\ InitReturn => program' \in {"init", "loop"}
  BY DEF InitMaker, InitChain, InitReturn, EndEvent, InCall, Running
<1> QED
  BY <1>1, <1>2, <1>3, <1>4, <1>5, <1>6, <1>7, <1>8, <1>9, <1>10, <1>11, <1>12, <1>13 DEF Next

\* The invariant of the refinement, at the start and in every reachable state.
LEMMA InitProtocolInv == Init => ProtocolInv
<1> SUFFICES ASSUME Init PROVE ProtocolInv
  OBVIOUS
<1>1. CallsInv
  BY InitCallsInv
<1> DEFINE f == [mk |-> Top, op |-> "init", at |-> 1]
<1>2. /\ program = "init" /\ stack = <<f>> /\ bits = [m \in Makers |-> {}] /\ made = {}
      /\ begun = [m \in Makers |-> NoRun] /\ f \in Frames /\ f.mk = Top /\ f.at = 1 /\ f.op = "init"
  BY TreeAssumption DEF Init, Frames
<1> HIDE DEF f
<1>3. DOMAIN stack = {1} /\ stack[1] = f
  BY <1>2
<1>4. Linked(stack, "init") /\ Calls(stack, "finish") = {}
  BY <1>2, <1>3 DEF Linked, Calls
<1>5. Top \in Makers /\ \A k \in DOMAIN Kids[Top] : ~ (k < 1)
  BY TreeAssumption, Lengths
<1>6. InitedInv
  BY <1>2, <1>3, <1>4, <1>5 DEF InitedInv, InitedBefore, WithKids, Inited
<1>7. OnceInv
  BY <1>2 DEF OnceInv
<1>8. FiniBegInv
  BY <1>2, <1>4 DEF FiniBegInv
<1>9. BeforeInv
  BY <1>2, RunNumbers DEF BeforeInv, NoRun
<1> QED
  BY <1>1, <1>6, <1>7, <1>8, <1>9 DEF ProtocolInv

\* Each part is kept by the steps; the parts are used for one another.
LEMMA ProtocolInvariance == Spec => []ProtocolInv
<1>1. CallsInv /\ CallsInv' /\ ProtocolInv /\ [Next]_vars => ProtocolInv'
  BY StepInitedInv, StepOnceInv, StepFiniBegInv, StepBeforeInv DEF ProtocolInv, CallsInv
<1> QED
  BY <1>1, InitProtocolInv, CallsInvariance, PTL DEF Spec

-----------------------------------------------------------------------------
\* The steps of the chain as steps of the protocol

\* What a change of the bits and of the run of one maker is to the abstract state.
LEMMA OneMaker ==
  ASSUME NEW c \in Others, bits \in [Makers -> SUBSET Bits], bits' \in [Makers -> SUBSET Bits],
         \A m \in Makers : m # c => bits'[m] = bits[m]
  PROVE  /\ Phases' = [Phases EXCEPT ![c] = Phase(c)']
         /\ Working' = IF "MakeBeg" \in bits'[c] THEN Working \cup {c} ELSE Working \ {c}
BY DEF Phases, Phase, Working, Others

\* The bit kInitBeg is not seen.
LEMMA SamePhases ==
  ASSUME \A m \in Others : bits'[m] \ {"InitBeg"} = bits[m] \ {"InitBeg"}
  PROVE  Phases' = Phases /\ Working' = Working
<1>1. ASSUME NEW m \in Others, NEW b \in {"FiniEnd", "FiniBeg", "InitEnd", "MakeBeg"}
      PROVE  b \in bits'[m] <=> b \in bits[m]
  <2>1. b \in bits'[m] \ {"InitBeg"} <=> b \in bits[m] \ {"InitBeg"}
    OBVIOUS
  <2> QED
    BY <2>1
<1> QED
  BY <1>1 DEF Phases, Phase, Working

\* The run of the top chain is not seen.
LEMMA RunChanges ==
  ASSUME NEW c \in Makers, begun \in [Makers -> Runs \cup {-2, NoRun}], NEW r,
         begun' = [begun EXCEPT ![c] = r]
  PROVE  IF c = Top THEN RunOf' = RunOf ELSE RunOf' = [RunOf EXCEPT ![c] = r]
BY DEF RunOf, Others

\* Until Finish is called every maker is new or ready.
LEMMA StillOpen ==
  ASSUME ProtocolInv, program \in {"init", "loop"}
  PROVE  /\ Protocol!Open
         /\ \A m \in Others : Phases[m] = IF m \in Inited THEN "ready" ELSE "new"
<1>1. stack \in Seq(Frames) /\ bits \in [Makers -> SUBSET Bits]
  BY DEF ProtocolInv, CallsInv, IInv, TypeInv, Frames, MakeInv, BegunInv
<1>2. Calls(stack, "finish") = {}
  BY <1>1, NoCalls DEF ProtocolInv, CallsInv, MakeInv, PhaseInv
<1>3. \A m \in Makers : "FiniEnd" \notin bits[m] /\ "FiniBeg" \notin bits[m]
  BY <1>2 DEF ProtocolInv, CallsInv, FinishingInv, FiniBegInv, Ended
<1>4. \A m \in Others : Phases[m] = IF m \in Inited THEN "ready" ELSE "new"
  BY <1>3 DEF Phases, Phase, Inited, Others
<1> QED
  BY <1>4 DEF Protocol!Open

\* The maker that a loop looks at or calls.
LEMMA MakerState ==
  ASSUME ProtocolInv, InCall("make"), More
  PROVE  /\ program = "loop" /\ Maker \in Others /\ Protocol!Open
         /\ Phases[Maker] = "ready"
         /\ Maker \in Working <=> step # "look"
         /\ Maker \in made <=> step \in {"read", "back"}
         /\ step # "initrun" => begun[Maker] = lastRun[Maker]
         /\ RunOf[Maker] = begun[Maker]
<1>1. /\ program = "loop" /\ stack # <<>> /\ Maker \in Makers /\ Maker # Top
      /\ stack[1].at \in DOMAIN Kids[stack[1].mk] /\ Maker = Kids[stack[1].mk][stack[1].at]
      /\ ~ Nested(stack, Maker) /\ stack[1].mk \in Makers
  <2>1. /\ program = "loop" /\ stack # <<>> /\ Maker \in Makers
        /\ stack[1].at \in DOMAIN Kids[stack[1].mk] /\ Maker = Kids[stack[1].mk][stack[1].at]
        /\ ~ Nested(stack, Maker) /\ stack \in Seq(Frames) /\ 1 \in DOMAIN stack
    BY MakeCall DEF ProtocolInv, CallsInv
  <2>2. stack[1] \in Frames
    BY <2>1
  <2>3. stack[1].mk \in Makers
    BY <2>2 DEF Frames
  <2> QED
    BY <2>1, <2>3, OneParent
<1>2. Maker \in Inited
  <2>1. stack[1].mk \in Inited \cup {Top}
    <3>1. 1 \in DOMAIN stack
      BY MakeCall DEF ProtocolInv, CallsInv
    <3> QED
      BY <1>1, <3>1 DEF ProtocolInv, InitedInv
  <2> QED
    BY <1>1, <2>1 DEF ProtocolInv, InitedInv, WithKids
<1>3. Protocol!Open /\ Phases[Maker] = "ready"
  BY <1>1, <1>2, StillOpen DEF Others
<1>4. Maker \in Working <=> step # "look"
  BY <1>1 DEF ProtocolInv, CallsInv, MakeInv, BegunInv, InMakeOf, Working, Others
<1>5. Maker \in made <=> step \in {"read", "back"}
  BY <1>1 DEF ProtocolInv, OnceInv
<1>6. step # "initrun" => begun[Maker] = lastRun[Maker]
  BY <1>1 DEF ProtocolInv, CallsInv, IInv, RememberedInv, InInitRun
<1> QED
  BY <1>1, <1>3, <1>4, <1>5, <1>6 DEF Others, RunOf

\* The maker that a chain finishes.
LEMMA FinishState ==
  ASSUME ProtocolInv, InCall("finish"), More, "FiniEnd" \notin bits[Maker]
  PROVE  Maker \in Others /\ Phases[Maker] \in {"new", "ready"}
<1>1. /\ stack \in Seq(Frames) /\ stack # <<>> /\ Frame = stack[1] /\ Frame.op = "finish"
      /\ 1 \in DOMAIN stack
  BY DEF ProtocolInv, CallsInv, IInv, TypeInv, Frames, InCall, Frame
<1>2. stack[1].mk \in Makers /\ stack[1].at \in DOMAIN Kids[stack[1].mk] /\ Maker = Kids[stack[1].mk][stack[1].at]
  <2>1. stack[1] \in Frames
    BY <1>1
  <2> QED
    BY <1>1, <2>1 DEF Frames, More, Maker
<1>3. Maker \in Makers /\ Maker # Top
  BY <1>2, OneParent
<1>4. \A i \in Calls(stack, "finish") : stack[i].mk # Maker
  <2>1. Linked(stack, "finish")
    BY DEF ProtocolInv, CallsInv, MakeInv, LinkInv
  <2> QED
    BY <1>1, <1>2, <2>1, CurrentUncalled
<1>5. "FiniBeg" \notin bits[Maker]
  BY <1>3, <1>4 DEF ProtocolInv, FiniBegInv
<1> QED
  BY <1>3, <1>5 DEF Phases, Phase, Others

\* One lemma per abstract action: the steps of the chain that take it.
Stutters == UNCHANGED <<Phases, RunOf, header, Working, made>>

\* The Init of a maker that succeeds.
LEMMA Initialises ==
  ASSUME ProtocolInv, program = "init", NEW c \in Makers, bits' \in [Makers -> SUBSET Bits],
         bits' \in {SetBit(c, "InitEnd"), BitMoved(c, "InitBeg", "InitEnd")},
         UNCHANGED <<begun, header, made>>
  PROVE  Stutters \/ \E m \in Others : Protocol!Initialise(m)
<1>1. bits \in [Makers -> SUBSET Bits]
  BY DEF ProtocolInv, CallsInv, MakeInv, BegunInv
<1>2. /\ \A m \in Makers : m # c => bits'[m] = bits[m]
      /\ \A b \in {"FiniEnd", "FiniBeg", "MakeBeg"} : b \in bits'[c] <=> b \in bits[c]
      /\ "InitEnd" \in bits'[c]
  BY <1>1 DEF SetBit, BitMoved
<1>3. RunOf' = RunOf
  BY DEF RunOf
<1>4. CASE c = Top
  BY <1>2, <1>3, <1>4, SamePhases DEF Stutters, Others
<1>5. CASE c # Top
  <2>1. /\ c \in Others /\ Protocol!Open
        /\ Phases[c] = IF c \in Inited THEN "ready" ELSE "new"
    BY <1>5, StillOpen DEF Others
  <2>2. /\ Phases' = [Phases EXCEPT ![c] = Phase(c)']
        /\ Working' = IF "MakeBeg" \in bits'[c] THEN Working \cup {c} ELSE Working \ {c}
    BY <1>1, <1>2, <2>1, OneMaker
  <2>3. Working' = Working
    BY <1>2, <2>1, <2>2 DEF Working
  <2>4. Phase(c)' = "ready"
    <3>1. Phases[c] \notin {"finished", "finishing"}
      BY <2>1
    <3> QED
      BY <1>2, <2>1, <3>1 DEF Phase, Phases
  <2>5. CASE c \in Inited
    <3>1. Phases' = Phases
      BY <2>1, <2>2, <2>4, <2>5 DEF Phases
    <3> QED
      BY <1>3, <2>3, <3>1 DEF Stutters
  <2>6. CASE c \notin Inited
    BY <1>3, <2>1, <2>2, <2>3, <2>4, <2>6 DEF Protocol!Initialise
  <2> QED
    BY <2>5, <2>6
<1> QED
  BY <1>4, <1>5

\* The Clear of all the makers.
LEMMA NewEvents ==
  ASSUME ProtocolInv, NewEvent
  PROVE  Protocol!NewEvent
<1>1. Protocol!Open
  BY StillOpen DEF NewEvent
<1>2. Working = {}
  BY EmptyStack DEF Working, Others, ProtocolInv, CallsInv, MakeInv, BegunInv, InMakeOf, Nested, NewEvent
<1>3. UNCHANGED <<Phases, RunOf, header, Working>> /\ made' = {}
  BY DEF NewEvent, Phases, Phase, RunOf, Working
<1> QED
  BY <1>1, <1>2, <1>3 DEF Protocol!NewEvent

\* A chain looks at its next active maker.
LEMMA Enters ==
  ASSUME ProtocolInv, BeginMaker
  PROVE  \E m \in Others : Protocol!Enter(m)
<1>0. PICK c \in Others : c = Maker
  BY MakerState DEF BeginMaker, Step
<1>1. /\ c \in Others /\ Protocol!Open /\ Phases[c] = "ready" /\ c \notin Working
      /\ c \notin made /\ begun[c] = lastRun[c] /\ RunOf[c] = begun[c] /\ c \in Makers /\ c # Top
      /\ begun[c] \in Runs \cup {-2, NoRun}
  <2>1. InCall("make") /\ More /\ step = "look"
    BY DEF BeginMaker, Step
  <2>2. begun \in [Makers -> Runs \cup {-2, NoRun}]
    BY DEF ProtocolInv, CallsInv, IInv, TypeInv
  <2> QED
    BY <1>0, <2>1, <2>2, MakerState DEF Others
<1>2. /\ bits \in [Makers -> SUBSET Bits] /\ begun \in [Makers -> Runs \cup {-2, NoRun}]
      /\ bits' = SetBit(c, "MakeBeg") /\ UNCHANGED <<header, made>>
      /\ begun' = IF EndsOldRun(c) THEN [begun EXCEPT ![c] = NoRun] ELSE begun
  BY <1>0 DEF ProtocolInv, CallsInv, IInv, TypeInv, MakeInv, BegunInv, BeginMaker, FinishRun
<1>3. bits' \in [Makers -> SUBSET Bits] /\ (\A m \in Makers : m # c => bits'[m] = bits[m])
      /\ bits'[c] = bits[c] \cup {"MakeBeg"}
  BY <1>1, <1>2 DEF SetBit, Bits
<1>4. Phase(c)' = Phase(c)
  BY <1>3 DEF Phase
<1>5. Phases' = Phases /\ Working' = Working \cup {c}
  <2>1. /\ Phases' = [Phases EXCEPT ![c] = Phase(c)']
        /\ Working' = IF "MakeBeg" \in bits'[c] THEN Working \cup {c} ELSE Working \ {c}
    BY <1>1, <1>2, <1>3, OneMaker
  <2>2. Phase(c) = Phases[c]
    BY <1>1 DEF Phases
  <2> QED
    BY <1>1, <1>3, <1>4, <2>1, <2>2 DEF Phases
<1>6. EndsOldRun(c) <=> begun[c] \in Runs /\ begun[c] # header
  <2>1. begun[c] > -1 <=> begun[c] \in Runs
    <3>1. \A r \in Runs : r > -1
      BY RunNumbers
    <3>2. ~ (-2 > -1) /\ ~ (NoRun > -1)
      BY DEF NoRun
    <3> QED
      BY <1>1, <3>1, <3>2
  <2> QED
    BY <1>1, <2>1 DEF EndsOldRun
<1>7. RunOf' = [RunOf EXCEPT ![c] = IF @ \in Runs /\ @ # header THEN NoRun ELSE @]
  <2>1. CASE EndsOldRun(c)
    BY <1>1, <1>2, <1>6, <2>1, RunChanges
  <2>2. CASE ~ EndsOldRun(c)
    <3>1. RunOf' = RunOf
      BY <1>2, <2>2 DEF RunOf
    <3> QED
      BY <1>1, <1>6, <2>2, <3>1 DEF RunOf
  <2> QED
    BY <2>1, <2>2
<1> QED
  BY <1>1, <1>2, <1>5, <1>7 DEF Protocol!Enter

\* InitRun of that maker.
LEMMA BeginsRun ==
  ASSUME ProtocolInv, InitRun
  PROVE  \E m \in Others : Protocol!BeginRun(m)
<1> DEFINE c == Maker
<1>1. /\ c \in Others /\ Protocol!Open /\ c \in Working \ made /\ RunOf[c] \notin Runs
      /\ c \in Makers /\ c # Top
  <2>1. InCall("make") /\ More /\ step = "initrun" /\ begun[c] \notin Runs
    BY DEF InitRun, Step, ProtocolInv, CallsInv, IInv, AtMakerInv, EndedInv, InCall, Running
  <2> QED
    BY <2>1, MakerState DEF Others
<1>2. /\ begun \in [Makers -> Runs \cup {-2, NoRun}] /\ begun' = [begun EXCEPT ![c] = header]
      /\ UNCHANGED <<bits, header, made>>
  BY DEF ProtocolInv, CallsInv, IInv, TypeInv, InitRun
<1> HIDE DEF c
<1>3. RunOf' = [RunOf EXCEPT ![c] = header]
  BY <1>1, <1>2, RunChanges
<1>4. Phases' = Phases /\ Working' = Working
  BY <1>2 DEF Phases, Phase, Working
<1> QED
  BY <1>1, <1>2, <1>3, <1>4 DEF Protocol!BeginRun

\* The maker whose turn it is has been told of the run of the event.
LEMMA IsReady ==
  ASSUME ProtocolInv, Step("make")
  PROVE  /\ Maker \in Others /\ Protocol!Ready(Maker) /\ Maker \in Working \ made
         /\ InCall("make") /\ More /\ bits \in [Makers -> SUBSET Bits]
<1>1. InCall("make") /\ More /\ step = "make" /\ begun[Maker] = header
      /\ bits \in [Makers -> SUBSET Bits]
  BY DEF Step, ProtocolInv, CallsInv, IInv, AtMakerInv, ToldInv, InCall, Running, MakeInv, BegunInv
<1> QED
  BY <1>1, MakerState DEF Protocol!Ready

\* The end of a maker's Make.
LEMMA MakeEnds ==
  ASSUME bits \in [Makers -> SUBSET Bits], NEW c \in Others, NEW r, AfterMaker(c, r),
         begun' = begun
  PROVE  Phases' = Phases /\ Working' = Working \ {c} /\ RunOf' = RunOf
<1>1. /\ bits' \in [Makers -> SUBSET Bits] /\ (\A m \in Makers : m # c => bits'[m] = bits[m])
      /\ bits'[c] = bits[c] \ {"MakeBeg"}
  BY DEF AfterMaker, Others
<1>2. /\ Phases' = [Phases EXCEPT ![c] = Phase(c)']
      /\ Working' = IF "MakeBeg" \in bits'[c] THEN Working \cup {c} ELSE Working \ {c}
  BY <1>1, OneMaker
<1>3. Phase(c)' = Phase(c)
  BY <1>1 DEF Phase
<1>4. Phase(c) = Phases[c]
  BY DEF Phases
<1> QED
  BY <1>1, <1>2, <1>3, <1>4 DEF Phases, RunOf

\* Its Make: of a chain, or of a maker that returns at once.
LEMMA CallsOf ==
  ASSUME ProtocolInv, MakeChain \/ (step = "make" /\ \E r \in Codes : EndMaker(r))
  PROVE  \E m \in Others : Protocol!Call(m)
<1> DEFINE c == Maker
<1>1. /\ c \in Others /\ Protocol!Ready(c)
      /\ bits \in [Makers -> SUBSET Bits]
  <2>1. Step("make")
    BY DEF MakeChain, EndMaker, Step
  <2> QED
    BY <2>1, IsReady
<1>2. /\ begun' = begun /\ header' = header /\ made' = made \cup {c}
      /\ bits' = bits \/ \E r : AfterMaker(c, r)
  BY DEF MakeChain, EndMaker, Made
<1> HIDE DEF c
<1>3. CASE bits' = bits
  <2>1. Phases' = Phases /\ Working' = Working /\ RunOf' = RunOf
    BY <1>2, <1>3 DEF Phases, Phase, Working, RunOf
  <2> QED
    BY <1>1, <1>2, <2>1 DEF Protocol!Call
<1>4. CASE \E r : AfterMaker(c, r)
  <2>1. Phases' = Phases /\ Working' = Working \ {c} /\ RunOf' = RunOf
    BY <1>1, <1>2, <1>4, MakeEnds
  <2> QED
    BY <1>1, <1>2, <2>1 DEF Protocol!Call
<1> QED
  BY <1>2, <1>3, <1>4

\* An input maker that reads an event of another run.
LEMMA Reads ==
  ASSUME ProtocolInv, NEW r \in Runs, ReadRun(r)
  PROVE  \E m \in Others : Protocol!Read(m, r)
<1>1. Step("make") /\ Maker \in Inputs
  BY DEF ReadRun
<1>2. Maker \in Others /\ Protocol!Ready(Maker)
  BY <1>1, IsReady
<1>3. /\ Phases' = Phases /\ Working' = Working /\ RunOf' = RunOf
      /\ header' = r /\ made' = made \cup {Maker}
  BY DEF Phases, Phase, Working, RunOf, ReadRun
<1> QED
  BY <1>1, <1>2, <1>3 DEF Protocol!Read

\* The end of a Make that has called others or has read.
LEMMA Returns ==
  ASSUME ProtocolInv, EndChain \/ (step = "read" /\ \E r \in Codes : EndMaker(r))
  PROVE  \E m \in Others : Protocol!Return(m)
<1> DEFINE c == Maker
<1>1. InCall("make") /\ step \in {"back", "read"} /\ More
  BY DEF EndChain, EndMaker, Step, ProtocolInv, CallsInv, MakeInv, PastLookInv, InCall, Running
<1>2. c \in Others /\ Protocol!Open /\ c \in Working \cap made /\ bits \in [Makers -> SUBSET Bits]
  BY <1>1, MakerState DEF ProtocolInv, CallsInv, MakeInv, BegunInv
<1>3. PICK r : AfterMaker(c, r) /\ begun' = begun /\ header' = header /\ made' = made
  BY DEF EndChain, EndMaker
<1> HIDE DEF c
<1>4. Phases' = Phases /\ Working' = Working \ {c} /\ RunOf' = RunOf
  BY <1>2, <1>3, MakeEnds
<1> QED
  BY <1>2, <1>3, <1>4 DEF Protocol!Return

\* FinishRun before Finish: the maker is in no run any more.
LEMMA RunEnds ==
  ASSUME ProtocolInv, NEW c \in Others, FinishesRun(c)
  PROVE  \E r \in {RunOf[c], NoRun} \ Runs : RunOf' = [RunOf EXCEPT ![c] = r]
<1>1. /\ begun \in [Makers -> Runs \cup {-2, NoRun}] /\ c \in Makers /\ c # Top
      /\ header \in Runs \cup {-2} /\ NoRun \notin Runs
  BY RunNumbers DEF ProtocolInv, CallsInv, IInv, TypeInv, Others, NoRun
<1>2. CASE header > -1
  <2>1. begun' = [begun EXCEPT ![c] = NoRun]
    BY <1>2 DEF FinishesRun, FinishRun
  <2>2. RunOf' = [RunOf EXCEPT ![c] = NoRun]
    BY <1>1, <2>1, RunChanges
  <2> QED
    BY <1>1, <2>2
<1>3. CASE ~ (header > -1)
  <2>1. header = -2
    <3>1. \A r \in Runs : r > -1
      BY RunNumbers
    <3> QED
      BY <1>1, <1>3, <3>1
  <2>2. RunOf[c] \notin Runs
    BY <1>1, <2>1 DEF ProtocolInv, BeforeInv, RunOf
  <2>3. RunOf' = [RunOf EXCEPT ![c] = RunOf[c]]
    BY <1>3 DEF FinishesRun, RunOf
  <2> QED
    BY <2>2, <2>3
<1> QED
  BY <1>2, <1>3

\* Finish of a maker: at once, or after that of its own makers.
LEMMA Finishes ==
  ASSUME ProtocolInv, FinishMaker
  PROVE  \E m \in Others : Protocol!BeginFinish(m) \/ Protocol!FinishAtOnce(m)
<1>0. PICK c \in Others : c = Maker
  BY FinishState DEF FinishMaker
<1>1. /\ Phases[c] \in {"new", "ready"} /\ FinishesRun(c) /\ UNCHANGED <<header, made>>
      /\ bits' \in {SetBit(c, "FiniBeg"), SetBit(c, "FiniEnd")}
      /\ bits \in [Makers -> SUBSET Bits] /\ c \in Makers
  BY <1>0, FinishState DEF FinishMaker, Others, ProtocolInv, CallsInv, MakeInv, BegunInv
<1>2. PICK r \in {RunOf[c], NoRun} \ Runs : RunOf' = [RunOf EXCEPT ![c] = r]
  BY <1>1, RunEnds
<1>3. /\ bits' \in [Makers -> SUBSET Bits] /\ (\A m \in Makers : m # c => bits'[m] = bits[m])
      /\ "MakeBeg" \in bits'[c] <=> "MakeBeg" \in bits[c]
  BY <1>1 DEF SetBit, Bits
<1>4. Phases' = [Phases EXCEPT ![c] = Phase(c)'] /\ Working' = Working
  <2>1. /\ Phases' = [Phases EXCEPT ![c] = Phase(c)']
        /\ Working' = IF "MakeBeg" \in bits'[c] THEN Working \cup {c} ELSE Working \ {c}
    BY <1>1, <1>3, OneMaker
  <2>2. c \in Working <=> "MakeBeg" \in bits[c]
    BY DEF Working
  <2> QED
    BY <1>3, <2>1, <2>2
<1>5. Phases[c] = Phase(c)
  BY DEF Phases
<1>6. Phase(c)' = "finishing" \/ Phase(c)' = "finished"
  BY <1>1, <1>5 DEF Phase, SetBit
<1> QED
  BY <1>1, <1>2, <1>4, <1>6 DEF Protocol!BeginFinish, Protocol!FinishAtOnce, Protocol!EndRun

\* The Finish of a chain returns.
LEMMA EndsFinish ==
  ASSUME ProtocolInv, FinishReturn
  PROVE  Stutters \/ \E m \in Others : Protocol!EndFinish(m)
<1>0. PICK c \in Makers : c = Frame.mk
  <2>1. stack \in Seq(Frames) /\ stack # <<>>
    BY DEF FinishReturn, InCall, ProtocolInv, CallsInv, IInv, TypeInv, Frames
  <2>2. Frame \in Frames
    BY <2>1 DEF Frame
  <2> QED
    BY <2>2 DEF Frames
<1>1. 1 \in Calls(stack, "finish") /\ stack[1].mk = c
  <2>1. stack \in Seq(Frames) /\ stack # <<>> /\ Frame.op = "finish"
    BY DEF FinishReturn, InCall, ProtocolInv, CallsInv, IInv, TypeInv, Frames
  <2>2. Frame = stack[1] /\ 1 \in DOMAIN stack
    BY <2>1 DEF Frame
  <2> QED
    BY <1>0, <2>1, <2>2 DEF Calls
<1>2. /\ bits \in [Makers -> SUBSET Bits] /\ bits' = BitMoved(c, "FiniBeg", "FiniEnd")
      /\ UNCHANGED <<begun, header, made>>
  BY <1>0 DEF FinishReturn, history, ProtocolInv, CallsInv, MakeInv, BegunInv
<1>3. /\ bits' \in [Makers -> SUBSET Bits] /\ (\A m \in Makers : m # c => bits'[m] = bits[m])
      /\ "MakeBeg" \in bits'[c] <=> "MakeBeg" \in bits[c]
      /\ "FiniEnd" \in bits'[c]
  BY <1>2 DEF BitMoved, Bits
<1>4. RunOf' = RunOf
  BY <1>2 DEF RunOf
<1>5. CASE c = Top
  BY <1>2, <1>3, <1>4, <1>5, SamePhases DEF Stutters, Others
<1>6. CASE c # Top
  <2>1. c \in Others
    BY <1>6 DEF Others
  <2>2. Phases' = [Phases EXCEPT ![c] = Phase(c)'] /\ Working' = Working
    <3>1. /\ Phases' = [Phases EXCEPT ![c] = Phase(c)']
          /\ Working' = IF "MakeBeg" \in bits'[c] THEN Working \cup {c} ELSE Working \ {c}
      BY <1>2, <1>3, <2>1, OneMaker
    <3>2. c \in Working <=> "MakeBeg" \in bits[c]
      BY <2>1 DEF Working
    <3> QED
      BY <1>3, <3>1, <3>2
  <2>3. "FiniBeg" \in bits[c] /\ "FiniEnd" \notin bits[c]
    BY <1>1, <1>6 DEF ProtocolInv, FiniBegInv, CallsInv, FinishingInv, FinishedAfter, Ended
  <2>4. Phases[c] = "finishing" /\ Phase(c)' = "finished"
    BY <1>3, <2>1, <2>3 DEF Phases, Phase
  <2> QED
    BY <1>2, <1>4, <2>1, <2>2, <2>4 DEF Protocol!EndFinish
<1> QED
  BY <1>5, <1>6

\* The steps that no maker but the top chain sees.
LEMMA Stuttering ==
  ASSUME ProtocolInv,
         \/ InitChain \/ SkipInactive \/ ReturnOK \/ EndEvent \/ EndLoop \/ Finish \/ Terminate
         \/ FinishAgain \/ UNCHANGED vars
         \/ InitMaker /\ bits' = SetBit(Maker, "InitBeg")
         \/ InitReturn /\ bits' = bits
  PROVE  Stutters
<1> USE DEF history, counters
<1>1. /\ bits \in [Makers -> SUBSET Bits] /\ begun \in [Makers -> Runs \cup {-2, NoRun}] /\ Top \in Makers
  BY TreeAssumption DEF ProtocolInv, CallsInv, IInv, TypeInv, MakeInv, BegunInv
<1>2. UNCHANGED <<header, made>>
  BY DEF vars, InitMaker, InitChain, InitReturn, SkipInactive, ReturnOK, EndEvent, EndLoop, Finish,
         Terminate, FinishTop, FinishAgain
<1>3. RunOf' = RunOf
  <2>1. CASE begun' = begun
    BY <2>1 DEF RunOf
  <2>2. CASE FinishesRun(Top)
    <3>1. begun' = begun \/ begun' = [begun EXCEPT ![Top] = NoRun]
      BY <2>2 DEF FinishesRun, FinishRun
    <3> QED
      BY <1>1, <2>1, <3>1, RunChanges
  <2>3. begun' = begun \/ FinishesRun(Top)
    BY DEF vars, InitMaker, InitChain, InitReturn, SkipInactive, ReturnOK, EndEvent, EndLoop, Finish,
           Terminate, FinishTop, FinishAgain
  <2> QED
    BY <2>1, <2>2, <2>3
<1>4. \A m \in Others : bits'[m] \ {"InitBeg"} = bits[m] \ {"InitBeg"}
  <2>1. bits' = bits \/ bits' = SetBit(Maker, "InitBeg")
    BY DEF vars, InitMaker, InitChain, InitReturn, SkipInactive, ReturnOK, EndEvent, EndLoop, Finish,
           Terminate, FinishTop, FinishAgain
  <2>2. ASSUME NEW c, bits' = SetBit(c, "InitBeg")
        PROVE  \A m \in Others : bits'[m] \ {"InitBeg"} = bits[m] \ {"InitBeg"}
    BY <1>1, <2>2 DEF SetBit, Others
  <2> QED
    BY <2>1, <2>2
<1> QED
  BY <1>2, <1>3, <1>4, SamePhases DEF Stutters

\* Every step of the chain is one of the protocol, or shows nothing of itself.
LEMMA StepProtocol ==
  ASSUME ProtocolInv, ProtocolInv', [Next]_vars
  PROVE  [Protocol!Next]_(Protocol!vars)
<1> USE DEF history, counters
<1>1. Stutters => UNCHANGED Protocol!vars
  BY DEF Stutters, Protocol!vars
<1>2. ASSUME \E m \in Others : Protocol!Initialise(m) \/ Protocol!Enter(m) \/ Protocol!BeginRun(m)
                               \/ Protocol!Call(m) \/ Protocol!Return(m)
                               \/ (\E r \in Runs : Protocol!Read(m, r))
                               \/ Protocol!BeginFinish(m) \/ Protocol!FinishAtOnce(m)
                               \/ Protocol!EndFinish(m)
      PROVE  Protocol!Next
  BY <1>2 DEF Protocol!Next
<1>3. stack \in Seq(Frames) /\ stack' \in Seq(Frames) /\ bits' \in [Makers -> SUBSET Bits]
  BY DEF ProtocolInv, CallsInv, IInv, TypeInv, Frames, MakeInv, BegunInv
<1>4. CASE InitMaker
  <2>1. Maker \in Makers /\ program = "init" /\ UNCHANGED <<begun, header, made>>
    BY <1>3, <1>4, MakerType DEF InitMaker, InCall, Running
  <2>2. bits' = SetBit(Maker, "InitEnd") \/ bits' = SetBit(Maker, "InitBeg")
    BY <1>4 DEF InitMaker
  <2>3. CASE bits' = SetBit(Maker, "InitEnd")
    <3>1. \A c \in Makers : bits' = SetBit(c, "InitEnd") =>
            Stutters \/ \E m \in Others : Protocol!Initialise(m)
      BY <1>3, <2>1, Initialises
    <3> QED
      BY <1>1, <1>2, <2>1, <2>3, <3>1
  <2>4. CASE bits' = SetBit(Maker, "InitBeg")
    BY <1>1, <1>4, <2>4, Stuttering
  <2> QED
    BY <2>2, <2>3, <2>4
<1>5. CASE InitReturn
  <2>1. Frame.mk \in Makers /\ program = "init" /\ UNCHANGED <<begun, header, made>>
    <3>1. stack # <<>>
      BY <1>5 DEF InitReturn, InCall
    <3>2. Frame \in Frames
      BY <1>3, <3>1 DEF Frame
    <3> QED
      BY <1>5, <3>2 DEF InitReturn, InCall, Running, Frames
  <2>2. bits' = bits \/ bits' = BitMoved(Frame.mk, "InitBeg", "InitEnd")
    BY <1>5 DEF InitReturn
  <2>3. CASE bits' = BitMoved(Frame.mk, "InitBeg", "InitEnd")
    <3>1. \A c \in Makers : bits' = BitMoved(c, "InitBeg", "InitEnd") =>
            Stutters \/ \E m \in Others : Protocol!Initialise(m)
      BY <1>3, <2>1, Initialises
    <3> QED
      BY <1>1, <1>2, <2>1, <2>3, <3>1
  <2>4. CASE bits' = bits
    BY <1>1, <1>5, <2>4, Stuttering
  <2> QED
    BY <2>2, <2>3, <2>4
<1>6. CASE NewEvent
  BY <1>6, NewEvents DEF Protocol!Next
<1>7. CASE BeginMaker
  BY <1>2, <1>7, Enters
<1>8. CASE InitRun
  BY <1>2, <1>8, BeginsRun
<1>9. CASE MakeChain
  BY <1>2, <1>9, CallsOf
<1>10. CASE \E r \in Runs : ReadRun(r)
  BY <1>2, <1>10, Reads
<1>11. CASE EndChain \/ \E r \in Codes : EndMaker(r)
  <2>1. (\E r \in Codes : EndMaker(r)) => step \in {"make", "read"}
    BY DEF EndMaker, Step
  <2> QED
    BY <1>2, <1>11, <2>1, CallsOf, Returns
<1>12. CASE FinishMaker
  BY <1>2, <1>12, Finishes
<1>13. CASE FinishReturn
  BY <1>1, <1>2, <1>13, EndsFinish
<1>14. CASE \/ InitChain \/ SkipInactive \/ ReturnOK \/ EndEvent \/ EndLoop \/ Finish \/ Terminate
            \/ FinishAgain \/ UNCHANGED vars
  BY <1>1, <1>14, Stuttering
<1> QED
  BY <1>4, <1>5, <1>6, <1>7, <1>8, <1>9, <1>10, <1>11, <1>12, <1>13, <1>14 DEF Next

\* Whatever the tree of makers, what they return, and SIGTERM at any moment
\* included, each maker sees its Init, InitRun, Make, FinishRun and Finish in
\* order: the chain implements the protocol.
THEOREM ProtocolImplemented == Spec => ImplementsProtocol
<1>1. Init => Protocol!Init
  BY DEF Init, Protocol!Init, Phases, Phase, RunOf, Working, Others
<1>2. ProtocolInv /\ ProtocolInv' /\ [Next]_vars => [Protocol!Next]_(Protocol!vars)
  BY StepProtocol
<1> QED
  BY <1>1, <1>2, ProtocolInvariance, PTL DEF Spec, ImplementsProtocol, Protocol!Spec

-----------------------------------------------------------------------------
\* The end of the job

\* When the program has finished, so has the top chain.
TopEndedInv == program \in {"finished", "exited"} => Ended(Top)

\* The outermost call of Finish is that of the top chain.
LEMMA StepTopEndedInv == CallsInv /\ TopEndedInv /\ [Next]_vars => TopEndedInv'
<1> SUFFICES ASSUME CallsInv, TopEndedInv, [Next]_vars, program' \in {"finished", "exited"}
             PROVE  "FiniEnd" \in bits'[Top]
  BY DEF TopEndedInv, Ended
<1>1. CASE FinishReturn
  <2>1. ~ (Len(stack) > 1 /\ stack[2].op = "finish")
    BY <1>1 DEF FinishReturn, InCall, Running
  <2>2. /\ stack \in Seq(Frames) /\ stack # <<>> /\ Frame = stack[1] /\ 1 \in Calls(stack, "finish")
    <3>1. stack \in Seq(Frames) /\ stack # <<>> /\ Frame.op = "finish"
      BY <1>1 DEF FinishReturn, InCall, CallsInv, IInv, TypeInv, Frames
    <3>2. Frame = stack[1] /\ 1 \in DOMAIN stack
      BY <3>1 DEF Frame
    <3> QED
      BY <3>1, <3>2 DEF Calls
  <2>3. 1 + 1 \notin Calls(stack, "finish")
    BY <2>1, <2>2 DEF Calls
  <2>4. Frame.mk = Top
    BY <2>2, <2>3 DEF CallsInv, MakeInv, LinkInv, Linked
  <2> QED
    BY <1>1, <2>4, TreeAssumption DEF FinishReturn, BitMoved, CallsInv, MakeInv, BegunInv
<1>2. CASE FinishAgain \/ UNCHANGED vars
  BY <1>2 DEF FinishAgain, vars, TopEndedInv, Ended
<1>3. CASE ~ (FinishReturn \/ FinishAgain \/ UNCHANGED vars)
  BY <1>3 DEF Next, InitMaker, InitChain, InitReturn, NewEvent, SkipInactive, BeginMaker, InitRun,
     MakeChain, ReadRun, EndMaker, EndChain, ReturnOK, EndEvent, EndLoop, Finish, Terminate,
     FinishMaker, Step, InCall, Running
<1> QED
  BY <1>1, <1>2, <1>3

\* However the job ends, no maker of any tree is left without Finish.
THEOREM FinishedAll ==
  Spec => [](program \in {"finished", "exited"} =>
               \A m \in Below[Top] \cup {Top} : "FiniEnd" \in bits[m])
<1>1. Init => TopEndedInv
  BY DEF Init, TopEndedInv
<1>2. ASSUME CallsInv, TopEndedInv, program \in {"finished", "exited"}
      PROVE  \A m \in Below[Top] \cup {Top} : "FiniEnd" \in bits[m]
  <2> DEFINE R == {m \in Makers : Ended(m)}
  <2>1. Calls(stack, "finish") = {}
    BY <1>2, EmptyStack DEF CallsInv, MakeInv, PhaseInv
  <2>2. \A m \in Makers : \A k \in DOMAIN Kids[m] : Ended(Kids[m][k]) <=> Ended(m)
    BY <1>2, <2>1 DEF CallsInv, FinishingInv
  <2>3. Top \in R
    BY <1>2, TreeAssumption DEF TopEndedInv
  <2>4. ASSUME NEW x \in R, NEW k \in DOMAIN Kids[x] PROVE Kids[x][k] \in R
    BY <2>2, <2>4, KidsAreMakers
  <2>5. \A x \in R \cup {Top} : Range(Kids[x]) \cap Makers \subseteq R
    BY <2>3, <2>4 DEF Range
  <2>6. Reached(Top, Makers) \subseteq R
    <3> HIDE DEF R
    <3>1. R \in SUBSET Makers
      BY DEF R
    <3> QED
      BY <2>5, <3>1, ReachedLeast
  <2>7. Below[Top] = Reached(Top, Makers)
    BY TreeAssumption DEF Below
  <2> QED
    BY <2>3, <2>6, <2>7 DEF Ended
<1> QED
  BY <1>1, <1>2, StepTopEndedInv, CallsInvariance, PTL DEF Spec

-----------------------------------------------------------------------------
\* Whose run is finished

\* Finish of maker m has begun.
Over(m) == Phase(m) \in {"finishing", "finished"}

\* In the event loop FinishRun is of the run begun; after it the makers called
\* since the run changed are in the run of the header until they are finished.
MatchInv ==
  /\ program \in {"init", "loop"} => unmatched = {}
  /\ Top \notin current /\ unmatched \cap current = {}
  /\ \A m \in current : begun[m] = header \/ Over(m)

\* Every step keeps it.
LEMMA StepMatchInv == ProtocolInv /\ ProtocolInv' /\ MatchInv /\ [Next]_vars => MatchInv'
<1> SUFFICES ASSUME ProtocolInv, ProtocolInv', MatchInv, [Next]_vars PROVE MatchInv'
  OBVIOUS
<1> USE DEF history, counters
<1>1. /\ stack \in Seq(Frames) /\ begun \in [Makers -> Runs \cup {-2, NoRun}] /\ current \subseteq Makers
      /\ bits \in [Makers -> SUBSET Bits] /\ Top \in Makers
      /\ program \in {"init", "loop"} => \A m \in current : begun[m] = header
      /\ program' \in {"init", "loop"} => \A m \in current' : begun'[m] = header'
  BY TreeAssumption DEF ProtocolInv, CallsInv, IInv, TypeInv, Frames, MakeInv, BegunInv, FreshInv,
     CurrentRunBegun
\* A maker called now is not the top chain.
<1>2. ASSUME Step("make") PROVE Maker # Top
  BY <1>2, IsReady DEF Others
<1>3. current' \subseteq current \/ (Step("make") /\ current' = current \cup {Maker})
  BY DEF Next, vars, InitMaker, InitChain, InitReturn, NewEvent, SkipInactive, BeginMaker, InitRun,
     MakeChain, ReadRun, EndMaker, Made, EndChain, ReturnOK, EndEvent, EndLoop, Finish, Terminate,
     FinishTop, FinishMaker, FinishReturn, FinishAgain, Step
<1>4. Top \notin current'
  BY <1>2, <1>3 DEF MatchInv
\* FinishRun of the run that the maker began.
<1>5. CASE BeginMaker
  <2>1. InCall("make") /\ More /\ step = "look" /\ program = "loop" /\ program' = "loop"
    BY <1>5 DEF BeginMaker, Step, InCall, Running
  <2>2. begun[Maker] = lastRun[Maker]
    BY <2>1, MakerState
  <2>3. unmatched' = {}
    BY <1>5, <2>1, <2>2 DEF BeginMaker, FinishRun, MatchInv
  <2> QED
    BY <1>1, <1>4, <2>1, <2>3 DEF MatchInv
<1>6. CASE program' \in {"init", "loop"} /\ ~ BeginMaker
  <2>1. unmatched' = unmatched /\ program \in {"init", "loop"}
    BY <1>6 DEF Next, vars, InitMaker, InitChain, InitReturn, NewEvent, SkipInactive, InitRun,
       MakeChain, ReadRun, EndMaker, EndChain, ReturnOK, EndEvent, EndLoop, Finish, Terminate,
       FinishMaker, FinishReturn, FinishAgain, Step, InCall, Running
  <2> QED
    BY <1>1, <1>4, <1>6, <2>1 DEF MatchInv
\* A maker is finished: the run of the header is not its own only if it was not
\* called since the number changed.
<1>7. ASSUME NEW c \in Makers, FinishesRun(c), c = Top \/ Over(c)', c \in current => ~ Over(c),
             UNCHANGED <<current, header>>, program' \notin {"init", "loop"},
             \A m \in Makers : m # c /\ Over(m) => Over(m)'
      PROVE  MatchInv'
  <2>1. c \in current => begun[c] = header
    BY <1>7 DEF MatchInv
  <2>2. /\ unmatched' \subseteq unmatched \cup {c}
        /\ begun[c] = header => unmatched' = unmatched
        /\ begun' = begun \/ begun' = [begun EXCEPT ![c] = NoRun]
    BY <1>7 DEF FinishesRun, FinishRun
  <2>3. unmatched' \cap current' = {}
    BY <1>7, <2>1, <2>2 DEF MatchInv
  <2>4. ASSUME NEW m \in current PROVE begun'[m] = header \/ Over(m)'
    BY <1>1, <1>7, <2>2 DEF MatchInv
  <2>5. \A m \in current' : (begun[m] = header \/ Over(m))'
    BY <1>7, <2>4
  <2> QED
    BY <1>4, <1>7, <2>3, <2>5 DEF MatchInv
<1>8. CASE Finish \/ Terminate
  <2>1. FinishesRun(Top) /\ UNCHANGED <<current, header, bits>> /\ program' \notin {"init", "loop"}
    BY <1>8 DEF Finish, Terminate, FinishTop
  <2>2. \A m \in Makers : Over(m)' <=> Over(m)
    BY <2>1 DEF Over, Phase
  <2> QED
    BY <1>1, <1>7, <2>1, <2>2 DEF MatchInv
<1>9. CASE FinishMaker
  <2>0. PICK c \in Others : c = Maker
    BY <1>9, FinishState DEF FinishMaker
  <2>1. /\ Phases[c] \in {"new", "ready"} /\ FinishesRun(c) /\ UNCHANGED <<header, current>>
        /\ bits' \in {SetBit(c, "FiniBeg"), SetBit(c, "FiniEnd")} /\ c \in Makers
        /\ program' \notin {"init", "loop"}
    BY <1>9, <2>0, FinishState DEF FinishMaker, Others, InCall, Running
  <2>2. ~ Over(c)
    BY <2>1 DEF Over, Phases
  <2>3. Over(c)' /\ \A m \in Makers : m # c => (Over(m)' <=> Over(m))
    BY <1>1, <2>1 DEF Over, Phase, SetBit
  <2> QED
    BY <1>7, <2>1, <2>2, <2>3
\* The steps that finish no run.
<1>10. ASSUME UNCHANGED <<unmatched, begun, header, current>>, program' \notin {"init", "loop"},
              \A m \in Makers : Over(m) => Over(m)'
       PROVE  MatchInv'
  <2>1. \A m \in current' : (begun[m] = header \/ Over(m))'
    BY <1>1, <1>10 DEF MatchInv
  <2> QED
    BY <1>4, <1>10, <2>1 DEF MatchInv
<1>11. CASE FinishReturn
  <2>1. /\ UNCHANGED <<unmatched, begun, header, current>> /\ program' \notin {"init", "loop"}
        /\ bits' = BitMoved(Frame.mk, "FiniBeg", "FiniEnd")
    BY <1>11 DEF FinishReturn, InCall, Running
  <2>2. \A c : bits' = BitMoved(c, "FiniBeg", "FiniEnd") => \A m \in Makers : Over(m) => Over(m)'
    BY <1>1 DEF Over, Phase, BitMoved
  <2> QED
    BY <1>10, <2>1, <2>2
<1>12. CASE InitMaker /\ program' \notin {"init", "loop"}
  <2>1. /\ UNCHANGED <<unmatched, begun, header, current>> /\ bits' = SetBit(Maker, "InitBeg")
    BY <1>12 DEF InitMaker, InCall, Running
  <2>2. \A c : bits' = SetBit(c, "InitBeg") => \A m \in Makers : Over(m) => Over(m)'
    BY <1>1 DEF Over, Phase, SetBit
  <2> QED
    BY <1>10, <1>12, <2>1, <2>2
<1>13. CASE (EndEvent \/ EndLoop \/ FinishAgain \/ UNCHANGED vars) /\ program' \notin {"init", "loop"}
  <2>1. UNCHANGED <<unmatched, begun, header, current, bits>>
    BY <1>13 DEF EndEvent, EndLoop, FinishAgain, vars
  <2> QED
    BY <1>10, <1>13, <2>1 DEF Over, Phase
<1>14. CASE program' \notin {"init", "loop"} /\ ~ (Finish \/ Terminate \/ FinishMaker \/ FinishReturn)
  <2>1. InitMaker \/ EndEvent \/ EndLoop \/ FinishAgain \/ UNCHANGED vars
    BY <1>14 DEF Next, InitChain, InitReturn, NewEvent, SkipInactive, BeginMaker, InitRun,
       MakeChain, ReadRun, EndMaker, EndChain, ReturnOK, Step, InCall, Running
  <2> QED
    BY <1>12, <1>13, <1>14, <2>1
<1> QED
  BY <1>5, <1>6, <1>8, <1>9, <1>11, <1>14

\* What FinishRunMatches leaves of StMaker.cxx:12-13: in the event loop FinishRun
\* is always of the run that the maker began, and Finish gives every maker its own
\* run that was called since the number in the header changed.
THEOREM MatchedWhenCalled ==
  Spec => [](/\ program = "loop" => unmatched = {}
             /\ unmatched \cap current = {})
<1>1. Init => MatchInv
  BY DEF Init, MatchInv
<1>2. MatchInv => /\ program = "loop" => unmatched = {}
                  /\ unmatched \cap current = {}
  BY DEF MatchInv
<1> QED
  BY <1>1, <1>2, StepMatchInv, ProtocolInvariance, PTL DEF Spec
=============================================================================
