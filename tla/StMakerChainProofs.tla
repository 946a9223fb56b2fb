------------------------- MODULE StMakerChainProofs -------------------------
(* Proofs for the maker chain: for every tree of makers, every set of active, *)
(* privileged and input makers and any number of events, each maker's InitRun *)
(* and FinishRun alternate and no maker works on a run it was not told of.    *)
EXTENDS StMakerChain, TLAPS

\* The types that the argument needs.
TypeInv ==
  /\ stack \in Seq([mk : Makers, op : {"init", "make", "finish"}, at : Int])
  /\ header \in Runs \cup {-2}
  /\ lastRun \in [Makers -> Runs \cup {-2, NoRun}]
  /\ begun \in [Makers -> Runs \cup {-2, NoRun}]
  /\ current \subseteq Makers

\* Until the event loop starts no maker has seen a run.
FreshInv == program = "init" =>
  /\ step = "look" /\ current = {}
  /\ \A m \in Makers : begun[m] = NoRun /\ lastRun[m] = NoRun

\* Between the look at a maker's run and the end of its Make the innermost call
\* is the Make of its chain, at that maker.
AtMakerInv == program = "loop" /\ step \in {"initrun", "make"} =>
  stack # <<>> /\ Frame.op = "make" /\ More

\* The run a maker is in is the one its chain remembers, but for the moment
\* between FinishRun of the old run and InitRun of the new one.
InInitRun(m) == /\ step = "initrun" /\ m = Maker /\ begun[m] \notin Runs
                /\ header # lastRun[m]
RememberedInv == program = "loop" =>
  \A m \in Makers : begun[m] = lastRun[m] \/ InInitRun(m)

\* A maker about to be given InitRun is in no real run.
EndedInv == program = "loop" /\ step = "initrun" => begun[Maker] \notin Runs

\* The maker about to be called has begun the run of the header.
ToldInv == program = "loop" /\ step = "make" => begun[Maker] = header

IInv == /\ TypeInv /\ FreshInv /\ AtMakerInv /\ RememberedInv /\ ToldInv
        /\ EndedInv /\ CurrentRunBegun
Frames == [mk : Makers, op : {"init", "make", "finish"}, at : Int]

USE DEF kStOK, kStWarn, kStEOF, kStErr, kStFatal, kStSKIP, NoRun

\* What the stack operations return: a stack again.
LEMMA StackTypes ==
  ASSUME NEW s \in Seq(Frames)
  PROVE  /\ s # <<>> => /\ Tail(s) \in Seq(Frames) /\ Head(s) \in Frames
                        /\ Forward(s) \in Seq(Frames)
                        /\ Backward(s) \in Seq(Frames)
         /\ \A f \in Frames : <<f>> \o s \in Seq(Frames)
<1>1. ASSUME s # <<>>
      PROVE  /\ Tail(s) \in Seq(Frames) /\ Head(s) \in Frames
             /\ s[1] \in Frames
  BY <1>1
<1>2. ASSUME NEW f \in Frames, NEW t \in Seq(Frames)
      PROVE  <<f>> \o t \in Seq(Frames)
  OBVIOUS
<1>3. ASSUME s # <<>>
      PROVE  Forward(s) \in Seq(Frames) /\ Backward(s) \in Seq(Frames)
  <2>1. /\ [s[1] EXCEPT !.at = @ + 1] \in Frames
        /\ [s[1] EXCEPT !.at = @ - 1] \in Frames
    BY <1>1, <1>3 DEF Frames
  <2>2. QED
    BY <1>1, <1>2, <1>3, <2>1 DEF Forward, Backward
<1>4. QED
  BY <1>1, <1>2, <1>3

\* A tail is empty only when one element was left.
LEMMA NonemptyTail ==
  ASSUME NEW S
  PROVE  /\ <<>> \in Seq(S)
         /\ \A s \in Seq(S) : s # <<>> /\ Len(s) # 1 =>
               Tail(s) \in Seq(S) /\ Tail(s) # <<>>
<1>1. <<>> \in Seq(S)
  OBVIOUS
<1>2. ASSUME NEW s \in Seq(S), s # <<>>, Len(s) # 1
      PROVE  Tail(s) \in Seq(S) /\ Tail(s) # <<>>
  <2>1. Len(s) \in Nat /\ Len(s) # 0
    BY <1>2
  <2>2. Tail(s) \in Seq(S) /\ Len(Tail(s)) = Len(s) - 1
    BY <1>2, <2>1
  <2>3. Len(Tail(s)) # 0
    BY <1>2, <2>1, <2>2
  <2>4. QED
    BY <2>2, <2>3
<1>3. QED
  BY <1>1, <1>2

\* The makers of a maker in the tree are in the tree.
LEMMA KidsAreMakers ==
  ASSUME NEW m \in Makers, NEW i \in DOMAIN Kids[m]
  PROVE  Kids[m][i] \in Makers
<1>1. Kids[m] \in Seq(Makers \ {Top})
  BY TreeAssumption
<1>2. QED
  BY <1>1

\* The current maker of a call that has one is a maker of the tree.
LEMMA MakerType ==
  ASSUME stack \in Seq(Frames), stack # <<>>, More
  PROVE  Maker \in Makers
<1>1. Frame \in Frames
  BY DEF Frame
<1>2. Frame.mk \in Makers /\ Frame.at \in DOMAIN Kids[Frame.mk]
  BY <1>1 DEF Frames, More
<1>3. QED
  BY <1>2, KidsAreMakers DEF Maker

LEMMA InitIInv == Init => IInv
<1> SUFFICES ASSUME Init PROVE IInv
  OBVIOUS
<1>1. stack \in Seq(Frames)
  BY TreeAssumption DEF Init, Frames
<1>2. TypeInv
  BY <1>1 DEF Init, TypeInv, Frames
<1>3. QED
  BY <1>2 DEF Init, IInv, FreshInv, AtMakerInv, RememberedInv, ToldInv, EndedInv, CurrentRunBegun

\* A step that moves the stack but lets no maker see anything, and leaves every
\* call with its maker yet to be looked at.
LEMMA QuietStep ==
  ASSUME IInv, stack' \in Seq(Frames), program' = "loop" => step' \notin {"initrun", "make"},
         program' = "loop" => program \in {"init", "loop"} /\ step # "initrun",
         program' = "init" => program = "init" /\ step' = step,
         UNCHANGED <<header, lastRun, begun>>,
         current' \subseteq Makers,
         program' = "init" => current' = current,
         program' = "loop" =>
            \A m \in current' : m \in current \/ begun[m] = header
  PROVE  IInv'
<1>1. TypeInv'
  BY DEF IInv, TypeInv, Frames
<1>2. FreshInv'
  BY DEF IInv, FreshInv
<1>3. AtMakerInv'
  BY DEF AtMakerInv
<1>4. program' = "loop" => \A m \in Makers : begun[m] = lastRun[m]
  BY DEF IInv, FreshInv, RememberedInv, InInitRun
<1>5. RememberedInv'
  BY <1>4 DEF RememberedInv
<1>6. ToldInv'
  BY DEF ToldInv
<1>0. EndedInv'
  BY DEF EndedInv
<1>7. CurrentRunBegun'
  BY DEF IInv, FreshInv, CurrentRunBegun
<1>8. QED
  BY <1>0, <1>1, <1>2, <1>3, <1>5, <1>6, <1>7 DEF IInv

\* Outside the event loop the claims are about types only.
LEMMA FinishingStep ==
  ASSUME IInv, stack' \in Seq(Frames), program' \notin {"init", "loop"},
         UNCHANGED <<header, lastRun, current>>,
         begun' \in [Makers -> Runs \cup {-2, NoRun}]
  PROVE  IInv'
BY DEF IInv, TypeInv, FreshInv, AtMakerInv, RememberedInv, ToldInv, EndedInv, CurrentRunBegun, Frames

\* FinishRun keeps the type of begun.
LEMMA FinishRunType ==
  ASSUME TypeInv, NEW m \in Makers, FinishesRun(m)
  PROVE  begun' \in [Makers -> Runs \cup {-2, NoRun}]
BY DEF TypeInv, FinishesRun, FinishRun

LEMMA PushType ==
  ASSUME stack \in Seq(Frames), NEW m \in Makers,
         NEW op \in {"init", "make", "finish"}, NEW i \in Int
  PROVE  Push(m, op, i) \in Seq(Frames)
<1>1. [mk |-> m, op |-> op, at |-> i] \in Frames
  BY DEF Frames
<1>2. QED
  BY <1>1, StackTypes DEF Push

LEMMA KidsLength == ASSUME NEW m \in Makers PROVE Len(Kids[m]) \in Nat
<1>1. Kids[m] \in Seq(Makers \ {Top})
  BY TreeAssumption
<1>2. QED
  BY <1>1

\* Every step keeps the invariant.
LEMMA StepIInv == IInv /\ [Next]_vars => IInv'
<1> SUFFICES ASSUME IInv, [Next]_vars PROVE IInv'
  OBVIOUS
<1> USE DEF history, counters
<1>a. stack \in Seq(Frames) /\ TypeInv /\ Top \in Makers
  BY TreeAssumption DEF IInv, TypeInv, Frames
<1>1. CASE InitMaker
  <2>1. stack' \in Seq(Frames)
    <3>1. stack # <<>> /\ stack' \in {<<>>, Forward(stack)}
      BY <1>1 DEF InitMaker, InCall
    <3>2. Forward(stack) \in Seq(Frames)
      BY <3>1, <1>a, StackTypes
    <3>3. QED
      BY <3>1, <3>2, NonemptyTail
  <2>2. QED
    BY <1>1, <2>1, QuietStep DEF InitMaker, InCall, Running, IInv, TypeInv, FreshInv
<1>2. CASE InitChain
  <2>1. stack' \in Seq(Frames)
    BY <1>2, <1>a, MakerType, PushType DEF InitChain, InCall
  <2>2. QED
    BY <1>2, <2>1, QuietStep DEF InitChain, InCall, Running, IInv, TypeInv, FreshInv
<1>3. CASE InitReturn
  <2>1. stack' \in Seq(Frames)
    <3>1. CASE Len(stack) = 1
      BY <1>3, <3>1 DEF InitReturn
    <3>2. CASE Len(stack) # 1
      <4>1. Tail(stack) \in Seq(Frames) /\ Tail(stack) # <<>>
        <5>1. stack # <<>>
          BY <1>3 DEF InitReturn, InCall
        <5>2. QED
          BY <1>a, <3>2, <5>1, NonemptyTail
      <4>2. QED
        BY <1>3, <3>2, <4>1, StackTypes DEF InitReturn
    <3>3. QED
      BY <3>1, <3>2
  <2>2. QED
    BY <1>3, <2>1, QuietStep DEF InitReturn, InCall, Running, IInv, TypeInv, FreshInv
<1>4. CASE NewEvent
  <2>1. stack' \in Seq(Frames)
    BY <1>4, <1>a, PushType DEF NewEvent
  <2>2. QED
    BY <1>4, <2>1, QuietStep DEF NewEvent, IInv, TypeInv
<1>5. CASE SkipInactive
  <2>1. stack' \in Seq(Frames)
    BY <1>5, <1>a, StackTypes DEF SkipInactive, Step, InCall
  <2>2. QED
    BY <1>5, <2>1, QuietStep DEF SkipInactive, Step, InCall, Running, IInv, TypeInv
<1>6. CASE BeginMaker
  <2> DEFINE c == Maker
  <2>1. /\ c \in Makers /\ stack # <<>> /\ Frame.op = "make" /\ More
        /\ program = "loop" /\ step = "look"
        /\ UNCHANGED <<stack, program, header, lastRun, current>>
    BY <1>6, <1>a, MakerType DEF BeginMaker, Step, InCall, Running
  <2>2. \A m \in Makers : begun[m] = lastRun[m]
    BY <2>1 DEF IInv, RememberedInv, InInitRun
  <2>3. step' = (IF header # lastRun[c] THEN "initrun" ELSE "make")
    BY <1>6 DEF BeginMaker, LooksAtRun
  <2>4. begun' = IF EndsOldRun(c) THEN [begun EXCEPT ![c] = NoRun] ELSE begun
    BY <1>6 DEF BeginMaker, FinishRun
  <2>5. TypeInv'
    BY <2>1, <2>4, <1>a DEF TypeInv
  <2>6. UNCHANGED <<Frame, More, Maker>>
    BY <2>1 DEF Frame, More, Maker
  <2>7. AtMakerInv'
    BY <2>1, <2>6 DEF AtMakerInv
  <2>8. FreshInv'
    BY <2>1 DEF FreshInv
  <2>9. ASSUME header # lastRun[c] PROVE begun'[c] \notin Runs
    <3>1. CASE lastRun[c] > -1
      BY <2>1, <2>4, <2>9, <3>1, <1>a, ParametersAssumption DEF EndsOldRun, TypeInv
    <3>2. CASE ~ (lastRun[c] > -1)
      <4>1. begun'[c] = lastRun[c]
        BY <2>1, <2>2, <2>4, <3>2 DEF EndsOldRun
      <4>2. \A r \in Runs : r > -1
        BY ParametersAssumption
      <4>3. QED
        BY <3>2, <4>1, <4>2
    <3>3. QED
      BY <3>1, <3>2
  <2>10. RememberedInv'
    <3> SUFFICES ASSUME NEW m \in Makers
                 PROVE  begun'[m] = lastRun'[m] \/ InInitRun(m)'
      BY DEF RememberedInv
    <3>1. CASE m # c
      BY <2>1, <2>2, <2>4, <3>1, <1>a DEF TypeInv
    <3>2. CASE m = c /\ header = lastRun[c]
      BY <2>1, <2>2, <2>4, <3>2 DEF EndsOldRun
    <3>3. CASE m = c /\ header # lastRun[c]
      BY <2>1, <2>3, <2>6, <2>9, <3>3 DEF InInitRun
    <3>4. QED
      BY <3>1, <3>2, <3>3
  <2>11. ToldInv'
    BY <2>1, <2>2, <2>3, <2>4, <2>6 DEF ToldInv, EndsOldRun
  <2>12. CurrentRunBegun'
    <3> SUFFICES ASSUME NEW m \in current PROVE begun'[m] = header
      BY <2>1 DEF CurrentRunBegun
    <3>1. begun[m] = header /\ m \in Makers
      BY <2>1, <1>a DEF IInv, CurrentRunBegun, TypeInv
    <3>2. QED
      BY <2>1, <2>2, <2>4, <3>1, <1>a DEF EndsOldRun, TypeInv
  <2>13. EndedInv'
    BY <2>1, <2>3, <2>6, <2>9 DEF EndedInv
  <2>14. QED
    BY <2>5, <2>7, <2>8, <2>10, <2>11, <2>12, <2>13 DEF IInv
<1>7. CASE InitRun
  <2> DEFINE c == Maker
  <2>1. /\ c \in Makers /\ stack # <<>> /\ Frame.op = "make" /\ More
        /\ program = "loop" /\ step = "initrun" /\ step' = "make"
        /\ begun' = [begun EXCEPT ![c] = header]
        /\ lastRun' = [lastRun EXCEPT ![c] = header]
        /\ UNCHANGED <<stack, program, header, current>>
    BY <1>7, <1>a, MakerType DEF InitRun, Step, InCall, Running, IInv, AtMakerInv
  <2>2. TypeInv'
    BY <2>1, <1>a DEF TypeInv
  <2>3. UNCHANGED <<Frame, More, Maker>>
    BY <2>1 DEF Frame, More, Maker
  <2>4. AtMakerInv' /\ FreshInv'
    BY <2>1, <2>3 DEF AtMakerInv, FreshInv
  <2>5. RememberedInv'
    BY <2>1, <1>a DEF IInv, RememberedInv, InInitRun, TypeInv
  <2>6. ToldInv'
    BY <2>1, <2>3, <1>a DEF ToldInv, TypeInv
  <2>7. CurrentRunBegun'
    BY <2>1, <1>a DEF IInv, CurrentRunBegun, TypeInv
  <2>8. EndedInv'
    BY <2>1 DEF EndedInv
  <2>9. QED
    BY <2>2, <2>4, <2>5, <2>6, <2>7, <2>8 DEF IInv
<1>8. CASE MakeChain
  <2>1. /\ Maker \in Makers /\ program = "loop" /\ step = "make"
        /\ begun[Maker] = header
    BY <1>8, <1>a, MakerType DEF MakeChain, Step, InCall, Running, IInv, AtMakerInv, ToldInv
  <2>2. stack' \in Seq(Frames)
    BY <1>8, <2>1, <1>a, PushType DEF MakeChain
  <2>3. QED
    BY <1>8, <2>1, <2>2, <1>a, QuietStep DEF MakeChain, Made, TypeInv
<1>9. ASSUME NEW r \in Runs, ReadRun(r) PROVE IInv'
  <2>1. /\ program = "loop" /\ step = "make" /\ step' = "read"
        /\ header' = r /\ current' = {}
        /\ UNCHANGED <<stack, program, lastRun, begun>>
    BY <1>9 DEF ReadRun, Step, InCall, Running
  <2>2. \A m \in Makers : begun[m] = lastRun[m]
    BY <2>1 DEF IInv, RememberedInv, InInitRun
  <2>3. QED
    BY <2>1, <2>2, <1>a
       DEF IInv, TypeInv, FreshInv, AtMakerInv, RememberedInv, ToldInv, EndedInv, CurrentRunBegun
<1>10. ASSUME NEW r \in Codes, EndMaker(r) PROVE IInv'
  <2>1. /\ program = "loop" /\ step \in {"make", "read"} /\ stack # <<>>
        /\ step = "make" => Maker \in Makers /\ begun[Maker] = header
    BY <1>10, <1>a, MakerType DEF EndMaker, Step, InCall, Running, IInv, AtMakerInv, ToldInv
  <2>2. stack' \in Seq(Frames) /\ step' \in {"look", "back"}
    BY <1>10, <2>1, <1>a, StackTypes DEF EndMaker, AfterMaker, Returned
  <2>3. /\ UNCHANGED <<program, header, lastRun, begun>>
        /\ current' = IF step = "make" THEN current \cup {Maker} ELSE current
    BY <1>10 DEF EndMaker, Made
  <2>4. QED
    BY <2>1, <2>2, <2>3, <1>a, QuietStep DEF TypeInv
<1>11. CASE EndChain
  <2>1. stack' \in Seq(Frames) /\ step' \in {"look", "back"}
    BY <1>11, <1>a, StackTypes DEF EndChain, Step, InCall, AfterMaker, Returned
  <2>2. QED
    BY <1>11, <2>1, <1>a, QuietStep DEF EndChain, Step, InCall, Running, TypeInv
<1>12. CASE ReturnOK
  <2>1. stack' \in Seq(Frames) /\ step' = "back"
    BY <1>12, <1>a, StackTypes DEF ReturnOK, Step, InCall, Returned
  <2>2. QED
    BY <1>12, <2>1, <1>a, QuietStep DEF ReturnOK, Step, InCall, Running, TypeInv
<1>13. CASE EndEvent
  BY <1>13, <1>a, QuietStep DEF EndEvent, TypeInv
<1>14. CASE EndLoop
  BY <1>14, <1>a, QuietStep DEF EndLoop, TypeInv
<1>15. ASSUME FinishTop, program' \in {"finish", "terminated"} PROVE IInv'
  <2>1. stack' \in Seq(Frames)
    <3>1. Len(Kids[Top]) \in Int
      BY <1>a, KidsLength
    <3>2. Push(Top, "finish", Len(Kids[Top])) \in Seq(Frames)
      BY <1>a, <3>1, PushType
    <3>3. QED
      BY <1>15, <3>2 DEF FinishTop
  <2>2. begun' \in [Makers -> Runs \cup {-2, NoRun}]
    BY <1>15, <1>a, FinishRunType DEF FinishTop
  <2>3. QED
    BY <1>15, <2>1, <2>2, FinishingStep DEF FinishTop
<1>16. CASE Finish
  BY <1>15, <1>16 DEF Finish
<1>17. CASE Terminate
  BY <1>15, <1>17 DEF Terminate
<1>18. CASE FinishMaker
  <2>1. Maker \in Makers /\ stack # <<>>
    BY <1>18, <1>a, MakerType DEF FinishMaker, InCall
  <2>2. stack' \in Seq(Frames)
    <3>1. Backward(stack) \in Seq(Frames)
      BY <2>1, <1>a, StackTypes
    <3>2. Push(Maker, "finish", Len(Kids[Maker])) \in Seq(Frames)
      <4>1. Len(Kids[Maker]) \in Int
        BY <2>1, KidsLength
      <4>2. QED
        BY <2>1, <4>1, <1>a, PushType
    <3>3. QED
      BY <1>18, <3>1, <3>2 DEF FinishMaker
  <2>3. begun' \in [Makers -> Runs \cup {-2, NoRun}]
    BY <1>18, <2>1, <1>a, FinishRunType DEF FinishMaker
  <2>4. program' \notin {"init", "loop"} /\ UNCHANGED <<header, lastRun, current>>
    BY <1>18 DEF FinishMaker, InCall, Running
  <2>5. QED
    BY <2>2, <2>3, <2>4, FinishingStep
<1>19. CASE FinishReturn
  <2>1. stack' \in Seq(Frames)
    <3>1. CASE Len(stack) > 1 /\ stack[2].op = "finish"
      <4>1. Tail(stack) \in Seq(Frames) /\ Tail(stack) # <<>>
        <5>1. stack # <<>> /\ Len(stack) # 1
          BY <1>19, <3>1 DEF FinishReturn, InCall
        <5>2. QED
          BY <1>a, <5>1, NonemptyTail
      <4>2. QED
        BY <1>19, <3>1, <4>1, StackTypes DEF FinishReturn
    <3>2. CASE ~ (Len(stack) > 1 /\ stack[2].op = "finish")
      BY <1>19, <3>2, NonemptyTail DEF FinishReturn
    <3>3. QED
      BY <3>1, <3>2
  <2>2. program' \notin {"init", "loop"} /\ UNCHANGED <<header, lastRun, current, begun>>
    BY <1>19 DEF FinishReturn, InCall, Running
  <2>3. QED
    BY <2>1, <2>2, <1>a, FinishingStep DEF TypeInv
<1>20. CASE FinishAgain
  BY <1>20 DEF FinishAgain, vars, IInv, TypeInv, FreshInv, AtMakerInv, RememberedInv,
     ToldInv, EndedInv, CurrentRunBegun, InInitRun, Frame, More, Maker
<1>21. CASE UNCHANGED vars
  BY <1>21 DEF vars, IInv, TypeInv, FreshInv, AtMakerInv, RememberedInv, ToldInv,
     EndedInv, CurrentRunBegun, InInitRun, Frame, More, Maker
<1>22. QED
  BY <1>1, <1>2, <1>3, <1>4, <1>5, <1>6, <1>7, <1>8, <1>9, <1>10, <1>11, <1>12,
     <1>13, <1>14, <1>16, <1>17, <1>18, <1>19, <1>20, <1>21 DEF Next

\* The invariant holds in every reachable state.
THEOREM Invariance == Spec => []IInv
<1>1. QED
  BY InitIInv, StepIInv, PTL DEF Spec

\* Whatever the tree, the makers and what they return, a maker that works on an
\* event was told of the event's run: each maker called since the number in the
\* header changed was last given InitRun of that number.
THEOREM CurrentRunHolds == Spec => []CurrentRunBegun
<1>1. IInv => CurrentRunBegun
  BY DEF IInv
<1>2. QED
  BY <1>1, Invariance, PTL

\* A step that begins a run for a maker finds it without a real run.
LEMMA StepAlternates ==
  ASSUME IInv, [Next]_vars, NEW m \in Makers, begun'[m] \notin {begun[m], NoRun}
  PROVE  begun[m] \notin Runs
<1> USE DEF history, counters
<1>1. begun \in [Makers -> Runs \cup {-2, NoRun}] /\ Top \in Makers
  BY TreeAssumption DEF IInv, TypeInv
<1>2. CASE InitRun
  <2>1. program = "loop" /\ step = "initrun" /\ m = Maker
    BY <1>1, <1>2 DEF InitRun, Step, InCall, Running
  <2>2. QED
    BY <2>1 DEF IInv, EndedInv
<1>3. ASSUME NEW n, FinishRun(n, header) \/ FinishRun(n, lastRun[n])
      PROVE  begun'[m] \in {begun[m], NoRun}
  BY <1>1, <1>3 DEF FinishRun
<1>4. CASE BeginMaker
  BY <1>3, <1>4 DEF BeginMaker
<1>5. CASE Finish \/ Terminate
  BY <1>3, <1>5 DEF Finish, Terminate, FinishTop, FinishesRun
<1>6. CASE FinishMaker
  BY <1>3, <1>6 DEF FinishMaker, FinishesRun
<1>7. CASE UNCHANGED begun
  BY <1>7
<1>8. QED
  BY <1>2, <1>4, <1>5, <1>6, <1>7
     DEF Next, InitMaker, InitChain, InitReturn, NewEvent, SkipInactive, MakeChain,
         ReadRun, EndMaker, EndChain, ReturnOK, EndEvent, EndLoop, FinishReturn,
         FinishAgain, vars

\* InitRun and FinishRun of a maker alternate in every chain: no maker begins a
\* run while a real run it began before has not been finished.
THEOREM AlternationHolds == Spec => RunsAlternate
<1>1. IInv /\ [Next]_vars =>
        [\A m \in Makers : begun'[m] \notin {begun[m], NoRun} => begun[m] \notin Runs]_vars
  BY StepAlternates
<1>2. QED
  BY <1>1, Invariance, PTL DEF Spec, RunsAlternate
=============================================================================
