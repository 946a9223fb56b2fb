---------------------------- MODULE StMakerChain ----------------------------
(* The maker chain: a tree of makers run event by event.  A maker with makers *)
(* below it (a chain) calls them in order from its own Init, Make and Finish; *)
(* stack holds these calls, the innermost first, and step what the innermost  *)
(* one does with its current maker.  A maker learns of a run through InitRun  *)
(* and FinishRun, which its chain calls when the number in the event header   *)
(* is not the one the maker saw last.  The process may receive SIGTERM        *)
(* anywhere in the event loop; its handler finishes the top chain and exits.  *)
EXTENDS Integers, Sequences, Functions

CONSTANTS Makers,      \* all the makers
          Top,         \* StMaker::fgTopChain
          Kids,        \* Kids[m]: the makers of m in the order of its list
          Active,      \* makers with the bit kActive
          Privileged,  \* makers with the attribute .Privilege
          Inputs,      \* makers that set the run number of the header
          Runs,        \* run numbers of real data
          Codes,       \* what a maker's Make may return
          Last,        \* EventLoop(1, Last, outMk)
          OutMk        \* EventLoop was given an outMk

kStOK == 0
kStWarn == 1
kStEOF == 2
kStErr == 3
kStFatal == 4
kStSKIP == kStErr + 10

ASSUME TreeAssumption ==
  /\ Top \in Makers /\ Kids \in [Makers -> Seq(Makers \ {Top})]
  /\ \A m, n \in Makers : \A i \in DOMAIN Kids[m], j \in DOMAIN Kids[n] :
        Kids[m][i] = Kids[n][j] => m = n /\ i = j
ASSUME MakersAssumption ==
  Active \subseteq Makers /\ Privileged \subseteq Makers /\ Inputs \subseteq Makers
ASSUME ParametersAssumption ==
  /\ Runs \subseteq Nat /\ Last \in Nat /\ OutMk \in BOOLEAN
  /\ Codes \subseteq {kStOK, kStWarn, kStEOF, kStErr, kStFatal, kStSKIP}

VARIABLES
  program,   \* where the main program is
  stack,     \* calls of Init, Make or Finish over the makers of a chain
  step,      \* what the innermost Make does with its current maker
  ret,       \* the value returned last
  bits,      \* status bits of each maker
  header,    \* run number in the event header
  lastRun,   \* m_LastRun of each maker
  event,     \* jCur
  nTotal, nFailed,   \* mNTotal, mNFailed
  \* history: what has been called
  begun,     \* the run each maker was last given by InitRun and not yet ended
  unmatched, \* makers given a FinishRun of a run that they had not begun
  made,      \* makers called in this event
  current,   \* makers called since the header's run number last changed
  left,      \* chains that a privileged maker asked to leave in this event
  halted     \* some maker has returned an end of file or a fatal error

history == <<begun, unmatched, made, current, left, halted>>
counters == <<event, nTotal, nFailed>>
vars == <<program, stack, step, ret, bits, header, lastRun, counters, history>>

NoRun == -3
Chains == {m \in Makers : Kids[m] # <<>>}
Bits == {"InitBeg", "InitEnd", "MakeBeg", "FiniBeg", "FiniEnd"}

TypeOK ==
  /\ program \in {"init", "loop", "finish", "finished", "terminated", "exited"}
  /\ stack \in Seq([mk : Makers, op : {"init", "make", "finish"}, at : Nat])
  /\ step \in {"look", "initrun", "make", "read", "back"}
  /\ ret \in Codes \cup {kStOK, kStErr}
  /\ bits \in [Makers -> SUBSET Bits]
  /\ header \in Runs \cup {-2}
  /\ lastRun \in [Makers -> Runs \cup {-2, NoRun}]
  /\ event \in 1 .. Last + 1 /\ nTotal \in 0 .. Last /\ nFailed \in 0 .. Last
  /\ begun \in [Makers -> Runs \cup {-2, NoRun}]
  /\ unmatched \subseteq Makers /\ made \subseteq Makers /\ current \subseteq Makers
  /\ left \subseteq Chains /\ halted \in BOOLEAN

Init ==
  /\ program = "init" /\ step = "look" /\ ret = kStOK
  /\ stack = <<[mk |-> Top, op |-> "init", at |-> 1]>>
  /\ bits = [m \in Makers |-> {}]
  /\ header = -2
  /\ lastRun = [m \in Makers |-> NoRun]
  /\ event = 1 /\ nTotal = 0 /\ nFailed = 0
  /\ begun = [m \in Makers |-> NoRun] /\ unmatched = {} /\ made = {}
  /\ current = {} /\ left = {} /\ halted = FALSE

Frame == Head(stack)
Running(op) == /\ op = "init" => program = "init"
               /\ op = "make" => program = "loop"
               /\ op = "finish" => program \in {"finish", "terminated"}
InCall(op) == stack # <<>> /\ Frame.op = op /\ Running(op)
More == Frame.at \in DOMAIN Kids[Frame.mk]
Maker == Kids[Frame.mk][Frame.at]        \* the innermost call's current maker
IsChain(m) == m \in Chains
Forward(s) == <<[s[1] EXCEPT !.at = @ + 1]>> \o Tail(s)
Backward(s) == <<[s[1] EXCEPT !.at = @ - 1]>> \o Tail(s)
Push(m, op, i) == <<[mk |-> m, op |-> op, at |-> i]>> \o stack
SetBit(m, b) == [bits EXCEPT ![m] = @ \cup {b}]
BitMoved(m, b, e) == [bits EXCEPT ![m] = (@ \ {b}) \cup {e}]

-----------------------------------------------------------------------------
\* Init of the makers, before the event loop

\* A maker without makers of its own is initialised; the first failure ends
\* Init of every chain above it, and the bit kInitBeg stays set on the way.
InitMaker ==
  /\ InCall("init") /\ More /\ ~ IsChain(Maker)
  /\ \/ /\ bits' = SetBit(Maker, "InitEnd")
        /\ stack' = Forward(stack)
        /\ UNCHANGED <<program, ret>>
     \/ /\ bits' = SetBit(Maker, "InitBeg")
        /\ stack' = <<>> /\ ret' = kStErr /\ program' = "finish"
  /\ UNCHANGED <<step, header, lastRun, counters, history>>

InitChain ==
  /\ InCall("init") /\ More /\ IsChain(Maker)
  /\ bits' = SetBit(Maker, "InitBeg")
  /\ stack' = Push(Maker, "init", 1)
  /\ UNCHANGED <<program, step, ret, header, lastRun, counters, history>>

InitReturn ==
  /\ InCall("init") /\ ~ More
  /\ IF Len(stack) = 1
       THEN stack' = <<>> /\ program' = "loop" /\ UNCHANGED bits
       ELSE /\ stack' = Forward(Tail(stack))
            /\ bits' = BitMoved(Frame.mk, "InitBeg", "InitEnd")
            /\ UNCHANGED program
  /\ UNCHANGED <<step, ret, header, lastRun, counters, history>>

-----------------------------------------------------------------------------
\* StMaker::Make, over the makers of one chain

Step(s) == step = s /\ InCall("make")

SkipInactive ==
  /\ Step("look") /\ More /\ Maker \notin Active
  /\ stack' = Forward(stack)
  /\ UNCHANGED <<program, step, ret, bits, header, lastRun, counters, history>>

\* Mutant: the old run is not finished.
EndsOldRunNever(m) == FALSE

\* The number in the header is compared with the maker's own last run; the old
\* run is finished before the new one is begun.
EndsOldRun(m) == header # lastRun[m] /\ lastRun[m] > -1

\* Mutant: the run of the chain's first maker is looked at.
LooksAtChainRun(m) ==
  IF header # lastRun[Kids[Frame.mk][1]] THEN "initrun" ELSE "make"
LooksAtRun(m) == IF header # lastRun[m] THEN "initrun" ELSE "make"

FinishRun(m, run) ==
  /\ begun' = [begun EXCEPT ![m] = NoRun]
  /\ unmatched' = IF begun[m] = run THEN unmatched ELSE unmatched \cup {m}

BeginMaker ==
  /\ Step("look") /\ More /\ Maker \in Active
  /\ bits' = SetBit(Maker, "MakeBeg")
  /\ IF EndsOldRun(Maker) THEN FinishRun(Maker, lastRun[Maker])
                          ELSE UNCHANGED <<begun, unmatched>>
  /\ step' = LooksAtRun(Maker)
  /\ UNCHANGED <<program, stack, ret, header, lastRun, counters, made, current,
                 left, halted>>

InitRun ==
  /\ Step("initrun")
  /\ begun' = [begun EXCEPT ![Maker] = header]
  /\ lastRun' = [lastRun EXCEPT ![Maker] = header]
  /\ step' = "make"
  /\ UNCHANGED <<program, stack, ret, bits, header, counters, unmatched, made,
                 current, left, halted>>

Made == made' = made \cup {Maker} /\ current' = current \cup {Maker}

\* The maker is a chain: its Make loops over its own makers.
MakeChain ==
  /\ Step("make") /\ IsChain(Maker)
  /\ stack' = Push(Maker, "make", 1)
  /\ step' = "look"
  /\ Made
  /\ UNCHANGED <<program, ret, bits, header, lastRun, counters, begun,
                 unmatched, left, halted>>

\* An input maker reads an event of another run.
ReadRun(r) ==
  /\ Step("make") /\ Maker \in Inputs /\ r # header
  /\ header' = r
  /\ made' = made \cup {Maker} /\ current' = {}
  /\ step' = "read"
  /\ UNCHANGED <<program, stack, ret, bits, lastRun, counters, begun, unmatched,
                 left, halted>>

\* Mutant: the privilege is asked for every value.
EndsIfPrivileged(m, r) == r % 10 > kStWarn /\ m \in Privileged

\* Mutant: the privilege is not asked.
EndsOnError(m, r) == r % 10 > kStWarn

\* What a value returned by maker m does to the loop that called it: anything
\* worse than a warning ends the loop, but an error only if m is privileged.
Ends(m, r) == /\ r % 10 > kStWarn
              /\ r % 10 = kStErr => m \in Privileged

Returned(s, r) ==        \* the loop of s returns r to the one below it
  /\ stack' = Tail(s) /\ ret' = r /\ step' = "back"

Left(m, r) ==
  left' = IF r % 10 = kStErr /\ m \in Privileged THEN left \cup {Frame.mk} ELSE left

\* Mutant: kMakeBeg is not reset on the early return.
AfterMakerEarly(m, r) ==
  /\ IF Ends(m, r)
       THEN Returned(stack, r) /\ UNCHANGED bits
       ELSE /\ stack' = Forward(stack) /\ step' = "look" /\ UNCHANGED ret
            /\ bits' = [bits EXCEPT ![m] = @ \ {"MakeBeg"}]
  /\ Left(m, r)

AfterMaker(m, r) ==
  /\ bits' = [bits EXCEPT ![m] = @ \ {"MakeBeg"}]
  /\ IF Ends(m, r)
       THEN Returned(stack, r)
       ELSE stack' = Forward(stack) /\ step' = "look" /\ UNCHANGED ret
  /\ Left(m, r)

EndMaker(r) ==
  /\ Step("make") \/ Step("read")
  /\ ~ IsChain(Maker)
  /\ IF step = "make" THEN Made ELSE UNCHANGED <<made, current>>
  /\ halted' = (halted \/ r % 10 \in {kStEOF, kStFatal})
  /\ AfterMaker(Maker, r)
  /\ UNCHANGED <<program, header, lastRun, counters, begun, unmatched>>

EndChain ==
  /\ Step("back")
  /\ AfterMaker(Maker, ret)
  /\ UNCHANGED <<program, header, lastRun, counters, begun, unmatched, made,
                 current, halted>>

ReturnOK ==
  /\ Step("look") /\ ~ More
  /\ Returned(stack, kStOK)
  /\ UNCHANGED <<program, bits, header, lastRun, counters, history>>

-----------------------------------------------------------------------------
\* StChain::EventLoop

\* Mutant: one event too many.
MoreEventsUpToNext == event <= Last + 1

MoreEvents == event <= Last

\* Clear() of all the makers, and Make(jCur) of the top chain.
NewEvent ==
  /\ program = "loop" /\ stack = <<>> /\ step = "look" /\ MoreEvents
  /\ stack' = Push(Top, "make", 1)
  /\ made' = {} /\ left' = {}
  /\ UNCHANGED <<program, step, ret, bits, header, lastRun, counters, begun,
                 unmatched, current, halted>>

EndEvent ==
  /\ program = "loop" /\ stack = <<>> /\ step = "back"
  /\ nFailed' = nFailed + (IF OutMk /\ ret = kStErr THEN 1 ELSE 0)
  /\ step' = "look"
  /\ IF ret % 10 \in {kStEOF, kStFatal}
       THEN program' = "finish" /\ UNCHANGED <<event, nTotal>>
       ELSE nTotal' = nTotal + 1 /\ event' = event + 1 /\ UNCHANGED program
  /\ UNCHANGED <<stack, ret, bits, header, lastRun, history>>

EndLoop ==
  /\ program = "loop" /\ stack = <<>> /\ step = "look" /\ ~ MoreEvents
  /\ program' = "finish"
  /\ UNCHANGED <<stack, step, ret, bits, header, lastRun, counters, history>>

-----------------------------------------------------------------------------
\* StMaker::Finish: a maker ends the run of the header, then its makers are
\* finished from the last to the first.

FinishesRun(m) == IF header > -1 THEN FinishRun(m, header)
                                 ELSE UNCHANGED <<begun, unmatched>>

FinishTop ==
  /\ "FiniEnd" \notin bits[Top]
  /\ FinishesRun(Top)
  /\ stack' = Push(Top, "finish", Len(Kids[Top]))
  /\ UNCHANGED <<step, ret, bits, header, lastRun, counters, made, current, left,
                 halted>>

Finish == program = "finish" /\ stack = <<>> /\ FinishTop /\ UNCHANGED program

\* SIGTERM in the event loop: the handler finishes the top chain on top of
\* whatever runs and then ends the process.
Terminate == program = "loop" /\ FinishTop /\ program' = "terminated"

FinishMaker ==
  /\ InCall("finish") /\ More /\ "FiniEnd" \notin bits[Maker]
  /\ FinishesRun(Maker)
  /\ IF IsChain(Maker)
       THEN /\ stack' = Push(Maker, "finish", Len(Kids[Maker]))
            /\ bits' = SetBit(Maker, "FiniBeg")
       ELSE stack' = Backward(stack) /\ bits' = SetBit(Maker, "FiniEnd")
  /\ UNCHANGED <<program, step, ret, header, lastRun, counters, made, current,
                 left, halted>>

\* Mutant: an inactive maker ends the loop.
FinishDoneEarly == More => Maker \notin Active

FinishDone == ~ More

FinishReturn ==
  /\ InCall("finish") /\ FinishDone
  /\ bits' = BitMoved(Frame.mk, "FiniBeg", "FiniEnd")
  /\ IF Len(stack) > 1 /\ stack[2].op = "finish"
       THEN stack' = Backward(Tail(stack)) /\ UNCHANGED program
       ELSE /\ stack' = <<>>
            /\ program' = IF program = "terminated" THEN "exited" ELSE "finished"
  /\ UNCHANGED <<step, ret, header, lastRun, counters, history>>

\* ~StBFChain calls Finish again.
FinishAgain ==
  /\ program = "finished" /\ "FiniEnd" \in bits[Top]
  /\ UNCHANGED vars

Next ==
  \/ InitMaker \/ InitChain \/ InitReturn
  \/ NewEvent \/ SkipInactive \/ BeginMaker \/ InitRun \/ MakeChain
  \/ (\E r \in Runs : ReadRun(r)) \/ (\E r \in Codes : EndMaker(r))
  \/ EndChain \/ ReturnOK \/ EndEvent \/ EndLoop
  \/ Finish \/ Terminate \/ FinishMaker \/ FinishReturn \/ FinishAgain

Spec == Init /\ [][Next]_vars /\ WF_vars(Next)
-----------------------------------------------------------------------------
\* Properties

\* The makers that are reached from maker m through makers of set S alone: the
\* least set that has, with a maker or m, those of its makers that are in S.
Reached(m, S) ==
  {k \in Makers : \A R \in SUBSET Makers :
     (\A x \in R \cup {m} : Range(Kids[x]) \cap S \subseteq R) => k \in R}

\* Below[m]: the makers below m at any depth.  Called[m]: those of them that are
\* active and reached through active chains.
Below == [m \in Makers |-> Reached(m, Makers)]
Called == [m \in Makers |-> Reached(m, Active)]

\* The makers whose Make is under way: in each call of Make, the current maker
\* once the call has gone past looking at it.
InMake(i) == /\ stack[i].op = "make"
             /\ (i > 1 /\ stack[i - 1].op = "make") \/ step # "look"
UnderWay == {Kids[stack[i].mk][stack[i].at] : i \in {j \in DOMAIN stack : InMake(j)}}

\* A maker has kMakeBeg exactly while its Make is under way, at any depth and on
\* every way out of the loop, so the assertion that a maker is not entered twice
\* (StMaker.cxx, assert(!maker->TestBIT(kMakeBeg))) never fails.
BitsMatchCalls ==
  program = "loop" => {m \in Makers : "MakeBeg" \in bits[m]} = UnderWay

\* A maker never works on an event of a run it was not told of: each maker that
\* was called since the header's run number changed was last given InitRun of
\* the run in the header.
CurrentRunBegun ==
  program = "loop" => \A m \in current : begun[m] = header

\* The calls InitRun and FinishRun of a maker alternate: a new run is begun only
\* after FinishRun of the real run before it.
RunsAlternate ==
  [][\A m \in Makers : begun'[m] \notin {begun[m], NoRun} => begun[m] \notin Runs]_vars

\* An error in one maker does not cost the others the event: when an event ends,
\* every active maker was called but those below a chain that a privileged maker
\* left early, unless the job is to stop.
EveryActiveMade ==
  (program = "loop" /\ stack = <<>> /\ step = "back" /\ ~halted) =>
     Called[Top] \subseteq made \cup UNION {Below[c] : c \in left}

\* An end of file or a fatal error stops the job from any depth: no maker is
\* called after a maker has returned one.
HaltIsFinal == [][halted => made' \subseteq made]_vars

\* Finish runs through the tree from the last maker to the first: a chain has
\* kFiniEnd only after all of its makers, and a maker only after its followers.
FinishOrder ==
  \A m \in Makers : \A i \in DOMAIN Kids[m] :
     /\ "FiniEnd" \in bits[m] => "FiniEnd" \in bits[Kids[m][i]]
     /\ "FiniEnd" \in bits[Kids[m][i]] =>
           \A j \in i .. Len(Kids[m]) : "FiniEnd" \in bits[Kids[m][j]]

\* However the job ends, every maker is finished, inactive ones and those that
\* were never initialised included.
EveryoneFinished == <>(\A m \in Makers : "FiniEnd" \in bits[m])

\* StMaker.cxx:12-13: "InitRun(newRunNumber) if needed, FinishRun(oldRunNumber) if
\* needed": a maker is given FinishRun only of the run it was given InitRun of.
FinishRunMatches == unmatched \subseteq {Top}

\* What the author of a maker sees of it: where it is between Init and Finish.
Phase(m) == IF "FiniEnd" \in bits[m] THEN "finished"
            ELSE IF "FiniBeg" \in bits[m] THEN "finishing"
            ELSE IF "InitEnd" \in bits[m] THEN "ready" ELSE "new"

Others == Makers \ {Top}
Phases == [m \in Others |-> Phase(m)]
RunOf == [m \in Others |-> begun[m]]
Working == {m \in Others : "MakeBeg" \in bits[m]}

Protocol == INSTANCE MakerProtocol WITH
  Makers <- Others, Before <- -2, phase <- Phases, run <- RunOf,
  eventRun <- header, working <- Working, called <- made

\* Whatever the makers return, and SIGTERM at any moment included, each maker of
\* the tree sees its Init, InitRun, Make, FinishRun and Finish in order.
ImplementsProtocol == Protocol!Spec
=============================================================================
