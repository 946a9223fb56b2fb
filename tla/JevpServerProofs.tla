-------------------------- MODULE JevpServerProofs ---------------------------
(* Proofs about JevpServer for every list of builders, every set of sources   *)
(* with any content, and every setting of the options.                        *)
EXTENDS JevpServer, TLAPS

(* What a message and a status say of the run numbers, and what the reader    *)
(* thread has seen of launchArgs before it changes to another file.           *)
RunInv == /\ toServer = "newevent" => rdr.run \in Runs
          /\ rt = "switch" => launchArgs # NoFile
          /\ Running => runStatus.run \in Runs

(* The inductive invariant: the handshake keeps the reader thread away from   *)
(* the daqReader while the handler uses it, which keeps its run in place for  *)
(* the builders.                                                              *)
IInv == TypeOK /\ HandshakeInv /\ RunInv /\ BuildersSeeCurrentRun

LEMMA Parameters ==
  /\ Runs \subseteq Nat /\ 0 \notin Runs
  /\ \A fl \in Files : Content[fl] \in Seq(Runs \cup {Bad, Eor})
  /\ NoFile \notin Files /\ FirstFile \in Files
  /\ Len(Builders) \in Nat
BY RunsAssumption, ContentAssumption, FilesAssumption, BuildersAssumption

\* A new daqReader is well typed.
LEMMA NewReaderType ==
  \A fl \in Files : NewReader(fl) \in [file : Files, pos : Nat, run : Runs \cup {0}]
BY DEF NewReader

LEMMA InitIInv == Init => IInv
<1> SUFFICES ASSUME Init PROVE IInv
  OBVIOUS
<1>1. rdr \in [file : Files, pos : Nat, run : Runs \cup {0}]
  <2>1. CASE DaqFiles = <<>>
    BY <2>1, FilesAssumption, NewReaderType DEF Init
  <2>2. CASE DaqFiles # <<>>
    <3>1. DaqFiles[1] \in Files
      BY <2>2, FilesAssumption
    <3> QED
      BY <2>2, <3>1, NewReaderType DEF Init
  <2> QED
    BY <2>1, <2>2
<1>2. TypeOK
  <2>1. bi \in 1 .. Len(Builders) + 1 /\ cdaq \in Nat
    BY Parameters DEF Init
  <2>2. /\ eventsThisRun \in Nat /\ evtsInRun \in Nat /\ launches \in Nat
        /\ launchArgs \in Files \cup {NoFile}
        /\ disabled \in [Positions -> BOOLEAN]
        /\ processingTime \in [Positions -> Nat] /\ nrun \in [Positions -> Nat]
        /\ written \in [Runs -> Nat] /\ seen \in [Runs -> Nat]
    BY DEF Init
  <2> QED
    BY <1>1, <2>1, <2>2 DEF Init, TypeOK, Messages
<1>3. HandshakeInv /\ RunInv /\ BuildersSeeCurrentRun
  BY DEF Init, HandshakeInv, RunInv, BuildersSeeCurrentRun, Running
<1> QED
  BY <1>2, <1>3 DEF IInv

(* Every step of either thread, and every launch, preserves the invariant.    *)
LEMMA StepIInv == IInv /\ [Next]_vars => IInv'
<1> USE DEF reader, socket, run, builders
<1> SUFFICES ASSUME IInv, [Next]_vars PROVE IInv'
  OBVIOUS
<1>0. /\ TypeOK /\ HandshakeInv /\ RunInv /\ BuildersSeeCurrentRun
      /\ Advance \in Nat
      /\ rdr.file \in Files /\ rdr.pos \in Nat /\ rdr.run \in Runs \cup {0}
  BY Parameters DEF IInv, TypeOK, Advance
<1>1. ASSUME ReadEvent PROVE IInv'
  <2>1. rdr' \in [file : Files, pos : Nat, run : Runs \cup {0}] /\ rdr'.run \in Runs
    BY <1>0, <1>1 DEF ReadEvent, TypeOK
  <2>2. seen' \in [Runs -> Nat]
    BY <1>0, <1>1 DEF ReadEvent, TypeOK
  <2>3. TypeOK'
    BY <1>0, <1>1, <2>1, <2>2 DEF ReadEvent, ReaderSend, ServerSame, TypeOK, Messages
  <2>4. HandshakeInv'
    BY <1>0, <1>1 DEF ReadEvent, ReaderSend, ServerSame, HandshakeInv
  <2>5. RunInv' /\ BuildersSeeCurrentRun'
    BY <1>0, <1>1, <2>1 DEF ReadEvent, ReaderSend, ServerSame, Running, RunInv, BuildersSeeCurrentRun, HandshakeInv
  <2> QED
    BY <2>3, <2>4, <2>5 DEF IInv
<1>2. ASSUME ReadBad PROVE IInv'
  <2>1. TypeOK'
    BY <1>0, <1>2 DEF ReadBad, PassBad, ReaderSend, ServerSame, TypeOK, Messages
  <2>2. HandshakeInv'
    BY <1>0, <1>2 DEF ReadBad, PassBad, ReaderSend, ServerSame, HandshakeInv
  <2>3. RunInv' /\ BuildersSeeCurrentRun'
    BY <1>0, <1>2 DEF ReadBad, PassBad, ReaderSend, ServerSame, Running, RunInv, BuildersSeeCurrentRun, HandshakeInv, TypeOK
  <2> QED
    BY <2>1, <2>2, <2>3 DEF IInv
<1>3. ASSUME ReadEor PROVE IInv'
  <2>1. TypeOK'
    BY <1>0, <1>3 DEF ReadEor, ReaderSend, ServerSame, TypeOK, Messages
  <2>2. HandshakeInv'
    BY <1>0, <1>3 DEF ReadEor, ReaderSend, ServerSame, HandshakeInv
  <2>3. RunInv' /\ BuildersSeeCurrentRun'
    BY <1>0, <1>3 DEF ReadEor, ReaderSend, ServerSame, Running, RunInv, BuildersSeeCurrentRun, HandshakeInv, TypeOK
  <2> QED
    BY <2>1, <2>2, <2>3 DEF IInv
<1>4. ASSUME Released PROVE IInv'
  <2>1. TypeOK'
    BY <1>0, <1>4 DEF Released, ServerSame, TypeOK, Messages
  <2>2. HandshakeInv'
    BY <1>0, <1>4 DEF Released, ServerSame, HandshakeInv
  <2>3. RunInv' /\ BuildersSeeCurrentRun'
    BY <1>0, <1>4 DEF Released, ServerSame, Running, RunInv, BuildersSeeCurrentRun, HandshakeInv, TypeOK
  <2> QED
    BY <2>1, <2>2, <2>3 DEF IInv
<1>5. ASSUME Switch PROVE IInv'
  <2>1. rdr' \in [file : Files, pos : Nat, run : Runs \cup {0}]
    BY <1>0, <1>5, NewReaderType DEF Switch, RunInv, TypeOK
  <2>2. TypeOK'
    BY <1>0, <1>5, NewReaderType, Parameters, <2>1 DEF Switch, ServerSame, TypeOK, Messages
  <2>3. HandshakeInv'
    BY <1>0, <1>5 DEF Switch, ServerSame, HandshakeInv
  <2>4. RunInv' /\ BuildersSeeCurrentRun'
    BY <1>0, <1>5, NewReaderType, Parameters, <2>1 DEF Switch, ServerSame, Running, RunInv, BuildersSeeCurrentRun, HandshakeInv, TypeOK
  <2> QED
    BY <2>2, <2>3, <2>4 DEF IInv
<1>6. ASSUME Clear PROVE IInv'
  <2>1. TypeOK'
    BY <1>0, <1>6 DEF Clear, ServerSame, TypeOK, Messages
  <2>2. HandshakeInv'
    BY <1>0, <1>6 DEF Clear, ServerSame, HandshakeInv
  <2>3. RunInv' /\ BuildersSeeCurrentRun'
    BY <1>0, <1>6 DEF Clear, ServerSame, Running, RunInv, BuildersSeeCurrentRun, HandshakeInv, TypeOK
  <2> QED
    BY <2>1, <2>2, <2>3 DEF IInv
<1>7. ASSUME HandleStop PROVE IInv'
  <2>1. rdr' \in [file : Files, pos : Nat, run : Runs \cup {0}] /\ cdaq' \in Nat
    <3>1. CASE Running
      <4>1. ASSUME cdaq + 1 < Len(DaqFiles) PROVE DaqFiles[cdaq + 1 + 1] \in Files
        BY <1>0, <4>1, FilesAssumption DEF TypeOK
      <4>2. ASSUME cdaq < Len(DaqFiles) PROVE DaqFiles[cdaq + 1] \in Files
        BY <1>0, <4>2, FilesAssumption DEF TypeOK
      <4> QED
        BY <1>0, <1>7, <3>1, <4>1, <4>2, NewReaderType DEF HandleStop, NextFile, TypeOK
    <3>2. CASE ~Running
      BY <1>0, <1>7, <3>2 DEF HandleStop, TypeOK
    <3> QED
      BY <3>1, <3>2
  <2>2. /\ written' \in [Runs -> Nat] /\ eventsThisRun' \in Nat /\ alive' \in BOOLEAN
        /\ runStatus' \in [run : Runs \cup {0}, status : {"unknown", "running", "stopped"}]
        /\ Running' => runStatus'.run \in Runs
    <3>1. CASE Running /\ PerformStopRun /\ NextFile
      <4>1. alive' \in BOOLEAN
        BY <3>1 DEF NextFile
      <4>2. runStatus' \in [run : Runs \cup {0}, status : {"unknown", "running", "stopped"}]
        BY <1>0, <3>1 DEF PerformStopRun, TypeOK
      <4>3. runStatus'.status = "stopped"
        BY <1>0, <3>1 DEF PerformStopRun, TypeOK
      <4> QED
        BY <1>0, <3>1, <4>1, <4>2, <4>3 DEF PerformStopRun, TypeOK, Running
    <3>2. CASE ~Running /\ UNCHANGED <<written, eventsThisRun, runStatus, cdaq, rdr, alive>>
      BY <1>0, <3>2 DEF Running, TypeOK
    <3> QED
      BY <1>7, <3>1, <3>2 DEF HandleStop
  <2>3. TypeOK'
    BY <1>0, <1>7, <2>1, <2>2 DEF HandleStop, TypeOK, Messages
  <2>4. HandshakeInv'
    BY <1>0, <1>7 DEF HandleStop, HandshakeInv
  <2>5. RunInv' /\ BuildersSeeCurrentRun'
    BY <1>0, <1>7, <2>2 DEF HandleStop, RunInv, Running, BuildersSeeCurrentRun
  <2> QED
    BY <2>3, <2>4, <2>5 DEF IInv
<1>8. ASSUME HandleReadErr PROVE IInv'
  <2>1. TypeOK'
    BY <1>0, <1>8 DEF HandleReadErr, TypeOK, Messages
  <2>2. HandshakeInv'
    BY <1>0, <1>8 DEF HandleReadErr, HandshakeInv
  <2>3. RunInv' /\ BuildersSeeCurrentRun'
    BY <1>0, <1>8 DEF HandleReadErr, Running, RunInv, BuildersSeeCurrentRun, HandshakeInv, TypeOK
  <2> QED
    BY <2>1, <2>2, <2>3 DEF IInv
<1>9. ASSUME HandleNewEvent PROVE IInv'
  <2>1. bi' \in 1 .. Len(Builders) + 1 /\ rdr.run \in Runs
    BY <1>0, <1>9, Parameters DEF HandleNewEvent, RunInv
  <2>2. /\ runStatus' \in [run : Runs \cup {0}, status : {"unknown", "running", "stopped"}]
        /\ disabled' \in [Positions -> BOOLEAN]
        /\ processingTime' \in [Positions -> Nat] /\ nrun' \in [Positions -> Nat]
    <3>1. CASE PerformStartRun
      BY <1>0, <2>1, <3>1 DEF PerformStartRun, TypeOK
    <3>2. CASE UNCHANGED <<runStatus, builders>>
      BY <1>0, <3>2 DEF TypeOK
    <3> QED
      BY <1>9, <3>1, <3>2 DEF HandleNewEvent, CountEvent
  <2>3. eventsThisRun' \in Nat /\ evtsInRun' \in Nat
    BY <1>0, <1>9 DEF HandleNewEvent, CountEvent, TypeOK
  <2>4. TypeOK'
    BY <1>0, <1>9, <2>1, <2>2, <2>3 DEF HandleNewEvent, TypeOK, Messages
  <2>5. HandshakeInv'
    BY <1>0, <1>9 DEF HandleNewEvent, HandshakeInv
  <2>6. RunInv' /\ BuildersSeeCurrentRun'
    BY <1>0, <1>9, <2>1 DEF HandleNewEvent, CountEvent, PerformStartRun, Running, RunInv, BuildersSeeCurrentRun
  <2> QED
    BY <2>4, <2>5, <2>6 DEF IInv
<1>10. ASSUME SkipBuilder PROVE IInv'
  <2>1. bi' \in 1 .. Len(Builders) + 1 /\ bi \in Positions
    BY <1>0, <1>10, Parameters DEF SkipBuilder, AtBuilder, Positions, TypeOK
  <2>2. TypeOK'
    BY <1>0, <1>10, <2>1 DEF SkipBuilder, OutsideBuilders, AtBuilder, TypeOK, Messages
  <2>3. HandshakeInv'
    BY <1>0, <1>10 DEF SkipBuilder, OutsideBuilders, AtBuilder, HandshakeInv
  <2>4. RunInv' /\ BuildersSeeCurrentRun'
    BY <1>0, <1>10, <2>1 DEF SkipBuilder, OutsideBuilders, AtBuilder, Running, RunInv, BuildersSeeCurrentRun, HandshakeInv, TypeOK
  <2> QED
    BY <2>2, <2>3, <2>4 DEF IInv
<1>11. ASSUME RunBuilder PROVE IInv'
  <2>1. bi' \in 1 .. Len(Builders) + 1 /\ bi \in Positions
    BY <1>0, <1>11, Parameters DEF RunBuilder, AtBuilder, Positions, TypeOK
  <2>2. TypeOK'
    BY <1>0, <1>11, ParametersAssumption, <2>1 DEF RunBuilder, OutsideBuilders, AtBuilder, TypeOK, Messages
  <2>3. HandshakeInv'
    BY <1>0, <1>11 DEF RunBuilder, OutsideBuilders, AtBuilder, HandshakeInv
  <2>4. RunInv' /\ BuildersSeeCurrentRun'
    BY <1>0, <1>11, ParametersAssumption, <2>1 DEF RunBuilder, OutsideBuilders, AtBuilder, Running, RunInv, BuildersSeeCurrentRun, HandshakeInv, TypeOK
  <2> QED
    BY <2>2, <2>3, <2>4 DEF IInv
<1>12. ASSUME CrashBuilder PROVE IInv'
  <2>1. bi' \in 1 .. Len(Builders) + 1 /\ bi \in Positions
    BY <1>0, <1>12, Parameters DEF CrashBuilder, AtBuilder, Positions, TypeOK
  <2>2. TypeOK'
    BY <1>0, <1>12, <2>1 DEF CrashBuilder, OutsideBuilders, AtBuilder, TypeOK, Messages
  <2>3. HandshakeInv'
    BY <1>0, <1>12 DEF CrashBuilder, OutsideBuilders, AtBuilder, HandshakeInv
  <2>4. RunInv' /\ BuildersSeeCurrentRun'
    BY <1>0, <1>12, <2>1 DEF CrashBuilder, OutsideBuilders, AtBuilder, Running, RunInv, BuildersSeeCurrentRun, HandshakeInv, TypeOK
  <2> QED
    BY <2>2, <2>3, <2>4 DEF IInv
<1>13. ASSUME Release PROVE IInv'
  <2>1. TypeOK'
    BY <1>0, <1>13 DEF Release, TypeOK, Messages
  <2>2. HandshakeInv'
    BY <1>0, <1>13 DEF Release, HandshakeInv
  <2>3. RunInv' /\ BuildersSeeCurrentRun'
    BY <1>0, <1>13 DEF Release, Running, RunInv, BuildersSeeCurrentRun, HandshakeInv, TypeOK
  <2> QED
    BY <2>1, <2>2, <2>3 DEF IInv
<1>14. ASSUME NEW fl \in Files, Launch(fl) PROVE IInv'
  <2>1. TypeOK'
    BY <1>0, <1>14 DEF Launch, TypeOK, Messages
  <2>2. HandshakeInv' /\ RunInv' /\ BuildersSeeCurrentRun'
    BY <1>0, <1>14, Parameters DEF Launch, HandshakeInv, RunInv, Running, BuildersSeeCurrentRun
  <2> QED
    BY <2>1, <2>2 DEF IInv
<1>15. CASE UNCHANGED vars
  BY <1>0, <1>15 DEF vars, IInv, TypeOK, HandshakeInv, RunInv, Running, BuildersSeeCurrentRun
<1> QED
  BY <1>1, <1>2, <1>3, <1>4, <1>5, <1>6, <1>7, <1>8, <1>9, <1>10, <1>11, <1>12, <1>13, <1>14, <1>15
  DEF Next, ReaderStep, ServerStep, BuilderStep

\* The invariant holds of every reachable state.
LEMMA Invariance == Spec => []IInv
BY InitIInv, StepIInv, PTL DEF Spec

\* Every variable of the server keeps its type.
THEOREM TypeCorrect == Spec => []TypeOK
BY Invariance, PTL DEF IInv

(* The two threads never wait for each other: exactly one message, handler or *)
(* release is under way while the reader waits, and none otherwise.           *)
THEOREM HandshakeHolds == Spec => []HandshakeInv
BY Invariance, PTL DEF IInv

(* The reader thread never touches the daqReader while the server thread is   *)
(* in handleNewEvent, whatever the sources hold and clients launch.           *)
THEOREM ReaderExcluded == Spec => []RdrExclusive
<1>1. IInv => RdrExclusive
  BY DEF IInv, HandshakeInv, RdrExclusive
<1> QED
  BY <1>1, Invariance, PTL

(* One more event gives every builder one more share of time.                 *)
LEMMA ShareGrows ==
  ASSUME NEW e \in Nat
  PROVE  /\ ThrottleTime * e \in Nat /\ ThrottleTime * (e + 1) \in Nat
         /\ ThrottleTime * e <= ThrottleTime * (e + 1)
<1>1. ThrottleTime \in Nat
  BY ParametersAssumption
<1>2. ThrottleTime * (e + 1) = ThrottleTime * e + ThrottleTime
  BY <1>1
<1> QED
  BY <1>1, <1>2

\* The bound needs no more than the types to be inductive.
LEMMA StepThrottle == TypeOK /\ ThrottleBound /\ [Next]_vars => ThrottleBound'
<1> USE DEF builders, run
<1> SUFFICES ASSUME TypeOK, ThrottleBound, [Next]_vars, ThrottleAlgos, Running',
                    NEW b \in Positions
             PROVE  \E c \in Costs \cup {0} :
                      processingTime'[b] <= ThrottleTime * eventsThisRun' + c
  BY DEF ThrottleBound
<1>0. /\ Costs \subseteq Nat
      /\ eventsThisRun \in Nat /\ processingTime \in [Positions -> Nat]
  BY ParametersAssumption DEF TypeOK
<1>1. CASE UNCHANGED <<runStatus, eventsThisRun, processingTime>>
  BY <1>1 DEF ThrottleBound, Running
<1>2. CASE HandleStop
  <2>1. CASE ~Running /\ UNCHANGED <<eventsThisRun, runStatus>>
    BY <2>1 DEF Running
  <2>2. CASE PerformStopRun
    <3>1. runStatus'.status = "stopped"
      BY <2>2 DEF PerformStopRun, TypeOK
    <3> QED
      BY <3>1 DEF Running
  <2> QED
    BY <1>2, <2>1, <2>2 DEF HandleStop
<1>3. CASE HandleNewEvent
  <2>1. CASE PerformStartRun /\ eventsThisRun' = 1
    <3>1. processingTime'[b] = 0 /\ ThrottleTime * eventsThisRun' \in Nat
      BY <2>1, ShareGrows DEF PerformStartRun
    <3> QED
      BY <3>1
  <2>2. CASE eventsThisRun' = eventsThisRun + 1 /\ UNCHANGED <<runStatus, builders>>
    <3>1. PICK c \in Costs \cup {0} :
            processingTime[b] <= ThrottleTime * eventsThisRun + c
      BY <2>2 DEF ThrottleBound, Running
    <3>2. processingTime'[b] <= ThrottleTime * eventsThisRun' + c
      BY <1>0, <2>2, <3>1, ShareGrows
    <3> QED
      BY <3>2
  <2> QED
    BY <1>3, <2>1, <2>2 DEF HandleNewEvent, CountEvent
<1>4. CASE RunBuilder
  <2>1. /\ UNCHANGED <<runStatus, eventsThisRun>>
        /\ bi \in Positions /\ processingTime[bi] <= ThrottleTime * eventsThisRun
    BY <1>0, <1>4, ShareGrows DEF RunBuilder, AtBuilder, Throttled, OutsideBuilders
  <2>2. PICK c \in Costs : processingTime' = [processingTime EXCEPT ![bi] = @ + c]
    BY <1>4 DEF RunBuilder
  <2>3. CASE b = bi
    BY <1>0, <2>1, <2>2, <2>3, ShareGrows
  <2>4. CASE b # bi
    <3>1. processingTime'[b] = processingTime[b]
      BY <1>0, <2>2, <2>4
    <3> QED
      BY <2>1, <3>1 DEF ThrottleBound, Running
  <2> QED
    BY <2>3, <2>4
<1>5. CASE \/ ReaderStep \/ HandleReadErr \/ SkipBuilder \/ CrashBuilder \/ Release
           \/ (\E fl \in Files : Launch(fl)) \/ UNCHANGED vars
  <2>1. UNCHANGED <<runStatus, eventsThisRun, processingTime>>
    BY <1>5 DEF ReaderStep, ReadEvent, ReadBad, ReadEor, Released, Switch, Clear,
                ServerSame, HandleReadErr, SkipBuilder, CrashBuilder, Release, Launch,
                OutsideBuilders, vars
  <2> QED
    BY <1>1, <2>1
<1> QED
  BY <1>2, <1>3, <1>4, <1>5 DEF Next, ServerStep, BuilderStep

(* Throttling works: in a run that was not stopped no builder is more than    *)
(* one event's time above its share, for any limit and any times.             *)
THEOREM ThrottleHolds == Spec => []ThrottleBound
<1>1. Init => ThrottleBound
  BY DEF Init, ThrottleBound, Running
<1> QED
  BY <1>1, StepThrottle, TypeCorrect, PTL DEF Spec

\* Builders only ever see events of the run they were started for.
THEOREM CurrentRunOnly == Spec => []BuildersSeeCurrentRun
BY Invariance, PTL DEF IInv
-----------------------------------------------------------------------------
\* A source gives an end of run between the events of two runs.
RunsSeparated ==
  \A fl \in Files : \A i, j \in DOMAIN Content[fl] :
    /\ i < j /\ Content[fl][i] \in Runs /\ Content[fl][j] \in Runs
    /\ \A k \in i .. j : Content[fl][k] # Eor
    => Content[fl][i] = Content[fl][j]

\* The reader has met an event of run r and no end of a run since.
Within(r) ==
  \E i \in 1 .. rdr.pos :
    /\ rdr.pos \in DOMAIN Content[rdr.file] /\ Content[rdr.file][i] = r
    /\ \A k \in i .. rdr.pos : Content[rdr.file][k] # Eor

(* While the files of the run are not written, the reader is within it, knows *)
(* that an end is to be told, and what it sends belongs to the run.           *)
RunKept ==
  launches = 0 =>
    /\ launchArgs = NoFile /\ rt \notin {"switch", "clear"}
    /\ runStatus.status = "unknown" => runStatus.run = 0
    /\ toServer = "newevent" => nevts /\ Within(rdr.run)
    /\ Running /\ toServer # "stoprun" => nevts /\ Within(runStatus.run)
    /\ Running /\ toServer = "newevent" => rdr.run = runStatus.run

\* The next event, if the reader is within a run, is of that run.
LEMMA NextOfRun ==
  ASSUME RunsSeparated, TypeOK, NextItem \in Runs
  PROVE  LET f == Content[rdr.file]
             p == rdr.pos + 1
         IN /\ p \in DOMAIN f /\ f[p] = NextItem /\ Advance = p /\ NextItem # Eor
            /\ \A r \in Runs : Within(r) =>
                 /\ r = NextItem
                 /\ \E i \in 1 .. p : f[i] = r /\ \A k \in i .. p : f[k] # Eor
<1> DEFINE f == Content[rdr.file]
           p == rdr.pos + 1
<1>1. f \in Seq(Runs \cup {Bad, Eor}) /\ rdr.pos \in Nat /\ rdr.file \in Files
  BY ContentAssumption DEF TypeOK
<1>3. CASE rdr.pos < Len(f)
  <2>1. p \in DOMAIN f /\ f[p] = NextItem /\ Advance = p /\ NextItem # Eor
    BY <1>1, <1>3, ContentAssumption DEF NextItem, Advance
  <2>2. ASSUME NEW r \in Runs, Within(r)
        PROVE  r = NextItem /\ \E i \in 1 .. p : f[i] = r /\ \A k \in i .. p : f[k] # Eor
    <3>1. PICK i \in 1 .. rdr.pos : f[i] = r /\ \A k \in i .. rdr.pos : f[k] # Eor
      BY <2>2 DEF Within
    <3>2. i \in DOMAIN f /\ i < p /\ i \in 1 .. p
      BY <1>1, <1>3, <3>1
    <3>3. \A k \in i .. p : f[k] # Eor
      BY <1>1, <2>1, <3>1, <3>2
    <3>4. f[i] = f[p]
      BY <1>1, <2>1, <3>1, <3>2, <3>3, ContentAssumption DEF RunsSeparated
    <3> QED
      BY <2>1, <3>1, <3>2, <3>3, <3>4
  <2> QED
    BY <2>1, <2>2
<1> QED
  BY <1>1, <1>3, ContentAssumption DEF NextItem

\* A stream goes past what cannot be read, within the run.
LEMMA BadKeeps ==
  ASSUME TypeOK, NextItem = Bad, rdr' = [rdr EXCEPT !.pos = PassBad], NEW r, Within(r)
  PROVE  Within(r)'
<1> DEFINE f == Content[rdr.file]
           p == rdr.pos + 1
<1>1. f \in Seq(Runs \cup {Bad, Eor}) /\ rdr.pos \in Nat /\ rdr.file \in Files
      /\ rdr'.file = rdr.file /\ rdr'.pos = PassBad
  BY ContentAssumption DEF TypeOK
<1>2. p \in DOMAIN f /\ f[p] = Bad /\ Advance = p
  BY <1>1, ContentAssumption DEF NextItem, Advance
<1>3. CASE PassBad = rdr.pos
  BY <1>1, <1>3 DEF Within
<1>4. CASE PassBad = p
  <2>1. PICK i \in 1 .. rdr.pos : f[i] = r /\ \A k \in i .. rdr.pos : f[k] # Eor
    BY DEF Within
  <2>2. i \in 1 .. p /\ \A k \in i .. p : f[k] # Eor
    BY <1>1, <1>2, <2>1, ContentAssumption
  <2>3. \E x \in 1 .. p : p \in DOMAIN f /\ f[x] = r /\ \A k \in x .. p : f[k] # Eor
    BY <1>2, <2>1, <2>2
  <2> QED
    BY <1>1, <1>4, <2>3 DEF Within
<1> QED
  BY <1>2, <1>3, <1>4 DEF PassBad

\* No step takes the reader out of a run whose files are not written.
LEMMA StepRunKept ==
  ASSUME RunsSeparated, IInv, RunKept, [Next]_vars
  PROVE  RunKept'
<1> USE DEF reader, socket, run, builders
<1>0. /\ TypeOK /\ HandshakeInv /\ RunInv
      /\ rdr.file \in Files /\ rdr.pos \in Nat /\ rdr.run \in Runs \cup {0} /\ launches \in Nat
      /\ rdr = [file |-> rdr.file, pos |-> rdr.pos, run |-> rdr.run]
  BY DEF IInv, TypeOK
<1>1. CASE launches' # 0
  BY <1>1 DEF RunKept
<1>2. CASE launches' = 0 /\ UNCHANGED <<rdr, rt, launchArgs, runStatus, nevts>>
           /\ toServer' \in {toServer, "none"} /\ (toServer = "stoprun" /\ Running => toServer' = toServer)
           /\ launches = 0
  BY <1>0, <1>2 DEF RunKept, Running, Within
<1>3. ASSUME launches = 0, ReadEvent PROVE RunKept'
  <2>1. /\ rdr' = [rdr EXCEPT !.pos = Advance, !.run = NextItem] /\ nevts' = TRUE
        /\ NextItem \in Runs /\ rt' = "wait" /\ toServer = "none" /\ toServer' = "newevent"
        /\ UNCHANGED <<launchArgs, runStatus, launches>>
    BY <1>0, <1>3 DEF ReadEvent, ReaderSend, ServerSame, HandshakeInv
  <2> DEFINE p == rdr.pos + 1
             f == Content[rdr.file]
  <2>2. /\ p \in DOMAIN f /\ f[p] = NextItem /\ Advance = p /\ NextItem # Eor
        /\ \A r \in Runs : Within(r) => r = NextItem
    BY <1>0, <2>1, NextOfRun
  <2>3. rdr'.pos = p /\ rdr'.file = rdr.file /\ rdr'.run = NextItem
    BY <1>0, <2>1, <2>2
  <2>4. Within(rdr.run)'
    <3>1. p \in 1 .. p /\ \A k \in p .. p : f[k] # Eor
      BY <1>0, <2>2
    <3>2. \E i \in 1 .. p : p \in DOMAIN f /\ f[i] = NextItem /\ \A k \in i .. p : f[k] # Eor
      BY <2>2, <3>1
    <3> QED
      BY <2>2, <2>3, <3>2 DEF Within
  <2> QED
    BY <1>0, <1>3, <2>1, <2>2, <2>3, <2>4 DEF RunKept, Running, RunInv
<1>4. ASSUME launches = 0, ReadBad PROVE RunKept'
  <2>1. /\ rdr' = [rdr EXCEPT !.pos = PassBad] /\ toServer = "none" /\ toServer' = "readerr"
        /\ NextItem = Bad /\ rt' = "wait"
        /\ UNCHANGED <<nevts, launchArgs, runStatus, launches>>
    BY <1>0, <1>4 DEF ReadBad, ReaderSend, ServerSame, HandshakeInv
  <2>2. ASSUME NEW r, Within(r) PROVE Within(r)'
    BY <1>0, <2>1, <2>2, BadKeeps
  <2> QED
    BY <1>0, <1>4, <2>1, <2>2 DEF RunKept, Running
<1>5. ASSUME launches = 0, ReadEor PROVE RunKept'
  <2>1. \/ nevts /\ toServer' = "stoprun" /\ rt' = "wait"
        \/ ~nevts /\ toServer' = "none" /\ rt' = "get" /\ ~Running
    BY <1>0, <1>5 DEF ReadEor, ReaderSend, HandshakeInv, RunKept
  <2> QED
    BY <1>5, <2>1 DEF ReadEor, ReaderSend, ServerSame, RunKept, Running
<1>6. ASSUME launches = 0, Released PROVE RunKept'
  <2>1. launchArgs = NoFile /\ rt' = "get" /\ UNCHANGED <<rdr, nevts, toServer, launchArgs, runStatus, launches>>
    BY <1>6 DEF Released, ServerSame, RunKept
  <2> QED
    BY <1>6, <2>1 DEF RunKept, Running, Within
<1>7. ASSUME launches = 0, Switch \/ Clear PROVE FALSE
  BY <1>7 DEF Switch, Clear, RunKept
<1>8. ASSUME launches = 0, HandleStop PROVE RunKept'
  <2>1. toServer' = "none" /\ UNCHANGED <<rt, launchArgs, launches>>
    BY <1>8 DEF HandleStop
  <2>2. ~(runStatus'.status = "running") /\ (runStatus'.status = "unknown" => runStatus'.run = 0)
    <3>1. CASE PerformStopRun
      <4>1. runStatus'.status = "stopped"
        BY <1>0, <3>1 DEF PerformStopRun, TypeOK
      <4> QED
        BY <4>1
    <3>2. CASE ~Running /\ UNCHANGED runStatus
      BY <1>8, <3>2 DEF RunKept, Running
    <3> QED
      BY <1>8, <3>1, <3>2 DEF HandleStop
  <2> QED
    BY <1>8, <2>1, <2>2 DEF RunKept, Running
<1>9. ASSUME launches = 0, HandleNewEvent PROVE RunKept'
  <2>1. /\ toServer = "newevent" /\ toServer' = "none" /\ nevts /\ Within(rdr.run)
        /\ UNCHANGED <<rdr, rt, nevts, launchArgs, launches>>
    BY <1>9 DEF HandleNewEvent, RunKept
  <2>2. CASE runStatus' = [run |-> rdr.run, status |-> "running"]
    <3>1. Within(runStatus.run)'
      BY <2>1, <2>2 DEF Within
    <3> QED
      BY <1>9, <2>1, <2>2, <3>1 DEF RunKept, Running
  <2>3. CASE UNCHANGED runStatus
    BY <1>9, <2>1, <2>3 DEF RunKept, Running, Within
  <2> QED
    BY <1>9, <2>2, <2>3 DEF HandleNewEvent, CountEvent, PerformStartRun
<1>10. CASE launches' = 0 /\ (HandleReadErr \/ BuilderStep \/ Release \/ UNCHANGED vars)
  <2>1. /\ UNCHANGED <<rdr, rt, launchArgs, runStatus, nevts, launches>>
        /\ toServer' \in {toServer, "none"} /\ (toServer = "stoprun" => toServer' = toServer)
    BY <1>10 DEF HandleReadErr, BuilderStep, SkipBuilder, RunBuilder, CrashBuilder, Release,
                 OutsideBuilders, vars
  <2> QED
    BY <1>2, <1>10, <2>1
<1>11. ASSUME launches' = 0, launches # 0 PROVE FALSE
  <2>1. launches' \in {launches, launches + 1}
    BY DEF Next, ReaderStep, ReadEvent, ReadBad, ReadEor, Released, Switch, Clear, ServerSame,
           ServerStep, HandleStop, HandleReadErr, HandleNewEvent, BuilderStep, SkipBuilder,
           RunBuilder, CrashBuilder, Release, OutsideBuilders, Launch, vars
  <2> QED
    BY <1>0, <1>11, <2>1
<1>12. ASSUME NEW fl \in Files, Launch(fl) PROVE launches' # 0
  BY <1>0, <1>12 DEF Launch
<1> QED
  BY <1>1, <1>3, <1>4, <1>5, <1>6, <1>7, <1>8, <1>9, <1>10, <1>11, <1>12
  DEF Next, ReaderStep, ServerStep

(* Every run's files are written before another run starts, for any sources   *)
(* that give an end of run between two runs, any builders and any options, as *)
(* long as no client takes the reader away.                                   *)
THEOREM WrittenHolds == RunsSeparated => (Spec => WrittenBeforeNext)
<1> SUFFICES ASSUME RunsSeparated PROVE Spec => WrittenBeforeNext
  OBVIOUS
<1>1. Init => RunKept
  BY DEF Init, RunKept, Running
<1>2. IInv /\ RunKept /\ [Next]_vars => RunKept'
  BY StepRunKept
<1>3. IInv /\ RunKept /\ [Next]_vars =>
        [launches = 0 /\ runStatus.run # 0 /\ runStatus'.run # runStatus.run
           => runStatus.status = "stopped"]_vars
  <2>1. SUFFICES ASSUME IInv, RunKept, Next, launches = 0, runStatus.run # 0,
                        runStatus'.run # runStatus.run
                 PROVE  runStatus.status = "stopped"
    OBVIOUS
  <2>2. TypeOK
    BY <2>1 DEF IInv
  <2>3. ASSUME UNCHANGED runStatus \/ PerformStopRun PROVE FALSE
    BY <2>1, <2>2, <2>3 DEF PerformStopRun, TypeOK
  <2>4. HandleNewEvent /\ rdr.run # runStatus.run
    BY <2>1, <2>3 DEF Next, ReaderStep, ReadEvent, ReadBad, ReadEor, Released, Switch, Clear,
         ServerSame, ServerStep, HandleStop, HandleReadErr, HandleNewEvent, CountEvent, BuilderStep,
         SkipBuilder, RunBuilder, CrashBuilder, Release, OutsideBuilders, Launch, run
  <2>5. toServer = "newevent"
    BY <2>4 DEF HandleNewEvent
  <2> QED
    BY <2>1, <2>2, <2>4, <2>5 DEF RunKept, Running, TypeOK
<1> QED
  BY <1>1, <1>2, <1>3, Invariance, PTL DEF Spec, WrittenBeforeNext
=============================================================================
