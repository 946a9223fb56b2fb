----------------------------- MODULE JevpServer -----------------------------
(* The Jevp plot server: a reader thread that fetches events from a daqReader *)
(* and a server thread that runs the plot builders on them, starts and stops  *)
(* runs and serves clients.  The two threads share the daqReader: the reader  *)
(* thread sends a message and waits, the server thread handles it with the    *)
(* reader at rest and then sends a release.  A client's "launch" request is   *)
(* left in launchArgs for the reader thread, which opens the named file when  *)
(* it is released.                                                            *)
EXTENDS Naturals, Sequences

CONSTANTS Builders,      \* the plot builders, in the order of the list
          Files,         \* data sources: files and live event streams
          Live,          \* those of them that are live streams
          Content,       \* Content[f]: what reading f gives, item by item
          Runs,          \* run numbers
          DaqFiles,      \* -files: the files to read one after the other
          FirstFile,     \* -file, when -files is not given
          MaxEvts,       \* -maxevts, 0 when not given
          Die,           \* -die
          ThrottleAlgos, ThrottleTime,  \* limit on a builder's time per event
          Costs,         \* times that a builder may take for an event
          MaxLaunches,   \* bound: launch requests made by clients
          NoFile, Bad, Eor

ASSUME RunsAssumption == Runs \subseteq Nat \ {0}
ASSUME FilesAssumption == /\ Live \subseteq Files /\ NoFile \notin Files
                          /\ FirstFile \in Files /\ DaqFiles \in Seq(Files)
ASSUME ContentAssumption == /\ Bad \notin Runs /\ Eor \notin Runs /\ Bad # Eor
                            /\ NoFile \notin Runs \cup {Bad, Eor}
                            /\ Content \in [Files -> Seq(Runs \cup {Bad, Eor})]
ASSUME ParametersAssumption == /\ MaxEvts \in Nat /\ MaxLaunches \in Nat
                               /\ ThrottleTime \in Nat /\ Costs \subseteq Nat
                               /\ Die \in BOOLEAN /\ ThrottleAlgos \in BOOLEAN
ASSUME BuildersAssumption == Builders \in Seq(STRING)

VARIABLES
  rdr,           \* the daqReader: its file, its position and its last run
  rt, nevts,     \* reader thread: what it does next; it saw an event since EOR
  toServer,      \* the reader's message in the socket
  toReader,      \* a release is in the socket
  sv, bi,        \* server thread: what it does next; the builder it is at
  launchArgs,    \* the file a client asked for
  cdaq,          \* cdaqfilename: index into DaqFiles
  runStatus,     \* run number and status
  eventsThisRun, evtsInRun,
  disabled, processingTime, nrun,   \* per builder, by position
  written,       \* written[r]: events counted when r's files were written
  seen,          \* seen[r]: newevent messages the reader sent for run r
  launches,      \* launch requests so far
  alive          \* FALSE when the process has terminated

reader == <<rt, nevts>>
socket == <<toServer, toReader>>
builders == <<disabled, processingTime, nrun>>
run == <<runStatus, eventsThisRun, evtsInRun, written>>
vars == <<rdr, reader, socket, sv, bi, launchArgs, cdaq, run, builders, seen,
          launches, alive>>

Positions == 1 .. Len(Builders)
Messages == {"none", "newevent", "stoprun", "readerr"}

TypeOK ==
  /\ rdr \in [file : Files, pos : Nat, run : Runs \cup {0}]
  /\ rt \in {"get", "wait", "switch", "clear"} /\ nevts \in BOOLEAN
  /\ toServer \in Messages /\ toReader \in BOOLEAN
  /\ sv \in {"select", "builders", "release"} /\ bi \in 1 .. Len(Builders) + 1
  /\ launchArgs \in Files \cup {NoFile}
  /\ cdaq \in Nat
  /\ runStatus \in [run : Runs \cup {0}, status : {"unknown", "running", "stopped"}]
  /\ eventsThisRun \in Nat /\ evtsInRun \in Nat
  /\ disabled \in [Positions -> BOOLEAN]
  /\ processingTime \in [Positions -> Nat]
  /\ nrun \in [Positions -> Nat]
  /\ written \in [Runs -> Nat] /\ seen \in [Runs -> Nat]
  /\ launches \in Nat
  /\ alive \in BOOLEAN

\* new daqReader(f)
NewReader(f) == [file |-> f, pos |-> 0, run |-> 0]

Init ==
  /\ rdr = NewReader(IF DaqFiles = <<>> THEN FirstFile ELSE DaqFiles[1])
  /\ rt = "get" /\ nevts = FALSE
  /\ toServer = "none" /\ toReader = FALSE
  /\ sv = "select" /\ bi = 1
  /\ launchArgs = NoFile
  /\ cdaq = 0
  /\ runStatus = [run |-> 0, status |-> "unknown"]
  /\ eventsThisRun = 0 /\ evtsInRun = 0
  /\ disabled = [b \in Positions |-> FALSE]
  /\ processingTime = [b \in Positions |-> 0]
  /\ nrun = [b \in Positions |-> 0]
  /\ written = [r \in Runs |-> 0] /\ seen = [r \in Runs |-> 0]
  /\ launches = 0
  /\ alive = TRUE
-----------------------------------------------------------------------------
\* The reader thread

\* What get() comes to next: a source that is used up gives EOR, or, live, OK.
NextItem == IF rdr.pos < Len(Content[rdr.file])
              THEN Content[rdr.file][rdr.pos + 1]
              ELSE IF rdr.file \in Live THEN NoFile ELSE Eor

Advance == IF rdr.pos < Len(Content[rdr.file]) THEN rdr.pos + 1 ELSE rdr.pos

ReaderSend(m) == /\ toServer' = m
                 /\ rt' = "wait"
                 /\ UNCHANGED toReader

ServerSame == UNCHANGED <<sv, bi, cdaq, run, builders, launches, alive>>

\* get() returned an event.
ReadEvent == /\ alive /\ rt = "get"
             /\ NextItem \in Runs
             /\ rdr' = [rdr EXCEPT !.pos = Advance, !.run = NextItem]
             /\ nevts' = TRUE
             /\ seen' = [seen EXCEPT ![NextItem] = @ + 1]
             /\ ReaderSend("newevent")
             /\ UNCHANGED launchArgs /\ ServerSame

\* Only a stream goes past what cannot be read: the position in a file stays.
PassBad == IF rdr.file \in Live THEN Advance ELSE rdr.pos

\* Mutant: the run number is taken from an event that could not be read.
ReadBadRun == /\ alive /\ rt = "get"
              /\ NextItem = Bad
              /\ rdr' = [rdr EXCEPT !.pos = PassBad, !.run = NextItem]
              /\ ReaderSend("readerr")
              /\ UNCHANGED <<nevts, launchArgs, seen>> /\ ServerSame

\* get() returned NULL with EVP_STAT_EVT or EVP_STAT_CRIT.
ReadBad == /\ alive /\ rt = "get"
           /\ NextItem = Bad
           /\ rdr' = [rdr EXCEPT !.pos = PassBad]
           /\ ReaderSend("readerr")
           /\ UNCHANGED <<nevts, launchArgs, seen>> /\ ServerSame

(* get() returned NULL with EVP_STAT_EOR: the end of the run is told once,    *)
(* and only when an event came before it.  nevts, a local, is reset after the *)
(* wait; nothing reads it before.                                             *)
ReadEor == /\ alive /\ rt = "get"
           /\ NextItem = Eor
           /\ rdr' = [rdr EXCEPT !.pos = Advance]
           /\ nevts' = FALSE
           /\ \/ nevts /\ ReaderSend("stoprun")
              \/ ~nevts /\ UNCHANGED <<toServer, toReader, rt>>
           /\ UNCHANGED <<launchArgs, seen>> /\ ServerSame

\* Mutant: the release stays in the socket.
ReleasedUnread == /\ alive /\ rt = "wait"
                  /\ toReader
                  /\ rt' = IF launchArgs = NoFile THEN "get" ELSE "switch"
                  /\ UNCHANGED <<rdr, nevts, toServer, toReader, launchArgs, seen>>
                  /\ ServerSame

\* readerThreadWait: the release arrives; is there a file to change to?
Released == /\ alive /\ rt = "wait"
            /\ toReader
            /\ toReader' = FALSE
            /\ rt' = IF launchArgs = NoFile THEN "get" ELSE "switch"
            /\ UNCHANGED <<rdr, nevts, toServer, launchArgs, seen>> /\ ServerSame

Switch == /\ alive /\ rt = "switch"
          /\ rdr' = NewReader(launchArgs)
          /\ rt' = "clear"
          /\ UNCHANGED <<nevts, socket, launchArgs, seen>> /\ ServerSame

\* free(launchArgs) and launchArgs = NULL: what it points to by now is freed.
Clear == /\ alive /\ rt = "clear"
         /\ launchArgs' = NoFile
         /\ rt' = "get"
         /\ UNCHANGED <<rdr, nevts, socket, seen>> /\ ServerSame

ReaderStep == ReadEvent \/ ReadBad \/ ReadEor \/ Released \/ Switch \/ Clear
-----------------------------------------------------------------------------
\* The server thread

\* The test at the top of handleNewEvent.
StopAsked == (MaxEvts > 0 /\ evtsInRun > MaxEvts) \/ toServer = "stoprun"

\* performStartRun, with clearForNewRun and every builder's _startrun.
PerformStartRun == /\ runStatus' = [run |-> rdr.run, status |-> "running"]
                   /\ disabled' = [b \in Positions |-> FALSE]
                   /\ processingTime' = [b \in Positions |-> 0]
                   /\ nrun' = [b \in Positions |-> 0]

Running == runStatus.status = "running"

\* Mutant: the run that was written is still taken for the running one.
PerformStopRunUnmarked ==
  /\ written' = [written EXCEPT ![runStatus.run] = eventsThisRun]
  /\ eventsThisRun' = 0
  /\ UNCHANGED runStatus

\* performStopRun: the PDF and ROOT files of the run are written.
PerformStopRun == /\ written' = [written EXCEPT ![runStatus.run] = eventsThisRun]
                  /\ eventsThisRun' = 0
                  /\ runStatus' = [runStatus EXCEPT !.status = "stopped"]

\* Mutant: the last of -files is taken for one more.
NextFileLate == LET next == IF DaqFiles = <<>> THEN cdaq ELSE cdaq + 1 IN
                /\ cdaq' = next
                /\ rdr' = IF next < Len(DaqFiles) THEN NewReader(DaqFiles[next + 1])
                                                  ELSE rdr
                /\ alive' = ~(Die /\ next > Len(DaqFiles))

\* After a stop: the next of -files, or the end of the process.
NextFile == LET next == IF DaqFiles = <<>> THEN cdaq ELSE cdaq + 1 IN
            /\ cdaq' = next
            /\ rdr' = IF next < Len(DaqFiles) THEN NewReader(DaqFiles[next + 1])
                                              ELSE rdr
            /\ alive' = ~(Die /\ next >= Len(DaqFiles))

HandleStop == /\ alive /\ sv = "select"
              /\ toServer # "none" /\ StopAsked
              /\ toServer' = "none"
              /\ sv' = "release"
              /\ \/ Running /\ PerformStopRun /\ NextFile
                 \/ ~Running /\ UNCHANGED <<written, eventsThisRun, runStatus, cdaq, rdr, alive>>
              /\ UNCHANGED <<reader, toReader, bi, launchArgs, evtsInRun, builders,
                             seen, launches>>

HandleReadErr == /\ alive /\ sv = "select"
                 /\ toServer = "readerr" /\ ~StopAsked
                 /\ toServer' = "none"
                 /\ sv' = "release"
                 /\ UNCHANGED <<rdr, reader, toReader, bi, launchArgs, cdaq, run,
                                builders, seen, launches, alive>>

\* Mutant: a run is started only after a stop.
CountEventStopped ==
  \/ ~Running /\ PerformStartRun /\ eventsThisRun' = 1 /\ evtsInRun' = 0
  \/ /\ Running
     /\ eventsThisRun' = eventsThisRun + 1 /\ evtsInRun' = evtsInRun + 1
     /\ UNCHANGED <<runStatus, builders>>

\* Mutant: the event is counted before the counters are reset.
CountEventReset ==
  \/ /\ rdr.run # runStatus.run
     /\ PerformStartRun /\ eventsThisRun' = 0 /\ evtsInRun' = 0
  \/ /\ rdr.run = runStatus.run
     /\ eventsThisRun' = eventsThisRun + 1 /\ evtsInRun' = evtsInRun + 1
     /\ UNCHANGED <<runStatus, builders>>

(* An event of another run than the last starts that run.  evtsInRun goes     *)
(* back to zero after the event was counted, eventsThisRun before.            *)
CountEvent ==
  \/ /\ rdr.run # runStatus.run
     /\ PerformStartRun /\ eventsThisRun' = 1 /\ evtsInRun' = 0
  \/ /\ rdr.run = runStatus.run
     /\ eventsThisRun' = eventsThisRun + 1 /\ evtsInRun' = evtsInRun + 1
     /\ UNCHANGED <<runStatus, builders>>

\* Mutant: the reader is released before the builders have run.
HandleNewEventEager == /\ alive /\ sv = "select"
                       /\ toServer = "newevent" /\ ~StopAsked
                       /\ toServer' = "none" /\ toReader' = TRUE
                       /\ CountEvent
                       /\ sv' = "builders" /\ bi' = 1
                       /\ UNCHANGED <<rdr, reader, launchArgs, cdaq, written, seen,
                                      launches, alive>>

HandleNewEvent == /\ alive /\ sv = "select"
                  /\ toServer = "newevent" /\ ~StopAsked
                  /\ toServer' = "none"
                  /\ CountEvent
                  /\ sv' = "builders" /\ bi' = 1
                  /\ UNCHANGED <<rdr, reader, toReader, launchArgs, cdaq, written, seen,
                                 launches, alive>>

AtBuilder == alive /\ sv = "builders" /\ bi \in Positions

\* Mutant: the share of one event too many.
ThrottledLate == ThrottleAlgos /\ processingTime[bi] > ThrottleTime * (eventsThisRun + 1)

Throttled == ThrottleAlgos /\ processingTime[bi] > ThrottleTime * eventsThisRun

OutsideBuilders == UNCHANGED <<rdr, reader, socket, sv, launchArgs, cdaq, run, seen,
                               launches, alive>>

\* The builder is skipped: it takes too long, or it is disabled.
SkipBuilder == /\ AtBuilder
               /\ Throttled \/ disabled[bi]
               /\ bi' = bi + 1
               /\ UNCHANGED builders /\ OutsideBuilders

\* _event(rdr) returns after time c.
RunBuilder == /\ AtBuilder /\ ~Throttled /\ ~disabled[bi]
              /\ \E c \in Costs : processingTime' = [processingTime EXCEPT ![bi] = @ + c]
              /\ nrun' = [nrun EXCEPT ![bi] = @ + 1]
              /\ bi' = bi + 1
              /\ UNCHANGED disabled /\ OutsideBuilders

\* A signal in the builder: siglongjmp back to the loop, which disables it.
CrashBuilder == /\ AtBuilder /\ ~Throttled /\ ~disabled[bi]
                /\ disabled' = [disabled EXCEPT ![bi] = TRUE]
                /\ bi' = bi + 1
                /\ UNCHANGED <<processingTime, nrun>> /\ OutsideBuilders

\* Mutant: no release after an event.
ReleaseForgotten == /\ alive
                    /\ \/ sv = "release" /\ toReader' = TRUE
                       \/ sv = "builders" /\ bi > Len(Builders) /\ UNCHANGED toReader
                    /\ sv' = "select"
                    /\ UNCHANGED <<rdr, reader, toServer, bi, launchArgs, cdaq, run,
                                   builders, seen, launches, alive>>

\* The message is handled: readSocket sends the release.
Release == /\ alive
           /\ sv = "release" \/ (sv = "builders" /\ bi > Len(Builders))
           /\ sv' = "select"
           /\ toReader' = TRUE
           /\ UNCHANGED <<rdr, reader, toServer, bi, launchArgs, cdaq, run, builders,
                          seen, launches, alive>>

\* handleEvpMessage, "launch": the pointer is overwritten whatever it held.
Launch(f) == /\ alive /\ sv = "select"
             /\ launches < MaxLaunches
             /\ launches' = launches + 1
             /\ launchArgs' = f
             /\ UNCHANGED <<rdr, reader, socket, sv, bi, cdaq, run, builders, seen, alive>>

BuilderStep == SkipBuilder \/ RunBuilder \/ CrashBuilder
ServerStep == HandleStop \/ HandleReadErr \/ HandleNewEvent \/ BuilderStep \/ Release

Next == ReaderStep \/ ServerStep \/ \E f \in Files : Launch(f)

Spec == Init /\ [][Next]_vars

(* Both threads are scheduled, and get() and a builder return; clients make   *)
(* requests if they like.                                                     *)
FairSpec == Spec /\ WF_vars(ReaderStep) /\ WF_vars(ServerStep)
-----------------------------------------------------------------------------
(* "I attempt to get an event.  Once I have an event, then I send a message   *)
(* to the server.  I then wait": whenever the server thread is inside         *)
(* handleNewEvent, the reader thread is waiting and will not touch the        *)
(* daqReader, which the handler reads and may delete and replace.             *)
RdrExclusive == sv # "select" => rt = "wait" /\ toServer = "none" /\ ~toReader

(* The two threads never wait for each other: a waiting reader has a message  *)
(* under way, being handled, or its release under way, exactly one of them.   *)
HandshakeInv ==
  /\ rt = "wait" => \/ toServer # "none" /\ sv = "select" /\ ~toReader
                    \/ toServer = "none" /\ sv # "select" /\ ~toReader
                    \/ toServer = "none" /\ sv = "select" /\ toReader
  /\ rt # "wait" => toServer = "none" /\ sv = "select" /\ ~toReader

(* Every builder gets the events of the run that was started for it, through  *)
(* all of the loop over the builders.                                         *)
BuildersSeeCurrentRun == sv = "builders" => rdr.run = runStatus.run

(* In a run that was not stopped a builder is never more than one event's     *)
(* time above its share: throttling bounds the time the run spends in a       *)
(* builder by the number of its events.  A stop sets the number to zero and   *)
(* leaves the times: events that still come for that run meet builders that   *)
(* are throttled already.                                                     *)
ThrottleBound ==
  ThrottleAlgos /\ Running =>
    \A b \in Positions : \E c \in Costs \cup {0} :
      processingTime[b] <= ThrottleTime * eventsThisRun + c

(* A run is written before another one starts, unless a launch cut it off.    *)
WrittenBeforeNext ==
  [][launches = 0 /\ runStatus.run # 0 /\ runStatus'.run # runStatus.run
       => runStatus.status = "stopped"]_vars

\* A message the reader sends is answered: the reader reads again.
ReaderReleased == rt = "wait" ~> (rt # "wait" \/ ~alive)

(* "-die: exit after end of run", here: after the last of -files.  A launch    *)
(* takes the reader away from them.                                           *)
DiesAtEnd == Die /\ [](launches = 0) => <>~alive

(* A run whose first event was read is written in the end, with every event    *)
(* of it counted, unless a client takes the reader to another file.           *)
EveryRunWritten ==
  \A r \in Runs : seen[r] > 0 ~> (written[r] = seen[r] \/ launches > 0)

(* "die when the run is over? or wait for the next run...": without -die, a   *)
(* run whose events arrive after a stop is started.                           *)
NextRunStarts == \A r \in Runs : <>(seen[r] > 0) => <>(runStatus.run = r)
=============================================================================
