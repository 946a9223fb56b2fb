------------------------------ MODULE DaqReader ------------------------------
(* daqReader: get() returns the next event of a .daq file, of a directory of  *)
(* event files 1, 2, 3, ... or, live, of the event pool, whose manager (EVP)  *)
(* is asked for an event through a queue and answers with the number of an    *)
(* event file.  After each call status tells the client what happened: OK,    *)
(* EOR (end of run) or EVT (something is wrong with this event); the client   *)
(* calls again and again.  A directory may still be written while it is read. *)
(*                                                                            *)
(* A file is a sequence of records:                                           *)
(*   evt, last  an event with a token, or with token 0, which ends a run      *)
(*   log        a directory of a stand-alone SFS file that has no event       *)
(*   endr       the end-of-run record                                         *)
(*   pad        8192 bytes of padding that belong to nothing                  *)
(*   hollow     a directory in which the event cannot be found                *)
(* and, at its end, torn (an event cut off), stub (a header cut off) or scrap *)
(* (other bytes, not a multiple of 8192).                                     *)
EXTENDS Integers, Sequences, FiniteSets

CONSTANTS Inputs,      \* the input types to read from
          Files,       \* the contents of a .daq file
          Last,        \* number of event files in a directory or pool
          PadChecks,   \* paddings that get looks behind
          MaxSkip,     \* bound: events skipped by one skip_then_get
          MaxAsk,      \* bound: requests that EVP has not answered
          MaxOther     \* bound: answers of EVP without an event

ASSUME InputsAssumption == Inputs \subseteq {"file", "dir", "live"}
ASSUME BoundsAssumption == /\ Last \in Nat /\ PadChecks \in Nat \ {0}
                           /\ MaxSkip \in Nat /\ MaxAsk \in Nat \ {0} /\ MaxOther \in Nat

Records == {"evt", "last", "log", "endr", "pad", "hollow", "torn", "stub", "scrap"}
NoFile == <<"none">>
ASSUME FilesAssumption == Files \subseteq Seq(Records) /\ NoFile \notin Files

VARIABLES
  input,         \* input_type
  disk,          \* disk[0]: the .daq file; disk[n]: event file n
  pos,           \* evt_offset_in_file: the record the next get begins with
  status,        \* what get leaves for the client
  event_number, token,
  requests,      \* asked of EVP and not answered
  replies,       \* answers that the reader has not received
  writing,       \* the event file that the event builder is at
  offered,       \* history: events EVP has answered with
  others,        \* history: other answers
  got,           \* history: the events that get returned; 0: EOR after an event
  skipped,       \* history: events of the file skipped at the client's request
  early,         \* history: event files of a directory opened before they were whole
  lost           \* history: offered events that could not be had

readerVars == <<pos, status, event_number, token>>
queueVars == <<requests, replies>>
poolVars == <<writing, offered, others>>
history == <<got, skipped, early, lost>>
vars == <<input, disk, readerVars, queueVars, poolVars, history>>

Numbers == 1 .. Last

\* Answers of EVP: the number of an event file, the end of a run, a failure.
StatSeq == 0
StatOther == Last + 1

ToSet(s) == {s[i] : i \in DOMAIN s}
IsEvent(r) == r \in {"evt", "last"}
Whole(f) == f \notin {NoFile, <<>>, <<"torn">>}

TypeOK ==
  /\ input \in Inputs
  /\ disk \in [0 .. Last -> Seq(Records) \cup {NoFile}]
  /\ pos \in Nat \ {0} /\ status \in {"OK", "EOR", "EVT"}
  /\ event_number \in Nat /\ token \in {0, 1}
  /\ requests \in 0 .. MaxAsk /\ replies \in Seq(0 .. Last + 1)
  /\ writing \in 1 .. Last + 1 /\ offered \subseteq Numbers /\ others \in 0 .. MaxOther
  /\ got \in Seq(Nat) /\ skipped \subseteq Nat
  /\ early \subseteq Numbers /\ lost \subseteq Numbers

(* The constructor does not set token: before the first event it may have any *)
(* value.                                                                     *)
Init ==
  /\ input \in Inputs
  /\ \/ input = "file" /\ \E f \in Files : disk = [n \in 0 .. Last |-> IF n = 0 THEN f ELSE NoFile]
     \/ input # "file" /\ disk = [n \in 0 .. Last |-> NoFile]
  /\ pos = 1 /\ status = "OK" /\ event_number = 0 /\ token \in {0, 1}
  /\ requests = 0 /\ replies = <<>>
  /\ writing = 1 /\ offered = {} /\ others = 0
  /\ got = <<>> /\ skipped = {} /\ early = {} /\ lost = {}
-----------------------------------------------------------------------------
\* One event of an open file

At(f, i) == IF i \in DOMAIN f THEN f[i] ELSE "end"

\* The first record from i on that is not of kind k.
Past(f, i, k) ==
  CHOOSE j \in i .. Len(f) + 1 : At(f, j) # k /\ \A n \in i .. j - 1 : f[n] = k

Result(s, j, n) == [status |-> s, pos |-> j, event |-> n]

(* addToEventSize, up to PadChecks times, from record i: what is no header is *)
(* taken for padding of the event before it, 8192 bytes at a time.  The last  *)
(* such step goes beyond the end of a file that ends with other bytes.        *)
Blocks(f, i) == LET j == Past(f, i, "pad") IN j - i + (IF At(f, j) = "scrap" THEN 1 ELSE 0)

\* Mutant: one search less.
TooMuchEarly(f, i) == Blocks(f, i) >= PadChecks

\* No header is found there either: "Error finding next event".
TooMuch(f, i) == Blocks(f, i) > PadChecks

\* Mutant: the file position stays.
NextEventSame(f, j) == j

\* Where the event after the one at j begins: its padding belongs to it.
NextEvent(f, j) == Past(f, j + 1, "pad")

\* Directories without an event are passed over.
First(f, i) == Past(f, i, "log")

(* What get does with the file it has open.  Only an event that is returned,  *)
(* and the logs before it, are left behind: after EVT the next call meets the *)
(* same record again.                                                         *)
GetEvent(f, i) ==
  LET j == First(f, i)
      r == At(f, j)
      behind == IF IsEvent(r) THEN j + 1 ELSE j
  IN IF r \in {"end", "endr"} \/ TooMuch(f, behind) THEN Result("EOR", j, 0)
     ELSE IF r \in {"pad", "hollow", "stub", "scrap"} THEN Result("EVT", j, 0)
     ELSE IF r = "torn" \/ At(f, NextEvent(f, j)) = "scrap"
     THEN Result(IF input = "dir" THEN "EVT" ELSE "EOR", j, 0)
     ELSE Result("OK", NextEvent(f, j), j)

\* get returns event n, or NULL.
Returned(n) == got' = Append(got, n)
ReturnedNull(s) ==
  got' = IF s = "EOR" /\ got # <<>> /\ got[Len(got)] # 0 THEN Append(got, 0) ELSE got
-----------------------------------------------------------------------------
\* A .daq file

(* skip_then_get(n): n times the steps of get, without the event, as long as  *)
(* all goes well, then get; with n = 0, get alone.  event_number is counted   *)
(* too, but nothing reads it here.                                            *)
Rounds(n) ==
  LET s[k \in 0 .. n + 1] == IF k = 0 THEN Result("OK", pos, 0)
                             ELSE IF s[k - 1].status = "OK" THEN GetEvent(disk[0], s[k - 1].pos)
                             ELSE s[k - 1]
  IN s

\* The events of the first n rounds.
RoundEvents(s, n) == {s[k].event : k \in {k \in 1 .. n : s[k].status = "OK"}}

GetFile(n) ==
  /\ input = "file"
  /\ LET s == Rounds(n)
         g == s[n + 1]
     IN /\ pos' = g.pos /\ status' = g.status
        /\ skipped' = skipped \cup RoundEvents(s, n)
        /\ IF g.status = "OK" THEN Returned(g.event) ELSE ReturnedNull(g.status)
  /\ UNCHANGED <<input, disk, event_number, token, queueVars, poolVars, early, lost>>
-----------------------------------------------------------------------------
\* Event files

\* Mutant: the token is not looked at.
AtTokenZeroNever == FALSE

\* The event before this one had token 0.
AtTokenZero == event_number + 1 # 1 /\ token = 0

(* The file of event n is opened, its size taken and its first event read.    *)
ReadEventFile(n) ==
  LET g == GetEvent(disk[n], 1) IN
  /\ event_number' = n /\ status' = g.status
  /\ IF g.status = "OK"
     THEN Returned(n) /\ token' = IF disk[n][g.event] = "last" THEN 0 ELSE 1
     ELSE ReturnedNull(g.status) /\ UNCHANGED token

\* NULL; event_number is one less again.
GiveUp(s) == status' = s /\ ReturnedNull(s) /\ UNCHANGED <<event_number, token>>

File(n) == IF n \in Numbers THEN disk[n] ELSE NoFile

\* Mutant: a file that is not there yet is not looked for again.
DirMissingCounted ==
  /\ ~AtTokenZero /\ File(event_number + 1) = NoFile
  /\ status' = "EOR" /\ ReturnedNull("EOR")
  /\ event_number' = IF event_number < Last THEN event_number + 1 ELSE event_number
  /\ UNCHANGED <<token, early>>

\* There is no file of the next number: EOR, and the next get looks again.
DirMissing ==
  /\ ~AtTokenZero /\ File(event_number + 1) = NoFile
  /\ GiveUp("EOR") /\ UNCHANGED early

\* There is one, whole or not.
DirRead ==
  LET n == event_number + 1 IN
  /\ ~AtTokenZero /\ File(n) # NoFile
  /\ ReadEventFile(n)
  /\ early' = IF Whole(disk[n]) THEN early ELSE early \cup {n}

DirEnd == AtTokenZero /\ GiveUp("EOR") /\ UNCHANGED early

GetDir ==
  /\ input = "dir"
  /\ DirEnd \/ DirMissing \/ DirRead
  /\ UNCHANGED <<input, disk, pos, queueVars, poolVars, skipped, lost>>
-----------------------------------------------------------------------------
\* The event pool

Events(rs) == ToSet(rs) \cap Numbers

\* Mutant: after the end of a run event_number is not set back.
LiveEndStays == AtTokenZero /\ GiveUp("EOR") /\ UNCHANGED <<queueVars, lost>>

\* Mutant: it is set back to 0, and get takes one off.
LiveEndAtZero ==
  /\ AtTokenZero
  /\ status' = "EOR" /\ ReturnedNull("EOR")
  /\ event_number' = -1
  /\ UNCHANGED <<token, queueVars, lost>>

\* After the end of a run event_number starts again, so that this happens once.
LiveEnd ==
  /\ AtTokenZero
  /\ status' = "EOR" /\ ReturnedNull("EOR")
  /\ event_number' = 0
  /\ UNCHANGED <<token, queueVars, lost>>

\* Every get that comes so far asks, answered or not: evtwait resets issued.
Ask == requests' = IF requests < MaxAsk THEN requests + 1 ELSE requests

\* The connection fails; what is on its way is lost.
LiveReconnect ==
  /\ ~AtTokenZero
  /\ requests' = 0 /\ replies' = <<>>
  /\ lost' = lost \cup Events(replies)
  /\ GiveUp("EVT")

\* Nothing has come yet.
LiveWait ==
  /\ ~AtTokenZero /\ replies = <<>>
  /\ Ask /\ GiveUp("OK")
  /\ UNCHANGED <<replies, lost>>

LiveNoEvent ==
  /\ ~AtTokenZero /\ replies # <<>>
  /\ Ask /\ replies' = Tail(replies)
  /\ \/ Head(replies) = StatSeq /\ GiveUp("EOR")
     \/ Head(replies) = StatOther /\ GiveUp("EVT")
  /\ UNCHANGED lost

(* An event: its file is there, whole, or it cannot be opened, because the    *)
(* pool was cleaned or its directory renamed after the reader looked for it.  *)
LiveEvent ==
  LET n == Head(replies) IN
  /\ ~AtTokenZero /\ replies # <<>> /\ n \in Numbers
  /\ Ask /\ replies' = Tail(replies)
  /\ \/ ReadEventFile(n) /\ UNCHANGED lost
     \/ /\ event_number' = n /\ status' = "EVT"
        /\ UNCHANGED <<token, got>>
        /\ lost' = lost \cup {n}

GetLive ==
  /\ input = "live"
  /\ LiveEnd \/ LiveReconnect \/ LiveWait \/ LiveNoEvent \/ LiveEvent
  /\ UNCHANGED <<input, disk, pos, poolVars, skipped, early>>
-----------------------------------------------------------------------------
\* Event builder and EVP, which are not part of this code

EventFiles == {<<"evt">>, <<"last">>, <<"log", "evt">>}

\* An event file is created, filled and whole; a directory ends with its run.
Write ==
  /\ input # "file" /\ writing <= Last
  /\ input = "dir" /\ writing > 1 => disk[writing - 1] # <<"last">>
  /\ LET f == disk[writing] IN
       \/ /\ f = NoFile /\ disk' = [disk EXCEPT ![writing] = <<>>] /\ UNCHANGED writing
       \/ /\ f = <<>> /\ disk' = [disk EXCEPT ![writing] = <<"torn">>] /\ UNCHANGED writing
       \/ /\ f = <<"torn">> /\ writing' = writing + 1
          /\ \E g \in EventFiles : disk' = [disk EXCEPT ![writing] = g]
  /\ UNCHANGED <<input, readerVars, queueVars, offered, others, history>>

\* EVP answers a request, in order, with an event whose file is whole.
Answer ==
  /\ requests > 0 /\ requests' = requests - 1
  /\ \/ \E n \in 1 .. writing - 1 :
          /\ \A k \in offered : k < n
          /\ offered' = offered \cup {n} /\ replies' = Append(replies, n)
          /\ UNCHANGED others
     \/ /\ others < MaxOther /\ others' = others + 1
        /\ \E r \in {StatSeq, StatOther} : replies' = Append(replies, r)
        /\ UNCHANGED offered
  /\ UNCHANGED <<input, disk, readerVars, writing, history>>
-----------------------------------------------------------------------------
Get == GetFile(0) \/ GetDir \/ GetLive

Next == Get \/ (\E n \in 1 .. MaxSkip : GetFile(n)) \/ Write \/ Answer

Spec == Init /\ [][Next]_vars

\* The client calls again whatever status it finds; the run goes on.
FairSpec == Spec /\ WF_vars(Get) /\ WF_vars(Write)
-----------------------------------------------------------------------------
Sound(f) ==
  \A i \in DOMAIN f :
    \/ IsEvent(f[i]) /\ Blocks(f, i + 1) <= PadChecks
    \/ f[i] \in {"log", "endr"} /\ At(f, i + 1) # "pad"
    \/ f[i] = "pad" /\ i > 1

FileEvents(f) == {i \in DOMAIN f : IsEvent(f[i])}

(* No event is passed over: in a file each before the place where the next    *)
(* get begins was returned or skipped on request, in a directory each up to   *)
(* event_number, except those whose file was opened before it was whole, and  *)
(* live each that EVP offered is on its way unless its file or the connection *)
(* failed.                                                                    *)
NoEventPassedOver ==
  /\ input = "file" => FileEvents(disk[0]) \cap 1 .. pos - 1 \subseteq ToSet(got) \cup skipped
  /\ input = "dir" => 1 .. event_number \subseteq ToSet(got) \cup early
  /\ input = "live" => offered \subseteq ToSet(got) \cup Events(replies) \cup lost

\* Events are returned in order and once, and never one that was skipped.
OnceInOrder ==
  /\ \A i, j \in DOMAIN got : i < j /\ got[j] # 0 => got[i] < got[j]
  /\ ToSet(got) \cap skipped = {}

(* The end of a run, an event with token 0, is told before the next event,    *)
(* and of a directory nothing comes after it.                                 *)
EndIsTold ==
  input # "file" => \A i \in 1 .. Len(got) - 1 :
    got[i] # 0 /\ ToSet(disk[got[i]]) \cap {"last"} # {} =>
      got[i + 1] = 0 /\ (input = "dir" => i + 1 = Len(got))

(* EOR of a file that has nothing but events, their padding, logs and         *)
(* end-of-run records: all events before the first of these were delivered.   *)
EorMeansAll ==
  input = "file" /\ status = "EOR" /\ Sound(disk[0]) =>
    \A i \in FileEvents(disk[0]) :
      (\A j \in 1 .. i : disk[0][j] # "endr") => i \in ToSet(got) \cup skipped

(* A client that goes on calling get comes to the end of a sound file.  It    *)
(* gets every event of a directory whose file it did not open too early, the  *)
(* first in particular (token has no value before), and live every event      *)
(* offered to it that can be had: no end of run, error or answer without an   *)
(* event stops it.                                                            *)
ReadsToTheEnd ==
  /\ input = "file" /\ Sound(disk[0]) ~> input = "file" /\ status = "EOR"
  /\ \A n \in Numbers : input = "dir" /\ n < writing ~> {1, n} \cap early # {} \/ n \in ToSet(got)
  /\ \A n \in Numbers : n \in Events(replies) ~> n \in ToSet(got) \cup lost
=============================================================================
