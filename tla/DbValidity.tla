------------------------------ MODULE DbValidity ------------------------------
(* The table that St_db_Maker has in use for an event, and the time interval  *)
(* for which it keeps it (StValiSet).  The objects of one table come from     *)
(* two sources: rows of the MySQL database, asked for through StDbBroker, and *)
(* files of a directory tree ("CINT").  Each has the time at which its        *)
(* validity begins; it ends when that of the next one begins.  The object of  *)
(* the source whose validity began later is used.  Makers ask for the table   *)
(* (GetDataBase) at any point of an event, also before the event has a time;  *)
(* what was asked for once is kept up to date by Make for every event.        *)
(*                                                                            *)
(* The database does not change for a job: rows entered after fMaxEntryTime   *)
(* are not seen.                                                              *)
EXTENDS Naturals

CONSTANTS MaxTime,    \* 2038, kMaxTime
          Unset,      \* 2033: the time of an event that is not set
          MaxFails    \* bound: queries that fail

ASSUME MaxTimeAssumption == MaxTime \in Nat \ {0}
ASSUME UnsetAssumption == Unset \in 0 .. MaxTime - 1
ASSUME MaxFailsAssumption == MaxFails \in Nat

VARIABLES
  rows,        \* the times at which the table's rows in MySQL begin
  endTime,     \* endTime[b]: the column of that name, MaxTime without it
  files,       \* the times at which its files begin
  time,        \* the time of the event
  made,        \* the table was asked for, or Make was called, since time was set
  timeMin, timeMax, good, modified,
  inUse,       \* the object that fDat is
  fails        \* history: queries that failed

db == <<rows, endTime, files>>
valiSet == <<timeMin, timeMax, good, modified, inUse>>
vars == <<db, time, made, valiSet, fails>>

Times == 0 .. MaxTime - 1
EventTimes == 0 .. Unset - 1
None == [from |-> "none", begin |-> 0]
Objects == [from : {"sql", "file"}, begin : Times] \cup {None}

TypeOK ==
  /\ rows \subseteq Times /\ endTime \in [Times -> 1 .. MaxTime] /\ files \subseteq Times
  /\ time \in EventTimes \cup {Unset} /\ made \in BOOLEAN
  /\ timeMin \in 0 .. MaxTime /\ timeMax \in 0 .. MaxTime
  /\ good \in BOOLEAN /\ modified \in BOOLEAN /\ inUse \in Objects
  /\ fails \in 0 .. MaxFails

\* A new StValiSet is valid at no time.
Init ==
  /\ rows \in SUBSET Times /\ files \in SUBSET Times
  /\ endTime \in [Times -> 1 .. MaxTime]
  /\ \A b \in Times : b < endTime[b] /\ (b \notin rows => endTime[b] = MaxTime)
  /\ time = Unset /\ made = FALSE
  /\ timeMin = MaxTime /\ timeMax = 0 /\ good = FALSE /\ modified = FALSE
  /\ inUse = None /\ fails = 0
-----------------------------------------------------------------------------
\* b is the last of S that begins by time t.
IsLast(b, S, t) == b \in S /\ b <= t /\ \A c \in S : c <= t => c <= b

\* Mutant: what the search begins with is taken for a time.
IsNextUnbounded(e, S, t) ==
  \/ e \in S /\ t < e /\ \A c \in S : t < c => e <= c
  \/ e = MaxTime + 1 /\ \A c \in S : c <= t

\* e is the first of S after time t, MaxTime when there is none.
IsNext(e, S, t) ==
  \/ e \in S /\ t < e /\ \A c \in S : t < c => e <= c
  \/ e = MaxTime /\ \A c \in S : c <= t

(* UpdateTable: StDbBroker::Use returns the last row and its interval.  A row *)
(* whose endTime is over is not returned, but one whose endTime is to come is *)
(* valid until the next begins: updateEndTime changes a time that the broker  *)
(* does not read.                                                             *)
Row(t, b, e) == IsLast(b, rows, t) /\ IsNext(e, rows, t) /\ t <= endTime[b]
NoRow(t) == \A b \in rows : IsLast(b, rows, t) => endTime[b] < t

\* FindLeft: the last file, and the time of the next.
Left(t, b, e) == IsLast(b, files, t) /\ IsNext(e, files, t)
NoLeft(t) == \A f \in files : t < f

\* Mutant: an object is kept until its own validity ends.
CutOffNever(e, other) == e

\* Mutant: the comparison is turned round.
CutOffLater(e, other) == IF other < e THEN e ELSE other

\* The object of one source is kept no longer than that of the other is valid.
CutOff(e, other) == IF other < e THEN other ELSE e

Use(from, b, e) ==
  /\ inUse' = [from |-> from, begin |-> b]
  /\ timeMin' = b /\ timeMax' = e /\ good' = TRUE

\* Both are there, and the later of the two is used.
UseLater(b, e, lb, le) ==
  \/ lb >= b /\ Use("file", lb, CutOff(le, e))
  \/ lb < b /\ Use("sql", b, CutOff(e, le))

\* Neither is, and none is looked for again: the broker says 1995 to 2038.
UseNone ==
  /\ inUse' = None
  /\ timeMin' = 0 /\ timeMax' = MaxTime /\ good' = FALSE

UpdateValiSet(t) ==
  /\ \/ /\ fails' = fails
        /\ \E b, e, lb, le \in 0 .. MaxTime + 1 :
             Row(t, b, e) /\ Left(t, lb, le) /\ UseLater(b, e, lb, le)
     \/ /\ fails' = fails
        /\ NoLeft(t) /\ \E b, e \in 0 .. MaxTime + 1 : Row(t, b, e) /\ Use("sql", b, e)
     \/ /\ \/ NoRow(t) /\ fails' = fails
           \/ fails < MaxFails /\ fails' = fails + 1
        /\ \/ \E b, e \in 0 .. MaxTime + 1 : Left(t, b, e) /\ Use("file", b, e)
           \/ NoLeft(t) /\ UseNone
  /\ modified' = TRUE
-----------------------------------------------------------------------------
\* Mutant: the end of the interval belongs to it.
CoversEnd(t) == timeMin <= t /\ t <= timeMax

Covers(t) == timeMin <= t /\ t < timeMax

UpdateDB ==
  \/ Covers(time) /\ UNCHANGED <<valiSet, fails>>
  \/ ~Covers(time) /\ UpdateValiSet(time)

GetDataBase ==
  /\ UpdateDB
  /\ made' = TRUE
  /\ UNCHANGED <<db, time>>

\* An event without a time is fatal: nothing is done.
Make ==
  /\ time # Unset
  /\ \/ modified /\ UpdateDB
     \/ ~modified /\ UNCHANGED <<valiSet, fails>>
  /\ made' = modified
  /\ UNCHANGED <<db, time>>

\* The next event, in any order of time.
SetTime(t) ==
  /\ time' = t /\ made' = FALSE
  /\ UNCHANGED <<db, valiSet, fails>>

Next == GetDataBase \/ Make \/ \E t \in EventTimes : SetTime(t)

Spec == Init /\ [][Next]_vars
-----------------------------------------------------------------------------
(* "assert((val->fTimeMin.Get()<= uevent) && (val->fTimeMax.Get()>uevent))",  *)
(* and after each Make it holds of the current event for all that was ever    *)
(* asked for.                                                                 *)
Current == made => timeMin <= time /\ time < timeMax

(* What is in use for an event is the last of its source that had begun:      *)
(* never one of the future, never one that another of the source replaced.    *)
LatestOfItsSource ==
  made => /\ inUse.from = "sql" => IsLast(inUse.begin, rows, time)
          /\ inUse.from = "file" => IsLast(inUse.begin, files, time)

\* What a job that begins with this event, and whose query succeeds, uses.
Fresh(o, t) ==
  \/ /\ o.from = "sql" /\ IsLast(o.begin, rows, t) /\ t <= endTime[o.begin]
     /\ \A f \in files : f <= t => f < o.begin
  \/ /\ o.from = "file" /\ IsLast(o.begin, files, t)
     /\ \/ NoRow(t)
        \/ \A b \in rows : b <= t => b <= o.begin
  \/ o = None /\ NoRow(t) /\ NoLeft(t)

(* "success or failure yields an endtime": that of a failure is where the     *)
(* first row begins, so that an event after it is not left without one.       *)
AbsentUntilFirstRow ==
  files = {} /\ (\A b \in rows : endTime[b] = MaxTime) /\ fails = 0
    => (made /\ inUse = None => \A b \in rows : time < b)

Complete(S) == S = {} \/ 0 \in S

(* If each source has none or has one from the beginning, no row has an       *)
(* endTime and no query fails, what is in use does not depend on the events   *)
(* that came before.                                                          *)
AsIfFreshWhenComplete ==
  Complete(rows) /\ Complete(files) /\ (\A b \in rows : endTime[b] = MaxTime) /\ fails = 0
    => (made => Fresh(inUse, time))
=============================================================================
