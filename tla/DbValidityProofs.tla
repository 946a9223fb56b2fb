--------------------------- MODULE DbValidityProofs ---------------------------
(* Proofs about DbValidity, for every MaxTime, every set of rows and files    *)
(* and any order of events.                                                   *)
EXTENDS DbValidity, WellFoundedInduction, TLAPS

\* Nothing disturbs a set that is good for any order of events.
Undisturbed ==
  Complete(rows) /\ Complete(files) /\ (\A b \in rows : endTime[b] = MaxTime) /\ fails = 0

\* The object in use is right for event time t.
RightFor(t) ==
  /\ inUse.from = "sql" => IsLast(inUse.begin, rows, t)
  /\ inUse.from = "file" => IsLast(inUse.begin, files, t)
  /\ Undisturbed => Fresh(inUse, t)

(* Inductive invariant: the object in use is right for every time in the      *)
(* interval, not only for that of the event it was taken for.                 *)
IInv ==
  /\ TypeOK
  /\ made => modified /\ Covers(time)
  /\ \A t \in Times : Covers(t) => modified /\ RightFor(t)
-----------------------------------------------------------------------------
\* Of a set that begins at time 0 one is the last at any time.
LEMMA SomeLast ==
  ASSUME NEW S, S \subseteq Nat, 0 \in S, NEW u \in Nat
  PROVE  \E b \in S : IsLast(b, S, u)
<1> DEFINE D == {u - c : c \in {c \in S : c <= u}}
<1>1. D \subseteq Nat /\ u - 0 \in D
  OBVIOUS
<1>2. PICK d \in D : \A x \in D : d <= x
  <2> DEFINE Lt == OpToRel(<, Nat)
  <2>1. \E d \in D : \A x \in D : <<x, d>> \notin Lt
    <3>1. IsWellFoundedOn(Lt, Nat) /\ D # {}
      BY <1>1, NatLessThanWellFounded
    <3> HIDE DEF D, Lt
    <3> QED BY <3>1, <1>1, WFMin
  <2>2. ASSUME NEW d \in D, NEW x \in D, <<x, d>> \notin Lt PROVE d <= x
    <3>1. d \in Nat /\ x \in Nat
      BY <1>1
    <3>2. <<x, d>> \in Lt <=> x < d
      BY <3>1 DEF OpToRel
    <3> HIDE DEF D, Lt
    <3> QED BY <3>1, <3>2, <2>2
  <2> QED BY <2>1, <2>2
<1>3. PICK b \in S : b <= u /\ d = u - b
  BY <1>2
<1>4. ASSUME NEW c \in S, c <= u PROVE c <= b
  <2>1. u - c \in D
    BY <1>4
  <2>2. u - b <= u - c
    BY <2>1, <1>2, <1>3
  <2>3. b \in Nat /\ c \in Nat
    OBVIOUS
  <2> HIDE DEF D
  <2> QED BY <2>2, <2>3
<1> QED BY <1>3, <1>4 DEF IsLast

\* What is the last at one time is so until the next begins.
LEMMA LastHolds ==
  ASSUME NEW S, S \subseteq Times, NEW u \in Times, NEW b, NEW e,
         IsLast(b, S, u), IsNext(e, S, u)
  PROVE  /\ b \in Times /\ e \in 0 .. MaxTime /\ b <= u /\ u < e
         /\ \A t \in Times : b <= t /\ t < e => IsLast(b, S, t)
<1>1. u \in Nat /\ u < MaxTime /\ MaxTime \in Nat /\ S \subseteq Nat
  BY MaxTimeAssumption DEF Times
<1>2. b \in Times /\ b <= u /\ \A c \in S : c <= u => c <= b
  BY DEF IsLast
<1>3. \/ e \in S /\ u < e /\ \A c \in S : u < c => e <= c
      \/ e = MaxTime /\ \A c \in S : c <= u
  BY DEF IsNext
<1>4. e \in 0 .. MaxTime /\ u < e
  <2>1. CASE e \in S /\ u < e
    <3>1. e \in Times
      BY <2>1
    <3> QED BY <1>1, <2>1, <3>1 DEF Times
  <2>2. CASE e = MaxTime
    BY <1>1, <2>2
  <2> QED BY <1>3, <2>1, <2>2
<1>5. \A c \in S : c <= u \/ e <= c
  BY <1>1, <1>3
<1>6. ASSUME NEW t \in Times, b <= t, t < e PROVE IsLast(b, S, t)
  <2>1. t \in Nat
    BY MaxTimeAssumption DEF Times
  <2>2. ASSUME NEW c \in S, c <= t PROVE c <= b
    BY <1>1, <1>2, <1>4, <1>5, <1>6, <2>1, <2>2
  <2> QED BY <1>6, <2>2 DEF IsLast
<1> QED BY <1>2, <1>4, <1>6

\* Without a row at one time a complete set of rows without endTimes is empty.
LEMMA NoRowAtAll ==
  ASSUME TypeOK, NEW u \in Times, NoRow(u), Complete(rows),
         \A b \in rows : endTime[b] = MaxTime
  PROVE  rows = {}
<1>1. SUFFICES ASSUME 0 \in rows PROVE FALSE
  BY DEF Complete
<1>2. rows \subseteq Nat /\ u \in Nat
  BY MaxTimeAssumption DEF TypeOK, Times
<1>3. PICK b \in rows : IsLast(b, rows, u)
  BY <1>1, <1>2, SomeLast
<1>4. MaxTime < u
  BY <1>3 DEF NoRow
<1> QED BY <1>4, MaxTimeAssumption DEF Times

\* Likewise the files.
LEMMA NoLeftAtAll ==
  ASSUME NEW u \in Times, NoLeft(u), Complete(files)
  PROVE  files = {}
  BY MaxTimeAssumption DEF NoLeft, Complete, Times
-----------------------------------------------------------------------------
\* The time of an event, set or not, is one of validity.
LEMMA TimeIsValid == ASSUME TypeOK PROVE time \in Times
  BY MaxTimeAssumption, UnsetAssumption DEF TypeOK, Times, EventTimes

\* What holds after a step that takes an object for time u.
Right(u) ==
  /\ timeMin' \in 0 .. MaxTime /\ timeMax' \in 0 .. MaxTime
  /\ good' \in BOOLEAN /\ inUse' \in Objects
  /\ Covers(u)'
  /\ \A t \in Times : Covers(t)' => RightFor(t)'

\* Of a row and a file the later one is used, until the first of them ends.
LEMMA LaterRight ==
  ASSUME TypeOK, NEW u \in Times, UNCHANGED db, NEW b, NEW e, NEW lb, NEW le,
         Row(u, b, e), Left(u, lb, le), UseLater(b, e, lb, le)
  PROVE  Right(u)
<1>1. /\ b \in Times /\ e \in 0 .. MaxTime /\ b <= u /\ u < e
      /\ \A t \in Times : b <= t /\ t < e => IsLast(b, rows, t)
  BY LastHolds DEF TypeOK, Row
<1>2. /\ lb \in Times /\ le \in 0 .. MaxTime /\ lb <= u /\ u < le
      /\ \A t \in Times : lb <= t /\ t < le => IsLast(lb, files, t)
  BY LastHolds DEF TypeOK, Left
<1>3. rows' = rows /\ files' = files /\ endTime' = endTime
  BY DEF db
<1>4. CASE lb >= b /\ Use("file", lb, CutOff(le, e))
  <2>1. /\ inUse' = [from |-> "file", begin |-> lb] /\ timeMin' = lb /\ good' = TRUE
        /\ timeMax' \in {e, le} /\ timeMax' <= e /\ timeMax' <= le
    BY <1>4, <1>1, <1>2 DEF Use, CutOff
  <2>2. /\ timeMin' \in 0 .. MaxTime /\ timeMax' \in 0 .. MaxTime /\ inUse' \in Objects
        /\ Covers(u)'
    BY <2>1, <1>1, <1>2, MaxTimeAssumption DEF Covers, Objects, Times
  <2>3. ASSUME NEW t \in Times, Covers(t)' PROVE RightFor(t)'
    <3>1. IsLast(b, rows, t) /\ IsLast(lb, files, t)
      BY <2>1, <2>3, <1>1, <1>2, <1>4, MaxTimeAssumption DEF Covers, Times
    <3>2. \A c \in rows : c <= t => c <= lb
      BY <3>1, <1>1, <1>2, <1>4 DEF IsLast, TypeOK, Times
    <3>3. IsLast(lb, files, t)' /\ (\A c \in rows : c <= t => c <= lb)'
      BY <3>1, <3>2, <1>3 DEF IsLast
    <3>4. Fresh(inUse, t)'
      BY <3>3, <2>1 DEF Fresh, IsLast
    <3> QED BY <3>3, <3>4, <2>1 DEF RightFor, IsLast
  <2> QED BY <2>1, <2>2, <2>3 DEF Right
<1>5. CASE lb < b /\ Use("sql", b, CutOff(e, le))
  <2>1. /\ inUse' = [from |-> "sql", begin |-> b] /\ timeMin' = b /\ good' = TRUE
        /\ timeMax' \in {e, le} /\ timeMax' <= e /\ timeMax' <= le
    BY <1>5, <1>1, <1>2 DEF Use, CutOff
  <2>2. /\ timeMin' \in 0 .. MaxTime /\ timeMax' \in 0 .. MaxTime /\ inUse' \in Objects
        /\ Covers(u)'
    BY <2>1, <1>1, <1>2, MaxTimeAssumption DEF Covers, Objects, Times
  <2>3. ASSUME NEW t \in Times, Covers(t)' PROVE RightFor(t)'
    <3>1. IsLast(b, rows, t) /\ IsLast(lb, files, t)
      BY <2>1, <2>3, <1>1, <1>2, <1>5, MaxTimeAssumption DEF Covers, Times
    <3>2. \A f \in files : f <= t => f < b
      BY <3>1, <1>1, <1>2, <1>5 DEF IsLast, TypeOK, Times
    <3>3. IsLast(b, rows, t)' /\ (\A f \in files : f <= t => f < b)'
      BY <3>1, <3>2, <1>3 DEF IsLast
    <3>4. ASSUME Undisturbed' PROVE Fresh(inUse, t)'
      <4>1. endTime'[b] = MaxTime /\ t <= MaxTime
        BY <3>4, <3>3, MaxTimeAssumption DEF Undisturbed, IsLast, Times
      <4> QED BY <4>1, <3>3, <2>1 DEF Fresh, IsLast
    <3> QED BY <3>3, <3>4, <2>1 DEF RightFor, IsLast
  <2> QED BY <2>1, <2>2, <2>3 DEF Right
<1> QED BY <1>4, <1>5 DEF UseLater

\* Only a row is there.
LEMMA RowRight ==
  ASSUME TypeOK, NEW u \in Times, UNCHANGED db, NEW b, NEW e,
         Row(u, b, e), NoLeft(u), Use("sql", b, e)
  PROVE  Right(u)
<1>1. /\ b \in Times /\ e \in 0 .. MaxTime /\ b <= u /\ u < e
      /\ \A t \in Times : b <= t /\ t < e => IsLast(b, rows, t)
  BY LastHolds DEF TypeOK, Row
<1>2. rows' = rows /\ files' = files /\ endTime' = endTime
  BY DEF db
<1>3. inUse' = [from |-> "sql", begin |-> b] /\ timeMin' = b /\ timeMax' = e /\ good' = TRUE
  BY DEF Use
<1>4. /\ timeMin' \in 0 .. MaxTime /\ timeMax' \in 0 .. MaxTime /\ inUse' \in Objects
      /\ Covers(u)'
  BY <1>1, <1>3, MaxTimeAssumption DEF Covers, Objects, Times
<1>5. ASSUME NEW t \in Times, Covers(t)' PROVE RightFor(t)'
  <2>1. IsLast(b, rows, t)'
    BY <1>1, <1>2, <1>3, <1>5 DEF Covers, IsLast
  <2>2. ASSUME Undisturbed' PROVE Fresh(inUse, t)'
    <3>1. files' = {}
      BY <2>2, <1>2, NoLeftAtAll DEF Undisturbed, Complete
    <3>2. endTime'[b] = MaxTime /\ t <= MaxTime
      BY <2>2, <2>1, MaxTimeAssumption DEF Undisturbed, IsLast, Times
    <3> QED BY <3>1, <3>2, <2>1, <1>3 DEF Fresh, IsLast
  <2> QED BY <2>1, <2>2, <1>3 DEF RightFor, IsLast
<1> QED BY <1>3, <1>4, <1>5 DEF Right

\* Only a file is there, or the query failed.
LEMMA FileRight ==
  ASSUME TypeOK, NEW u \in Times, UNCHANGED db, NEW b, NEW e, NoRow(u) \/ fails' # 0,
         Left(u, b, e), Use("file", b, e)
  PROVE  Right(u)
<1>1. /\ b \in Times /\ e \in 0 .. MaxTime /\ b <= u /\ u < e
      /\ \A t \in Times : b <= t /\ t < e => IsLast(b, files, t)
  BY LastHolds DEF TypeOK, Left
<1>2. rows' = rows /\ files' = files /\ endTime' = endTime
  BY DEF db
<1>3. inUse' = [from |-> "file", begin |-> b] /\ timeMin' = b /\ timeMax' = e /\ good' = TRUE
  BY DEF Use
<1>4. /\ timeMin' \in 0 .. MaxTime /\ timeMax' \in 0 .. MaxTime /\ inUse' \in Objects
      /\ Covers(u)'
  BY <1>1, <1>3, MaxTimeAssumption DEF Covers, Objects, Times
<1>5. ASSUME NEW t \in Times, Covers(t)' PROVE RightFor(t)'
  <2>1. IsLast(b, files, t)'
    BY <1>1, <1>2, <1>3, <1>5 DEF Covers, IsLast
  <2>2. ASSUME Undisturbed' PROVE Fresh(inUse, t)'
    <3>1. rows' = {}
      BY <2>2, <1>2, NoRowAtAll DEF Undisturbed, Complete
    <3> QED BY <3>1, <2>1, <1>3 DEF Fresh, IsLast, NoRow
  <2> QED BY <2>1, <2>2, <1>3 DEF RightFor, IsLast
<1> QED BY <1>3, <1>4, <1>5 DEF Right

\* Neither is there, or there is no file and the query failed.
LEMMA NoneRight ==
  ASSUME TypeOK, NEW u \in Times, UNCHANGED db, NoRow(u) \/ fails' # 0,
         NoLeft(u), UseNone
  PROVE  Right(u)
<1>1. rows' = rows /\ files' = files /\ endTime' = endTime
  BY DEF db
<1>2. inUse' = None /\ timeMin' = 0 /\ timeMax' = MaxTime /\ good' = FALSE
  BY DEF UseNone
<1>3. /\ timeMin' \in 0 .. MaxTime /\ timeMax' \in 0 .. MaxTime /\ inUse' \in Objects
      /\ Covers(u)'
  BY <1>2, MaxTimeAssumption DEF Covers, Objects, Times
<1>4. ASSUME NEW t \in Times, Covers(t)', Undisturbed' PROVE Fresh(inUse, t)'
  <2>1. rows' = {} /\ files' = {}
    BY <1>4, <1>1, NoRowAtAll, NoLeftAtAll DEF Undisturbed, Complete
  <2> QED BY <2>1, <1>2 DEF Fresh, NoRow, NoLeft
<1>5. inUse'.from = "none"
  BY <1>2 DEF None
<1> QED BY <1>2, <1>3, <1>4, <1>5 DEF Right, RightFor

\* UpdateValiSet leaves an interval that has the time it was asked for, and an
\* object that is right for all of the interval.
LEMMA UpdateRight ==
  ASSUME TypeOK, NEW u \in Times, UpdateValiSet(u), UNCHANGED db
  PROVE  Right(u) /\ modified' = TRUE /\ fails' \in 0 .. MaxFails /\ (fails' = 0 => fails = 0)
<1>1. modified' = TRUE /\ fails' \in 0 .. MaxFails /\ (fails' = 0 => fails = 0)
  BY MaxFailsAssumption DEF UpdateValiSet, TypeOK
<1>2. (fails < MaxFails /\ fails' = fails + 1) => fails' # 0
  BY MaxFailsAssumption DEF TypeOK
<1>3. Right(u)
  BY <1>2, LaterRight, RowRight, FileRight, NoneRight DEF UpdateValiSet
<1> QED BY <1>1, <1>3
-----------------------------------------------------------------------------
\* A new set is valid at no time.
LEMMA InitInv == Init => IInv
<1> SUFFICES ASSUME Init PROVE IInv
  OBVIOUS
<1>1. inUse \in Objects /\ made = FALSE
  BY DEF Init, Objects
<1>2. TypeOK
  <2>1. /\ timeMin \in 0 .. MaxTime /\ timeMax \in 0 .. MaxTime
        /\ fails \in 0 .. MaxFails
    BY MaxTimeAssumption, MaxFailsAssumption DEF Init
  <2>2. rows \subseteq Times /\ files \subseteq Times /\ endTime \in [Times -> 1 .. MaxTime]
    BY DEF Init
  <2>3. good \in BOOLEAN /\ modified \in BOOLEAN /\ time \in EventTimes \cup {Unset}
    BY DEF Init
  <2> QED BY <1>1, <2>1, <2>2, <2>3 DEF TypeOK
<1>3. ASSUME NEW t \in Times PROVE ~Covers(t)
  BY MaxTimeAssumption DEF Init, Covers, Times
<1> QED BY <1>1, <1>2, <1>3 DEF IInv

\* Neither an event of another time nor an unchanged set changes what is right.
LEMMA RightStays ==
  ASSUME IInv, UNCHANGED <<db, valiSet, fails>>
  PROVE  \A t \in Times : Covers(t)' => modified' /\ RightFor(t)'
  BY DEF IInv, db, valiSet, Covers, RightFor, Undisturbed, Complete, Fresh, IsLast, NoRow, NoLeft

\* UpdateDB leaves a set that covers the event and is right in its interval.
LEMMA UpdateDBInv ==
  ASSUME IInv, UpdateDB, UNCHANGED <<db, time>>, made' \in BOOLEAN
  PROVE  IInv' /\ modified' /\ Covers(time)'
<1>1. CASE Covers(time) /\ UNCHANGED <<valiSet, fails>>
  <2>1. time \in Times
    BY TimeIsValid DEF IInv
  <2>2. modified' /\ Covers(time)'
    BY <1>1, <2>1 DEF IInv, Covers, valiSet
  <2>3. TypeOK'
    BY <1>1 DEF IInv, TypeOK, valiSet, db
  <2> QED BY <1>1, <2>2, <2>3, RightStays DEF IInv
<1>2. CASE ~Covers(time) /\ UpdateValiSet(time)
  <2>1. TypeOK /\ time \in Times
    BY TimeIsValid DEF IInv
  <2>2. Right(time) /\ modified' = TRUE /\ fails' \in 0 .. MaxFails
    BY <1>2, <2>1, UpdateRight
  <2>3. TypeOK'
    BY <2>1, <2>2 DEF TypeOK, Right, db
  <2>4. Covers(time)'
    BY <2>2 DEF Right, Covers
  <2> QED BY <2>2, <2>3, <2>4 DEF IInv, Right
<1> QED BY <1>1, <1>2 DEF UpdateDB

\* Every step preserves the invariant.
LEMMA NextInv == IInv /\ [Next]_vars => IInv'
<1> SUFFICES ASSUME IInv, [Next]_vars PROVE IInv'
  OBVIOUS
<1>1. CASE GetDataBase
  BY <1>1, UpdateDBInv DEF GetDataBase
<1>2. CASE Make
  <2>1. made' = modified /\ modified \in BOOLEAN /\ UNCHANGED <<db, time>>
    BY <1>2 DEF Make, IInv, TypeOK
  <2>2. CASE modified /\ UpdateDB
    BY <2>1, <2>2, UpdateDBInv
  <2>3. CASE ~modified /\ UNCHANGED <<valiSet, fails>>
    <3>1. TypeOK'
      BY <2>1, <2>3 DEF IInv, TypeOK, valiSet, db
    <3>2. ~made'
      BY <2>1, <2>3
    <3> QED BY <2>1, <2>3, <3>1, <3>2, RightStays DEF IInv
  <2> QED BY <1>2, <2>2, <2>3 DEF Make
<1>3. ASSUME NEW t \in EventTimes, SetTime(t) PROVE IInv'
  <2>1. TypeOK'
    BY <1>3 DEF IInv, TypeOK, SetTime, valiSet, db
  <2> QED BY <1>3, <2>1, RightStays DEF IInv, SetTime
<1>4. CASE UNCHANGED vars
  <2>1. TypeOK'
    BY <1>4 DEF IInv, TypeOK, vars, valiSet, db
  <2>2. (made => modified /\ Covers(time))'
    BY <1>4 DEF IInv, vars, valiSet, db, Covers
  <2> QED BY <1>4, <2>1, <2>2, RightStays DEF IInv, vars
<1> QED BY <1>1, <1>2, <1>3, <1>4 DEF Next

\* The invariant holds of every reachable state.
LEMMA Inductive == Spec => []IInv
  BY InitInv, NextInv, PTL DEF Spec
-----------------------------------------------------------------------------
(* The interval of StValiSet is an interval of validity times, and the object *)
(* in use one of the table's (StValiSet.cxx:33-45).                           *)
THEOREM TypeCorrect == Spec => []TypeOK
<1>1. IInv => TypeOK
  BY DEF IInv
<1> QED BY <1>1, Inductive, PTL

(* After Make or GetDataBase the interval holds the time of the event: the    *)
(* assertion of St_db_Maker.cxx:848, for UpdateDB as a whole.                 *)
THEOREM CurrentHolds == Spec => []Current
<1>1. IInv => Current
  BY DEF IInv, Current, Covers
<1> QED BY <1>1, Inductive, PTL

(* What is in use is the last of its source that had begun by the event       *)
(* (UpdateValiSet, FindLeft and StDbSql::QueryDb together).                   *)
THEOREM LatestHolds == Spec => []LatestOfItsSource
<1>1. IInv => LatestOfItsSource
  BY TimeIsValid DEF IInv, LatestOfItsSource, RightFor
<1> QED BY <1>1, Inductive, PTL

(* With complete sources, no endTime and no failed query, what is in use for  *)
(* an event is what a job that begins with it would use.                      *)
THEOREM AsIfFreshHolds == Spec => []AsIfFreshWhenComplete
<1>1. IInv => AsIfFreshWhenComplete
  BY TimeIsValid DEF IInv, AsIfFreshWhenComplete, RightFor, Undisturbed
<1> QED BY <1>1, Inductive, PTL
=============================================================================
