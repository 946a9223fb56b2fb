-------------------------- MODULE DaqReaderProofs ---------------------------
(* Proofs about DaqReader, for every set of files, any number of event files, *)
(* of paddings looked behind, of skipped events and of answers of EVP.        *)
EXTENDS DaqReader, WellFoundedInduction, TLAPS

EndsRun(n) == ToSet(disk[n]) \cap {"last"} # {}

\* Of a .daq file, all events before pos were returned or skipped.
FileInv ==
  input = "file" =>
    /\ disk[0] \in Files /\ pos <= Len(disk[0]) + 1
    /\ skipped \subseteq 1 .. pos - 1 /\ ToSet(got) \subseteq 0 .. pos - 1
    /\ FileEvents(disk[0]) \cap 1 .. pos - 1 \subseteq ToSet(got) \cup skipped
    /\ Sound(disk[0]) => At(disk[0], pos) # "pad"

\* The event files before writing are whole, those after it are not there.
PoolInv ==
  input # "file" =>
    /\ \A n \in Numbers : n < writing => disk[n] \in EventFiles
    /\ \A n \in Numbers : n = writing => disk[n] \in {NoFile, <<>>, <<"torn">>}
    /\ \A n \in Numbers : n > writing => disk[n] = NoFile
    /\ ToSet(got) \subseteq 0 .. writing - 1
    /\ skipped = {}

\* A directory is read in the order of the numbers.
DirInv ==
  input = "dir" =>
    /\ event_number <= Last /\ ToSet(got) \subseteq 0 .. event_number
    /\ 1 .. event_number \subseteq ToSet(got) \cup early

(* What EVP offered comes in the order of the numbers, and what is on its way *)
(* comes after all that came.                                                 *)
LiveInv ==
  input = "live" =>
    /\ \A i, j \in DOMAIN replies :
         i < j /\ replies[i] \in Numbers /\ replies[j] \in Numbers => replies[i] < replies[j]
    /\ Events(replies) \subseteq offered /\ offered \subseteq 1 .. writing - 1
    /\ ToSet(got) \subseteq offered \cup {0}
    /\ \A g \in ToSet(got), n \in Events(replies) : g < n
    /\ offered \subseteq ToSet(got) \cup Events(replies) \cup lost

\* The last event of a run was the last that get returned, or an end followed.
EndInv ==
  input # "file" =>
    \A i \in DOMAIN got : got[i] # 0 /\ EndsRun(got[i]) =>
      \/ i = Len(got) /\ token = 0 /\ event_number # 0
      \/ /\ i < Len(got) /\ got[i + 1] = 0
         /\ input = "dir" => i + 1 = Len(got) /\ token = 0 /\ event_number # 0

IInv == TypeOK /\ FileInv /\ PoolInv /\ DirInv /\ LiveInv /\ EndInv /\ OnceInOrder /\ EorMeansAll
-----------------------------------------------------------------------------
\* A set of numbers has a least one.
LEMMA LeastOf ==
  ASSUME NEW S, S \subseteq Nat, S # {}
  PROVE  \E m \in S : \A x \in S : m <= x
<1> DEFINE Lt == OpToRel(<, Nat)
<1>1. \E m \in S : \A x \in S : <<x, m>> \notin Lt
  <2>1. IsWellFoundedOn(Lt, Nat)
    BY NatLessThanWellFounded
  <2> HIDE DEF Lt
  <2> QED
    BY <2>1, WFMin
<1>2. ASSUME NEW m \in S, NEW x \in S, <<x, m>> \notin Lt PROVE m <= x
  <2>1. m \in Nat /\ x \in Nat
    OBVIOUS
  <2>2. <<x, m>> \in Lt <=> x < m
    BY <2>1 DEF OpToRel
  <2> HIDE DEF Lt
  <2> QED
    BY <2>1, <2>2, <1>2
<1> QED
  BY <1>1, <1>2

\* There is a first record not of kind k, if only the end of the file.
LEMMA PastFacts ==
  ASSUME NEW f \in Seq(Records), NEW i \in 1 .. Len(f) + 1, NEW k \in Records
  PROVE  LET j == Past(f, i, k) IN
           /\ j \in i .. Len(f) + 1 /\ At(f, j) # k
           /\ \A n \in i .. j - 1 : f[n] = k
<1> DEFINE S == {j \in i .. Len(f) + 1 : At(f, j) # k}
<1>1. S \subseteq Nat /\ Len(f) + 1 \in S
  BY DEF At, Records
<1>2. PICK j \in S : \A x \in S : j <= x
  <2> HIDE DEF S
  <2> QED
    BY <1>1, LeastOf
<1>3. ASSUME NEW n \in i .. j - 1 PROVE f[n] = k
  BY <1>2, <1>3 DEF At
<1>4. \E x \in i .. Len(f) + 1 : At(f, x) # k /\ \A n \in i .. x - 1 : f[n] = k
  BY <1>2, <1>3
<1> QED
  BY <1>4 DEF Past

(* What get may do from record i of a file, seen from its events: OK leaves   *)
(* one behind and returns it, anything else leaves none behind, and EOR of a  *)
(* sound file comes at its end or at an end-of-run record.                    *)
FoundIn(f, i, g) ==
  /\ g = Result(g.status, g.pos, g.event)
  /\ g.status \in {"OK", "EOR", "EVT"} /\ g.pos \in i .. Len(f) + 1 /\ g.event \in Nat
  /\ g.status = "OK" => /\ g.event \in i .. g.pos - 1
                        /\ FileEvents(f) \cap i .. g.pos - 1 = {g.event}
  /\ g.status # "OK" => FileEvents(f) \cap i .. g.pos - 1 = {}
  /\ Sound(f) /\ At(f, i) # "pad" =>
       /\ At(f, g.pos) # "pad"
       /\ g.status = "EOR" =>
            \A e \in FileEvents(f) : e >= g.pos => \E d \in 1 .. e : f[d] = "endr"

LEMMA GetEventFacts ==
  ASSUME NEW f \in Seq(Records), NEW i \in 1 .. Len(f) + 1
  PROVE  FoundIn(f, i, GetEvent(f, i))
<1> DEFINE j == First(f, i)
           n == NextEvent(f, j)
           r == At(f, j)
           behind == IF IsEvent(r) THEN j + 1 ELSE j
           g == GetEvent(f, i)
<1>1. /\ j \in i .. Len(f) + 1 /\ r # "log" /\ \A x \in i .. j - 1 : f[x] = "log"
  BY PastFacts DEF First, Records
<1>2. IsEvent(r) => j \in 1 .. Len(f) /\ r = f[j]
  BY <1>1 DEF IsEvent, At
<1>3. ASSUME j \in 1 .. Len(f)
      PROVE  /\ n \in j + 1 .. Len(f) + 1 /\ At(f, n) # "pad"
             /\ \A x \in j + 1 .. n - 1 : f[x] = "pad"
  <2>1. j + 1 \in 1 .. Len(f) + 1
    BY <1>3
  <2> HIDE DEF j
  <2> QED
    BY <2>1, PastFacts DEF NextEvent, Records
<1>4. \/ g = Result("EOR", j, 0) /\ (r \in {"end", "endr"} \/ TooMuch(f, behind))
      \/ g = Result("EVT", j, 0)
      \/ g = Result("EOR", j, 0) /\ (r = "torn" \/ At(f, n) = "scrap")
         /\ r \notin {"end", "endr", "pad", "hollow", "stub", "scrap"} /\ ~TooMuch(f, behind)
      \/ /\ g = Result("OK", n, j)
         /\ r \notin {"end", "endr", "pad", "hollow", "stub", "scrap", "torn"}
  BY DEF GetEvent
<1> HIDE DEF j, n, g, behind
<1>5. r \in Records \cup {"end"}
  BY <1>1 DEF At
<1>6. r \notin {"end", "endr", "pad", "hollow", "stub", "scrap", "torn", "log"} => IsEvent(r)
  BY <1>5 DEF Records, IsEvent
<1>7. FileEvents(f) \cap i .. j - 1 = {}
  BY <1>1 DEF FileEvents, IsEvent
<1>8. IsEvent(r) => FileEvents(f) \cap i .. n - 1 = {j}
  <2>1. ASSUME IsEvent(r), NEW x \in FileEvents(f) \cap i .. n - 1, x # j PROVE FALSE
    <3>1. x \in i .. j - 1 \/ x \in j + 1 .. n - 1
      BY <1>1, <1>2, <1>3, <2>1
    <3> QED
      BY <3>1, <2>1, <1>7, <1>2, <1>3 DEF FileEvents, IsEvent
  <2> QED
    BY <1>1, <1>2, <1>3, <2>1 DEF FileEvents
<1>9. ASSUME g = Result("OK", n, j), IsEvent(r) PROVE FoundIn(f, i, g)
  <2>1. g.status = "OK" /\ g.pos = n /\ g.event = j
    BY <1>9 DEF Result
  <2>2. j \in i .. n - 1 /\ n \in i .. Len(f) + 1 /\ j \in Nat /\ At(f, n) # "pad"
    BY <1>9, <1>1, <1>2, <1>3
  <2> QED
    BY <1>9, <1>8, <2>1, <2>2 DEF FoundIn
<1>10. ASSUME g = Result(g.status, j, 0), g.status \in {"EOR", "EVT"} PROVE FoundIn(f, i, g)
  <2>1. ASSUME Sound(f), At(f, i) # "pad" PROVE At(f, j) # "pad"
    <3>1. CASE j = i
      BY <3>1, <2>1
    <3>2. CASE j # i
      <4>1. j - 1 \in i .. j - 1 /\ j - 1 \in DOMAIN f /\ f[j - 1] = "log"
        BY <1>1, <3>2
      <4>2. At(f, (j - 1) + 1) # "pad"
        BY <4>1, <2>1 DEF Sound, IsEvent
      <4> QED
        BY <4>2, <1>1
    <3> QED
      BY <3>1, <3>2
  <2>2. ASSUME Sound(f), At(f, i) # "pad", g.status = "EOR",
               NEW e \in FileEvents(f), e >= j
        PROVE  \E d \in 1 .. e : f[d] = "endr"
    <3>1. e \in 1 .. Len(f) /\ j \in DOMAIN f /\ r = f[j]
      BY <1>1, <2>2 DEF FileEvents, At
    <3>2. r # "end" /\ r # "torn" /\ r # "pad"
      BY <3>1, <2>1, <2>2 DEF Sound, Records, IsEvent
    <3>3. ~TooMuch(f, behind)
      <4>1. CASE IsEvent(r)
        <5>1. Blocks(f, j + 1) <= PadChecks
          BY <4>1, <3>1, <2>2 DEF Sound, IsEvent
        <5>2. Past(f, j + 1, "pad") \in j + 1 .. Len(f) + 1
          <6>1. j + 1 \in 1 .. Len(f) + 1 /\ "pad" \in Records
            BY <3>1 DEF Records
          <6> HIDE DEF r
          <6> QED
            BY <6>1, PastFacts
        <5>3. Blocks(f, j + 1) \in Int
          BY <5>2, <3>1 DEF Blocks
        <5> QED
          BY <5>1, <5>3, <4>1, BoundsAssumption DEF TooMuch, behind
      <4>2. CASE ~IsEvent(r)
        <5>1. Past(f, j, "pad") = j
          <6>1. j \in 1 .. Len(f) + 1 /\ "pad" \in Records
            BY <3>1 DEF Records
          <6>2. Past(f, j, "pad") \in j .. Len(f) + 1
                /\ \A x \in j .. Past(f, j, "pad") - 1 : f[x] = "pad"
            BY <6>1, PastFacts
          <6> QED
            BY <6>1, <6>2, <3>1, <3>2
        <5>2. Blocks(f, j) \in {0, 1}
          BY <5>1, <3>1 DEF Blocks
        <5> QED
          BY <5>2, <4>2, BoundsAssumption DEF TooMuch, behind
      <4> QED
        BY <4>1, <4>2
    <3>4. At(f, n) # "scrap"
      BY <1>3, <2>2, <3>1 DEF Sound, At, IsEvent
    <3>5. f[j] = "endr"
      BY <1>4, <1>10, <2>2, <3>1, <3>2, <3>3, <3>4 DEF Result
    <3> QED
      BY <3>1, <3>5, <2>2
  <2>3. g.pos = j /\ g.event = 0
    BY <1>10 DEF Result
  <2>4. Sound(f) /\ At(f, i) # "pad" /\ g.status = "EOR" =>
          \A e \in FileEvents(f) : e >= j => \E d \in 1 .. e : f[d] = "endr"
    BY <2>2
  <2>5. j \in i .. Len(f) + 1 /\ FileEvents(f) \cap i .. j - 1 = {}
    BY <1>1, <1>7
  <2> QED
    BY <1>10, <2>1, <2>3, <2>4, <2>5 DEF FoundIn
<1>11. \/ g = Result("OK", n, j) /\ IsEvent(r)
       \/ g = Result(g.status, j, 0) /\ g.status \in {"EOR", "EVT"}
  BY <1>1, <1>4, <1>6 DEF Result
<1> QED
  BY <1>9, <1>10, <1>11 DEF g
-----------------------------------------------------------------------------
\* skip_then_get

RoundAfter(r) == IF r.status = "OK" THEN GetEvent(disk[0], r.pos) ELSE r

\* The recursion has a value: there is no least number of rounds without one.
LEMMA RoundsDefined ==
  ASSUME NEW n \in Nat
  PROVE  LET s == Rounds(n) IN
           s = [k \in 0 .. n + 1 |-> IF k = 0 THEN Result("OK", pos, 0) ELSE RoundAfter(s[k - 1])]
<1> DEFINE Fits(s, m) ==
             s = [k \in 0 .. m |-> IF k = 0 THEN Result("OK", pos, 0) ELSE RoundAfter(s[k - 1])]
           Without == {m \in Nat : ~ \E s : Fits(s, m)}
<1>1. \E s : Fits(s, 0)
  <2> DEFINE s0 == [k \in 0 .. 0 |-> Result("OK", pos, 0)]
  <2>1. Fits(s0, 0)
    OBVIOUS
  <2> QED
    BY <2>1
<1>2. ASSUME NEW m \in Nat, \E s : Fits(s, m) PROVE \E s : Fits(s, m + 1)
  <2>1. PICK s : Fits(s, m)
    BY <1>2
  <2> DEFINE t == [k \in 0 .. m + 1 |-> IF k = m + 1 THEN RoundAfter(s[m]) ELSE s[k]]
  <2>2. /\ DOMAIN s = 0 .. m /\ s[0] = Result("OK", pos, 0)
        /\ \A k \in 1 .. m : s[k] = RoundAfter(s[k - 1])
    BY <2>1
  <2>3. /\ t[0] = Result("OK", pos, 0)
        /\ \A k \in 1 .. m + 1 : t[k] = RoundAfter(t[k - 1])
    BY <2>2
  <2>4. Fits(t, m + 1)
    <3>1. t = [k \in 0 .. m + 1 |-> t[k]]
      OBVIOUS
    <3> HIDE DEF t
    <3>2. \A k \in 0 .. m + 1 : t[k] = IF k = 0 THEN Result("OK", pos, 0) ELSE RoundAfter(t[k - 1])
      BY <2>3
    <3> QED
      BY <3>1, <3>2
  <2> QED
    BY <2>4
<1> HIDE DEF Fits
<1>3. Without = {}
  <2>1. SUFFICES ASSUME Without # {} PROVE FALSE
    OBVIOUS
  <2>2. PICK m \in Without : \A x \in Without : m <= x
    <3>1. Without \subseteq Nat
      OBVIOUS
    <3> HIDE DEF Without
    <3> QED
      BY <2>1, <3>1, LeastOf
  <2>3. m # 0 /\ m - 1 \in Nat /\ m - 1 \notin Without
    BY <1>1, <2>2
  <2> QED
    BY <1>2, <2>2, <2>3
<1>4. PICK s : Fits(s, n + 1)
  BY <1>3
<1>5. \E t : t = [k \in 0 .. n + 1 |->
                    IF k = 0 THEN Result("OK", pos, 0)
                    ELSE IF t[k - 1].status = "OK" THEN GetEvent(disk[0], t[k - 1].pos) ELSE t[k - 1]]
  BY <1>4 DEF Fits, RoundAfter
<1> QED
  BY <1>5 DEF Rounds, RoundAfter

(* After k rounds the events behind are those of the rounds, in order.        *)
RoundOK(s, k) ==
  LET f == disk[0]
      r == s[k]
  IN /\ r.status \in {"OK", "EOR", "EVT"} /\ r.pos \in pos .. Len(f) + 1 /\ r.event \in Nat
     /\ FileEvents(f) \cap pos .. r.pos - 1 = RoundEvents(s, k)
     /\ k > 0 /\ r.status = "OK" =>
          r.event \in pos .. r.pos - 1 /\ \A e \in RoundEvents(s, k - 1) : e < r.event
     /\ Sound(f) /\ At(f, pos) # "pad" =>
          /\ At(f, r.pos) # "pad"
          /\ r.status = "EOR" =>
               \A e \in FileEvents(f) : e >= r.pos => \E d \in 1 .. e : f[d] = "endr"

LEMMA RoundStep ==
  ASSUME disk[0] \in Seq(Records), pos \in 1 .. Len(disk[0]) + 1,
         NEW s, NEW k \in Nat, RoundOK(s, k), s[k + 1] = RoundAfter(s[k])
  PROVE  RoundOK(s, k + 1)
<1> DEFINE f == disk[0]
           r == s[k]
           g == s[k + 1]
           evs == RoundEvents(s, k)
<1>1. RoundEvents(s, k + 1) = evs \cup (IF g.status = "OK" THEN {g.event} ELSE {})
  <2>1. 1 .. k + 1 = 1 .. k \cup {k + 1}
    OBVIOUS
  <2> QED
    BY <2>1 DEF RoundEvents
<1>2. CASE r.status # "OK"
  <2>1. g = r /\ RoundEvents(s, k + 1) = evs
    BY <1>1, <1>2 DEF RoundAfter
  <2> HIDE DEF evs
  <2> QED
    BY <1>2, <2>1 DEF RoundOK, evs
<1>3. CASE r.status = "OK"
  <2>1. r.pos \in pos .. Len(f) + 1 /\ FileEvents(f) \cap pos .. r.pos - 1 = evs
    BY DEF RoundOK
  <2>2. FoundIn(f, r.pos, g)
    <3>1. g = GetEvent(f, r.pos) /\ r.pos \in 1 .. Len(f) + 1
      BY <1>3, <2>1 DEF RoundAfter
    <3> HIDE DEF f, g, r
    <3> QED
      BY <3>1, GetEventFacts DEF f
  <2>3. g.pos \in r.pos .. Len(f) + 1 /\ g.event \in Nat /\ g.status \in {"OK", "EOR", "EVT"}
    BY <2>2 DEF FoundIn
  <2>4. FileEvents(f) \cap pos .. g.pos - 1 = evs \cup (FileEvents(f) \cap r.pos .. g.pos - 1)
    BY <2>1, <2>3 DEF FileEvents
  <2>5. FileEvents(f) \cap pos .. g.pos - 1 = RoundEvents(s, k + 1)
    BY <1>1, <2>2, <2>4 DEF FoundIn
  <2>6. g.status = "OK" => g.event \in pos .. g.pos - 1 /\ \A e \in evs : e < g.event
    BY <2>1, <2>2, <2>3 DEF FoundIn
  <2>7. Sound(f) /\ At(f, pos) # "pad" =>
          /\ At(f, g.pos) # "pad"
          /\ g.status = "EOR" =>
               \A e \in FileEvents(f) : e >= g.pos => \E d \in 1 .. e : f[d] = "endr"
    BY <2>2 DEF FoundIn, RoundOK
  <2>8. g.pos \in pos .. Len(f) + 1
    BY <2>1, <2>3
  <2> HIDE DEF evs
  <2> QED
    BY <2>3, <2>5, <2>6, <2>7, <2>8 DEF RoundOK, evs
<1> QED
  BY <1>2, <1>3

\* By the first round that would not be so.
LEMMA RoundsFacts ==
  ASSUME disk[0] \in Seq(Records), pos \in 1 .. Len(disk[0]) + 1, NEW n \in Nat
  PROVE  \A k \in 0 .. n + 1 : RoundOK(Rounds(n), k)
<1> DEFINE s == Rounds(n)
           Wrong == {k \in 0 .. n + 1 : ~RoundOK(s, k)}
<1>1. s[0] = Result("OK", pos, 0) /\ \A k \in 1 .. n + 1 : s[k] = RoundAfter(s[k - 1])
  <2>1. s = [k \in 0 .. n + 1 |-> IF k = 0 THEN Result("OK", pos, 0) ELSE RoundAfter(s[k - 1])]
    BY RoundsDefined
  <2> HIDE DEF s
  <2>2. \A k \in 0 .. n + 1 : s[k] = IF k = 0 THEN Result("OK", pos, 0) ELSE RoundAfter(s[k - 1])
    BY <2>1
  <2> QED
    BY <2>2
<1> HIDE DEF s
<1>2. RoundOK(s, 0)
  <2>1. RoundEvents(s, 0) = {}
    BY DEF RoundEvents
  <2> QED
    BY <1>1, <2>1 DEF RoundOK, Result
<1>3. Wrong = {}
  <2>1. SUFFICES ASSUME Wrong # {} PROVE FALSE
    OBVIOUS
  <2>2. PICK k \in Wrong : \A x \in Wrong : k <= x
    <3>1. Wrong \subseteq Nat
      OBVIOUS
    <3> HIDE DEF Wrong
    <3> QED
      BY <2>1, <3>1, LeastOf
  <2>3. k \in 1 .. n + 1 /\ k - 1 \in Nat /\ RoundOK(s, k - 1)
    BY <1>2, <2>2
  <2>4. s[(k - 1) + 1] = RoundAfter(s[k - 1])
    BY <1>1, <2>3
  <2>5. RoundOK(s, (k - 1) + 1)
    BY <2>3, <2>4, RoundStep
  <2> QED
    BY <2>2, <2>3, <2>5
<1> QED
  BY <1>3 DEF s
-----------------------------------------------------------------------------
\* What get returned

InOrder(s) == \A i, j \in DOMAIN s : i < j /\ s[j] # 0 => s[i] < s[j]

LEMMA ReturnedFacts ==
  ASSUME got \in Seq(Nat), NEW n \in Nat, Returned(n)
  PROVE  /\ got' \in Seq(Nat) /\ ToSet(got') = ToSet(got) \cup {n}
         /\ Len(got') = Len(got) + 1 /\ DOMAIN got' = 1 .. Len(got) + 1
         /\ got'[Len(got) + 1] = n /\ \A i \in DOMAIN got : got'[i] = got[i]
         /\ InOrder(got) /\ (\A x \in ToSet(got) : x < n) => InOrder(got')
<1>1. /\ got' \in Seq(Nat) /\ Len(got') = Len(got) + 1 /\ DOMAIN got' = 1 .. Len(got) + 1
      /\ got'[Len(got) + 1] = n /\ \A i \in DOMAIN got : got'[i] = got[i]
      /\ DOMAIN got = 1 .. Len(got)
  BY DEF Returned
<1>2. ToSet(got') = ToSet(got) \cup {n}
  BY <1>1 DEF ToSet
<1>3. ASSUME InOrder(got), \A x \in ToSet(got) : x < n PROVE InOrder(got')
  BY <1>1, <1>3 DEF InOrder, ToSet
<1> QED
  BY <1>1, <1>2, <1>3

LEMMA ReturnedNullFacts ==
  ASSUME got \in Seq(Nat), NEW s, ReturnedNull(s)
  PROVE  /\ got' \in Seq(Nat) /\ ToSet(got) \subseteq ToSet(got') /\ ToSet(got') \subseteq ToSet(got) \cup {0}
         /\ \/ got' = got /\ ~(s = "EOR" /\ got # <<>> /\ got[Len(got)] # 0)
            \/ /\ got # <<>> /\ got[Len(got)] # 0 /\ s = "EOR"
               /\ Len(got') = Len(got) + 1 /\ DOMAIN got' = 1 .. Len(got) + 1
               /\ got'[Len(got) + 1] = 0 /\ \A i \in DOMAIN got : got'[i] = got[i]
         /\ InOrder(got) => InOrder(got')
<1>1. CASE got' = got /\ ~(s = "EOR" /\ got # <<>> /\ got[Len(got)] # 0)
  BY <1>1
<1>2. CASE got' = Append(got, 0) /\ got # <<>> /\ got[Len(got)] # 0 /\ s = "EOR"
  <2>1. /\ got' \in Seq(Nat) /\ Len(got') = Len(got) + 1 /\ DOMAIN got' = 1 .. Len(got) + 1
        /\ got'[Len(got) + 1] = 0 /\ \A i \in DOMAIN got : got'[i] = got[i]
        /\ DOMAIN got = 1 .. Len(got)
    BY <1>2
  <2>2. ToSet(got') = ToSet(got) \cup {0}
    <3>1. 1 .. Len(got) + 1 = 1 .. Len(got) \cup {Len(got) + 1}
      BY <2>1
    <3> QED
      BY <2>1, <3>1 DEF ToSet
  <2>3. ASSUME InOrder(got), NEW i \in DOMAIN got', NEW j \in DOMAIN got', i < j, got'[j] # 0
        PROVE  got'[i] < got'[j]
    <3>1. j \in DOMAIN got /\ i \in DOMAIN got
      BY <2>1, <2>3
    <3> QED
      BY <2>1, <2>3, <3>1 DEF InOrder
  <2> QED
    BY <1>2, <2>1, <2>2, <2>3 DEF InOrder
<1> QED
  BY <1>1, <1>2 DEF ReturnedNull

LEMMA InitIInv == Init => IInv
<1> SUFFICES ASSUME Init PROVE IInv
  OBVIOUS
<1>1. got = <<>> /\ ToSet(got) = {} /\ replies = <<>> /\ Events(replies) = {}
  BY DEF Init, ToSet, Events
<1>2. TypeOK
  BY <1>1, FilesAssumption, BoundsAssumption DEF Init, TypeOK, Numbers
<1>3. PoolInv /\ DirInv /\ LiveInv /\ EndInv /\ OnceInOrder /\ EorMeansAll
  BY <1>1, BoundsAssumption DEF Init, PoolInv, DirInv, LiveInv, EndInv, OnceInOrder, EorMeansAll, Numbers
<1>4. FileInv
  <2>1. SUFFICES ASSUME input = "file" PROVE FileInv
    BY DEF FileInv
  <2>2. PICK f \in Files : disk = [n \in 0 .. Last |-> IF n = 0 THEN f ELSE NoFile]
    BY <2>1 DEF Init
  <2>3. disk[0] = f /\ f \in Seq(Records)
    BY <2>2, FilesAssumption, BoundsAssumption
  <2>4. Sound(f) => At(f, 1) # "pad"
    <3>1. CASE 1 \in DOMAIN f
      BY <3>1 DEF Sound, At, IsEvent
    <3>2. CASE 1 \notin DOMAIN f
      BY <3>2 DEF At
    <3> QED
      BY <3>1, <3>2
  <2> QED
    BY <1>1, <2>3, <2>4 DEF Init, FileInv, FileEvents
<1> QED
  BY <1>2, <1>3, <1>4 DEF IInv

\* A .daq file: get and skip_then_get.
LEMMA FileStep ==
  ASSUME IInv, NEW n \in Nat, GetFile(n)
  PROVE  IInv'
<1> DEFINE f == disk[0]
           s == Rounds(n)
           g == s[n + 1]
           evs == RoundEvents(s, n)
<1>0. /\ input = "file" /\ TypeOK /\ FileInv /\ InOrder(got) /\ ToSet(got) \cap skipped = {}
      /\ f \in Seq(Records) /\ pos \in 1 .. Len(f) + 1 /\ got \in Seq(Nat)
  <2>1. input = "file" /\ TypeOK /\ FileInv /\ OnceInOrder
    BY DEF IInv, GetFile
  <2>2. f \in Files /\ pos <= Len(f) + 1
    BY <2>1 DEF FileInv
  <2>3. f \in Seq(Records) /\ pos \in Nat \ {0} /\ got \in Seq(Nat)
    BY <2>1, <2>2, FilesAssumption DEF TypeOK
  <2>4. pos \in 1 .. Len(f) + 1
    BY <2>2, <2>3
  <2> QED
    BY <2>1, <2>3, <2>4 DEF OnceInOrder, InOrder
<1>1. /\ input' = input /\ disk' = disk /\ pos' = g.pos /\ status' = g.status
      /\ skipped' = skipped \cup evs
      /\ IF g.status = "OK" THEN Returned(g.event) ELSE ReturnedNull(g.status)
      /\ UNCHANGED <<event_number, token, queueVars, poolVars, early, lost>>
  BY DEF GetFile
<1>2. RoundOK(s, n + 1)
  BY <1>0, RoundsFacts
<1>3. RoundEvents(s, n + 1) = evs \cup (IF g.status = "OK" THEN {g.event} ELSE {})
  <2>1. 1 .. n + 1 = 1 .. n \cup {n + 1}
    OBVIOUS
  <2> HIDE DEF s
  <2> QED
    BY <2>1 DEF RoundEvents
<1>4. FileEvents(f) \cap pos .. g.pos - 1 = RoundEvents(s, n + 1)
  BY <1>2 DEF RoundOK
<1>5. /\ g.status \in {"OK", "EOR", "EVT"} /\ g.pos \in pos .. Len(f) + 1 /\ g.event \in Nat
      /\ g.status = "OK" => g.event \in pos .. g.pos - 1 /\ \A e \in evs : e < g.event
      /\ Sound(f) => At(f, g.pos) # "pad"
      /\ Sound(f) /\ g.status = "EOR" =>
           \A e \in FileEvents(f) : e >= g.pos => \E d \in 1 .. e : f[d] = "endr"
  <2>1. Sound(f) => At(f, pos) # "pad"
    BY <1>0 DEF FileInv
  <2>2. (n + 1) - 1 = n /\ n + 1 > 0
    OBVIOUS
  <2>3. evs = RoundEvents(s, (n + 1) - 1)
    BY <2>2
  <2> HIDE DEF evs, s
  <2> QED
    BY <1>2, <2>1, <2>2, <2>3 DEF RoundOK
<1> HIDE DEF s, g, evs
<1>6. /\ evs \subseteq pos .. g.pos - 1
      /\ FileEvents(f) \cap 1 .. g.pos - 1 =
           (FileEvents(f) \cap 1 .. pos - 1) \cup evs \cup (IF g.status = "OK" THEN {g.event} ELSE {})
  <2>1. 1 .. g.pos - 1 = 1 .. pos - 1 \cup pos .. g.pos - 1
    BY <1>0, <1>5
  <2> QED
    BY <1>3, <1>4, <2>1
<1>7. /\ got' \in Seq(Nat) /\ ToSet(got) \subseteq ToSet(got')
      /\ ToSet(got') \subseteq ToSet(got) \cup {0} \cup (IF g.status = "OK" THEN {g.event} ELSE {})
      /\ g.status = "OK" => g.event \in ToSet(got')
      /\ InOrder(got')
  <2>1. CASE g.status = "OK"
    <3>1. \A x \in ToSet(got) : x < g.event
      BY <1>0, <1>5, <2>1 DEF FileInv
    <3> QED
      BY <1>0, <1>1, <1>5, <2>1, <3>1, ReturnedFacts
  <2>2. CASE g.status # "OK"
    BY <1>0, <1>1, <2>2, ReturnedNullFacts
  <2> QED
    BY <2>1, <2>2
<1>8. ToSet(got') \cap skipped' = {}
  <2>1. ToSet(got) \subseteq 0 .. pos - 1 /\ skipped \subseteq 1 .. pos - 1
    BY <1>0 DEF FileInv
  <2>2. ASSUME NEW x \in ToSet(got'), NEW y \in skipped', x = y PROVE FALSE
    <3>1. x \in ToSet(got) \/ x = 0 \/ (g.status = "OK" /\ x = g.event)
      BY <1>7
    <3>2. y \in skipped \/ y \in evs
      BY <1>1
    <3>3. CASE y \in skipped
      BY <3>1, <3>3, <2>1, <2>2, <1>0, <1>5
    <3>4. CASE y \in evs
      <4>1. y >= pos /\ pos >= 1 /\ y \in Nat /\ pos \in Nat
        BY <3>4, <1>0, <1>5, <1>6
      <4>2. x \notin ToSet(got) /\ x # 0
        BY <4>1, <2>1, <2>2
      <4> QED
        BY <3>1, <3>4, <4>1, <4>2, <2>2, <1>5
    <3> QED
      BY <3>2, <3>3, <3>4
  <2> QED
    BY <2>2
<1>9. TypeOK'
  <2>1. skipped' \subseteq Nat
    BY <1>0, <1>1, <1>6 DEF TypeOK
  <2> QED
    BY <1>0, <1>1, <1>5, <1>7, <2>1 DEF TypeOK, queueVars, poolVars
<1>10. FileInv'
  <2>1. f' = f /\ f \in Files
    BY <1>0, <1>1 DEF FileInv
  <2>2. skipped' \subseteq 1 .. g.pos - 1 /\ ToSet(got') \subseteq 0 .. g.pos - 1
    BY <1>0, <1>1, <1>5, <1>6, <1>7 DEF FileInv
  <2>3. FileEvents(f) \cap 1 .. g.pos - 1 \subseteq ToSet(got') \cup skipped'
    BY <1>0, <1>1, <1>6, <1>7 DEF FileInv
  <2> QED
    BY <1>1, <1>5, <2>1, <2>2, <2>3 DEF FileInv
<1>11. EorMeansAll'
  <2>1. SUFFICES ASSUME g.status = "EOR", Sound(f), NEW e \in FileEvents(f),
                        \A d \in 1 .. e : f[d] # "endr"
                 PROVE  e \in ToSet(got') \cup skipped'
    BY <1>1 DEF EorMeansAll
  <2>2. e \in 1 .. g.pos - 1
    <3>1. e \in 1 .. Len(f) /\ g.pos \in Nat
      BY <1>0, <1>5 DEF FileEvents
    <3>2. ~(e >= g.pos)
      BY <1>5, <2>1
    <3> QED
      BY <3>1, <3>2
  <2> QED
    BY <1>10, <1>1, <1>0, <2>1, <2>2 DEF FileInv
<1> QED
  BY <1>0, <1>1, <1>7, <1>8, <1>9, <1>10, <1>11
  DEF IInv, PoolInv, DirInv, LiveInv, EndInv, OnceInOrder, InOrder
-----------------------------------------------------------------------------
\* Event files

\* Of a whole event file get returns the event.
LEMMA EventFileRead ==
  ASSUME NEW f \in EventFiles
  PROVE  /\ GetEvent(f, 1).status = "OK" /\ Whole(f) /\ f # NoFile
         /\ f[GetEvent(f, 1).event] = "last" <=> ToSet(f) \cap {"last"} # {}
<1>1. /\ f \in Seq(Records) /\ Len(f) \in {1, 2} /\ IsEvent(f[Len(f)])
      /\ Len(f) = 2 => f[1] = "log"
      /\ f[Len(f)] = "last" <=> ToSet(f) \cap {"last"} # {}
  BY DEF EventFiles, Records, IsEvent, ToSet
<1>2. Whole(f) /\ f # NoFile
  BY DEF EventFiles, Whole, NoFile
<1>3. First(f, 1) = Len(f)
  <2>1. /\ First(f, 1) \in 1 .. Len(f) + 1 /\ At(f, First(f, 1)) # "log"
        /\ \A n \in 1 .. First(f, 1) - 1 : f[n] = "log"
    BY <1>1, PastFacts DEF First, Records
  <2>2. ASSUME First(f, 1) = Len(f) + 1 PROVE FALSE
    <3>1. Len(f) \in 1 .. First(f, 1) - 1
      BY <1>1, <2>2
    <3>2. f[Len(f)] = "log"
      BY <2>1, <3>1
    <3> QED
      BY <1>1, <3>2 DEF IsEvent
  <2>3. ASSUME First(f, 1) = 1, Len(f) = 2 PROVE FALSE
    BY <1>1, <2>1, <2>3 DEF At
  <2> QED
    BY <1>1, <2>1, <2>2, <2>3
<1>4. Past(f, Len(f) + 1, "pad") = Len(f) + 1
  <2>1. Len(f) + 1 \in 1 .. Len(f) + 1 /\ "pad" \in Records
    BY <1>1 DEF Records
  <2>2. Past(f, Len(f) + 1, "pad") \in Len(f) + 1 .. Len(f) + 1
    BY <1>1, <2>1, PastFacts
  <2> QED
    BY <1>1, <2>2
<1>5. At(f, Len(f) + 1) = "end" /\ At(f, Len(f)) = f[Len(f)]
  BY <1>1 DEF At
<1>6. ~TooMuch(f, Len(f) + 1)
  BY <1>1, <1>4, <1>5, BoundsAssumption DEF TooMuch, Blocks
<1>7. GetEvent(f, 1) = Result("OK", NextEvent(f, Len(f)), Len(f))
  BY <1>1, <1>3, <1>4, <1>5, <1>6 DEF GetEvent, NextEvent, IsEvent
<1> QED
  BY <1>1, <1>2, <1>7 DEF Result

\* Of one that is not, it returns none.
LEMMA NotWholeRead ==
  ASSUME NEW f \in {<<>>, <<"torn">>}
  PROVE  GetEvent(f, 1).status \in {"EOR", "EVT"} /\ ~Whole(f)
<1>1. f \in Seq(Records) /\ 1 \in 1 .. Len(f) + 1 /\ FileEvents(f) = {}
  <2>1. CASE f = <<>>
    BY <2>1 DEF Records, FileEvents
  <2>2. CASE f = <<"torn">>
    <3>1. f \in Seq(Records) /\ Len(f) = 1 /\ DOMAIN f = 1 .. 1 /\ f[1] = "torn"
      BY <2>2 DEF Records
    <3> QED
      BY <3>1 DEF FileEvents, IsEvent
  <2> QED
    BY <2>1, <2>2
<1>2. FoundIn(f, 1, GetEvent(f, 1))
  BY <1>1, GetEventFacts
<1> QED
  BY <1>1, <1>2 DEF FoundIn, Whole

\* NULL does not disturb EndInv, if EOR comes when it must.
LEMMA EndInvNull ==
  ASSUME TypeOK, EndInv, input # "file", UNCHANGED <<input, disk>>, NEW s, ReturnedNull(s),
         AtTokenZero => s = "EOR" /\ (input = "dir" => UNCHANGED <<event_number, token>>)
  PROVE  EndInv'
<1>0. got \in Seq(Nat) /\ event_number \in Nat
  BY DEF TypeOK
<1>1. SUFFICES ASSUME NEW i \in DOMAIN got', got'[i] # 0, EndsRun(got'[i])
      PROVE  \/ i = Len(got') /\ token' = 0 /\ event_number' # 0
             \/ /\ i < Len(got') /\ got'[i + 1] = 0
                /\ input = "dir" => i + 1 = Len(got') /\ token' = 0 /\ event_number' # 0
  BY DEF EndInv, EndsRun
<1>2. /\ i \in DOMAIN got /\ got[i] = got'[i]
      /\ \/ got' = got /\ ~(s = "EOR" /\ got # <<>> /\ got[Len(got)] # 0)
         \/ /\ got # <<>> /\ got[Len(got)] # 0 /\ s = "EOR"
            /\ Len(got') = Len(got) + 1 /\ got'[Len(got) + 1] = 0
            /\ \A k \in DOMAIN got : got'[k] = got[k]
  BY <1>0, <1>1, ReturnedNullFacts
<1>5. DOMAIN got = 1 .. Len(got) /\ Len(got) \in Nat /\ i \in 1 .. Len(got)
  BY <1>0, <1>2
<1>3. CASE i = Len(got) /\ token = 0 /\ event_number # 0
  <2>1. AtTokenZero
    BY <1>0, <1>3 DEF AtTokenZero
  <2>2. got # <<>> /\ got[Len(got)] # 0
    BY <1>1, <1>2, <1>3
  <2>3. Len(got') = Len(got) + 1 /\ got'[Len(got) + 1] = 0
    BY <1>2, <2>1, <2>2
  <2> QED
    BY <1>2, <1>3, <1>5, <2>1, <2>3
<1>4. CASE /\ i < Len(got) /\ got[i + 1] = 0
           /\ input = "dir" => i + 1 = Len(got) /\ token = 0 /\ event_number # 0
  <2>1. Len(got') >= Len(got) /\ got'[i + 1] = 0
    BY <1>2, <1>4, <1>5
  <2>2. ASSUME input = "dir" PROVE got' = got /\ UNCHANGED <<event_number, token>>
    <3>1. AtTokenZero
      BY <1>0, <1>4, <2>2 DEF AtTokenZero
    <3> QED
      BY <1>2, <1>4, <1>5, <2>2, <3>1
  <2> QED
    BY <1>2, <1>4, <1>5, <2>1, <2>2
<1> QED
  BY <1>1, <1>2, <1>3, <1>4 DEF EndInv

\* Nor does an event, if no end has to be told before it.
LEMMA EndInvReturned ==
  ASSUME TypeOK, EndInv, input # "file", UNCHANGED <<input, disk>>, NEW n \in Numbers, Returned(n),
         ~AtTokenZero, event_number' = n, EndsRun(n) => token' = 0
  PROVE  EndInv'
<1>0. got \in Seq(Nat) /\ event_number \in Nat /\ n \in Nat /\ n # 0
  BY BoundsAssumption DEF TypeOK, Numbers
<1>1. SUFFICES ASSUME NEW i \in DOMAIN got', got'[i] # 0, EndsRun(got'[i])
      PROVE  \/ i = Len(got') /\ token' = 0 /\ event_number' # 0
             \/ /\ i < Len(got') /\ got'[i + 1] = 0
                /\ input = "dir" => i + 1 = Len(got') /\ token' = 0 /\ event_number' # 0
  BY DEF EndInv, EndsRun
<1>2. CASE i \in DOMAIN got
  <2>1. got'[i] = got[i] /\ Len(got') = Len(got) + 1 /\ DOMAIN got = 1 .. Len(got)
        /\ \A k \in DOMAIN got : got'[k] = got[k]
    BY <1>0, <1>2, ReturnedFacts
  <2>2. /\ i < Len(got) /\ got[i + 1] = 0
        /\ input = "dir" => i + 1 = Len(got) /\ token = 0 /\ event_number # 0
    BY <1>0, <1>1, <1>2, <2>1 DEF EndInv, AtTokenZero
  <2>3. input # "dir"
    BY <1>0, <2>2 DEF AtTokenZero
  <2> QED
    BY <1>0, <1>2, <2>1, <2>2, <2>3
<1>3. CASE i \notin DOMAIN got
  <2>1. i = Len(got) + 1 /\ Len(got') = Len(got) + 1 /\ got'[i] = n
    BY <1>0, <1>1, <1>3, ReturnedFacts
  <2> QED
    BY <1>0, <1>1, <2>1
<1> QED
  BY <1>2, <1>3

\* A file of the pool or of a directory that was opened.
LEMMA ReadFacts ==
  ASSUME TypeOK, PoolInv, input # "file", NEW n \in Numbers, disk[n] # NoFile, ReadEventFile(n)
  PROVE  /\ event_number' = n /\ status' \in {"OK", "EOR", "EVT"} /\ token' \in {0, 1}
         /\ \/ /\ n < writing /\ disk[n] \in EventFiles /\ Whole(disk[n])
               /\ Returned(n) /\ (EndsRun(n) => token' = 0)
            \/ n = writing /\ ~Whole(disk[n]) /\ ReturnedNull(status')
<1>1. n \in Nat /\ writing \in Nat /\ token \in {0, 1}
  BY BoundsAssumption DEF TypeOK, Numbers
<1>2. CASE n < writing
  <2>1. disk[n] \in EventFiles
    BY <1>2 DEF PoolInv
  <2> QED
    BY <1>2, <2>1, EventFileRead DEF ReadEventFile, EndsRun
<1>3. CASE n = writing
  <2>1. disk[n] \in {<<>>, <<"torn">>}
    BY <1>3 DEF PoolInv
  <2> QED
    BY <1>1, <1>3, <2>1, NotWholeRead DEF ReadEventFile
<1>4. CASE n > writing
  BY <1>4 DEF PoolInv
<1> QED
  BY <1>1, <1>2, <1>3, <1>4
\* A directory.
LEMMA DirStep ==
  ASSUME IInv, GetDir
  PROVE  IInv'
<1>0. /\ input = "dir" /\ TypeOK /\ PoolInv /\ DirInv /\ EndInv /\ OnceInOrder
      /\ UNCHANGED <<input, disk, pos, queueVars, poolVars, skipped, lost>>
      /\ got \in Seq(Nat) /\ event_number \in Nat /\ writing \in Nat /\ Last \in Nat
  BY BoundsAssumption DEF IInv, GetDir, TypeOK
<1>1. ASSUME /\ got' \in Seq(Nat) /\ status' \in {"OK", "EOR", "EVT"} /\ token' \in {0, 1}
             /\ event_number' \in 0 .. Last /\ early' \subseteq Numbers,
             ToSet(got') \subseteq 0 .. writing - 1, ToSet(got') \subseteq 0 .. event_number',
             1 .. event_number' \subseteq ToSet(got') \cup early', EndInv', InOrder(got')
      PROVE  IInv'
  <2>1. TypeOK'
    BY <1>0, <1>1 DEF TypeOK, queueVars, poolVars
  <2>2. PoolInv' /\ DirInv'
    BY <1>0, <1>1 DEF PoolInv, DirInv, poolVars
  <2>3. OnceInOrder'
    BY <1>0, <1>1 DEF OnceInOrder, InOrder, PoolInv
  <2> QED
    BY <1>0, <1>1, <2>1, <2>2, <2>3 DEF IInv, FileInv, LiveInv, EorMeansAll
<1>2. InOrder(got) /\ ToSet(got) \subseteq 0 .. writing - 1 /\ ToSet(got) \subseteq 0 .. event_number
      /\ event_number <= Last /\ 1 .. event_number \subseteq ToSet(got) \cup early
  BY <1>0 DEF OnceInOrder, InOrder, PoolInv, DirInv
<1>3. ASSUME DirEnd \/ DirMissing PROVE IInv'
  <2>1. GiveUp("EOR") /\ UNCHANGED early
    BY <1>3 DEF DirEnd, DirMissing
  <2>2. ReturnedNull("EOR") /\ UNCHANGED <<event_number, token>> /\ status' = "EOR"
    BY <2>1 DEF GiveUp
  <2>3. EndInv'
    BY <1>0, <2>2, EndInvNull
  <2>4. /\ got' \in Seq(Nat) /\ ToSet(got) \subseteq ToSet(got') /\ InOrder(got')
        /\ ToSet(got') \subseteq ToSet(got) \cup {0}
    BY <1>0, <1>2, <2>2, ReturnedNullFacts
  <2>5. 0 \in 0 .. writing - 1 /\ 0 \in 0 .. event_number
    BY <1>0 DEF TypeOK
  <2>6. token' \in {0, 1} /\ early' \subseteq Numbers /\ event_number' \in 0 .. Last
    BY <1>0, <1>2, <2>1, <2>2 DEF TypeOK
  <2> QED
    BY <1>1, <1>2, <2>1, <2>2, <2>3, <2>4, <2>5, <2>6
<1>4. ASSUME DirRead PROVE IInv'
  <2> DEFINE n == event_number + 1
  <2>1. /\ ~AtTokenZero /\ n \in Numbers /\ disk[n] # NoFile /\ ReadEventFile(n)
        /\ early' = IF Whole(disk[n]) THEN early ELSE early \cup {n}
    BY <1>4 DEF DirRead, File
  <2> HIDE DEF n
  <2>2. n = event_number + 1 /\ n \in 1 .. Last
    BY <2>1 DEF n, Numbers
  <2>3. event_number' = n /\ status' \in {"OK", "EOR", "EVT"} /\ token' \in {0, 1}
    BY <1>0, <2>1, ReadFacts
  <2>4. early \subseteq early' /\ early' \subseteq Numbers
    BY <1>0, <2>1 DEF TypeOK
  <2>5. 1 .. n = 1 .. event_number \cup {n}
    BY <1>0, <2>2
  <2>6. CASE n < writing /\ Whole(disk[n]) /\ Returned(n) /\ (EndsRun(n) => token' = 0)
    <3>1. EndInv'
      BY <1>0, <2>1, <2>3, <2>6, EndInvReturned
    <3>2. \A x \in ToSet(got) : x < n
      BY <1>0, <1>2, <2>2
    <3>3. got' \in Seq(Nat) /\ ToSet(got') = ToSet(got) \cup {n} /\ InOrder(got')
      BY <1>0, <1>2, <2>2, <2>6, <3>2, ReturnedFacts
    <3>4. ToSet(got') \subseteq 0 .. writing - 1 /\ ToSet(got') \subseteq 0 .. n
      BY <1>0, <1>2, <2>2, <2>6, <3>3
    <3> QED
      BY <1>0, <1>1, <1>2, <2>2, <2>3, <2>4, <2>5, <3>1, <3>3, <3>4
  <2>7. CASE ~Whole(disk[n]) /\ ReturnedNull(status')
    <3>1. EndInv'
      BY <1>0, <2>1, <2>7, EndInvNull
    <3>2. /\ got' \in Seq(Nat) /\ ToSet(got) \subseteq ToSet(got') /\ InOrder(got')
          /\ ToSet(got') \subseteq ToSet(got) \cup {0}
      BY <1>0, <1>2, <2>7, ReturnedNullFacts
    <3>3. ToSet(got') \subseteq 0 .. writing - 1 /\ ToSet(got') \subseteq 0 .. n
      BY <1>0, <1>2, <2>2, <3>2 DEF TypeOK
    <3>4. n \in early'
      BY <2>1, <2>7
    <3> QED
      BY <1>0, <1>1, <1>2, <2>2, <2>3, <2>4, <2>5, <3>1, <3>2, <3>3, <3>4
  <2> QED
    BY <1>0, <2>1, <2>6, <2>7, ReadFacts
<1> QED
  BY <1>3, <1>4 DEF GetDir

\* What is left of the answers when the first was taken.
LEMMA TailFacts ==
  ASSUME NEW S, NEW s \in Seq(S), s # <<>>
  PROVE  /\ Tail(s) \in Seq(S) /\ Head(s) \in S
         /\ DOMAIN Tail(s) = 1 .. Len(s) - 1 /\ DOMAIN s = 1 .. Len(s) /\ s[1] = Head(s)
         /\ \A i \in DOMAIN Tail(s) : Tail(s)[i] = s[i + 1] /\ i + 1 \in DOMAIN s
         /\ ToSet(s) = ToSet(Tail(s)) \cup {Head(s)}
<1>1. /\ Tail(s) \in Seq(S) /\ Head(s) \in S /\ Len(s) \in Nat /\ Len(s) >= 1
      /\ DOMAIN Tail(s) = 1 .. Len(s) - 1 /\ DOMAIN s = 1 .. Len(s) /\ s[1] = Head(s)
      /\ \A i \in 1 .. Len(s) - 1 : Tail(s)[i] = s[i + 1]
  OBVIOUS
<1>2. \A i \in DOMAIN Tail(s) : Tail(s)[i] = s[i + 1] /\ i + 1 \in DOMAIN s
  BY <1>1
<1>3. ASSUME NEW x \in ToSet(s) PROVE x \in ToSet(Tail(s)) \cup {Head(s)}
  <2>1. PICK i \in DOMAIN s : x = s[i]
    BY DEF ToSet
  <2>2. CASE i = 1
    BY <1>1, <2>1, <2>2
  <2>3. CASE i # 1
    <3>1. i - 1 \in DOMAIN Tail(s) /\ Tail(s)[i - 1] = x
      BY <1>1, <2>1, <2>3
    <3> QED
      BY <3>1 DEF ToSet
  <2> QED
    BY <2>2, <2>3
<1>4. ToSet(Tail(s)) \cup {Head(s)} \subseteq ToSet(s)
  BY <1>1, <1>2 DEF ToSet
<1> QED
  BY <1>1, <1>2, <1>3, <1>4

RepliesInOrder(s) ==
  \A i, j \in DOMAIN s : i < j /\ s[i] \in Numbers /\ s[j] \in Numbers => s[i] < s[j]

\* The event pool.
LEMMA LiveStep ==
  ASSUME IInv, GetLive
  PROVE  IInv'
<1>0. /\ input = "live" /\ TypeOK /\ PoolInv /\ LiveInv /\ EndInv /\ OnceInOrder
      /\ UNCHANGED <<input, disk, pos, poolVars, skipped, early>>
      /\ got \in Seq(Nat) /\ event_number \in Nat /\ writing \in Nat \ {0} /\ Last \in Nat
      /\ replies \in Seq(0 .. Last + 1)
  BY BoundsAssumption DEF IInv, GetLive, TypeOK
<1>1. ASSUME /\ got' \in Seq(Nat) /\ status' \in {"OK", "EOR", "EVT"} /\ token' \in {0, 1}
             /\ event_number' \in Nat /\ requests' \in 0 .. MaxAsk
             /\ replies' \in Seq(0 .. Last + 1) /\ lost' \subseteq Numbers,
             EndInv', InOrder(got'),
             RepliesInOrder(replies'), Events(replies') \subseteq offered,
             ToSet(got') \subseteq offered \cup {0},
             \A g \in ToSet(got'), n \in Events(replies') : g < n,
             offered \subseteq ToSet(got') \cup Events(replies') \cup lost'
      PROVE  IInv'
  <2>1. TypeOK'
    BY <1>0, <1>1 DEF TypeOK, poolVars
  <2>2. offered' = offered /\ writing' = writing /\ offered \subseteq 1 .. writing - 1
    BY <1>0 DEF poolVars, LiveInv
  <2>3. LiveInv'
    <3>1. offered' \subseteq 1 .. writing' - 1 /\ RepliesInOrder(replies')
      BY <1>1, <2>2
    <3>2. Events(replies') \subseteq offered' /\ ToSet(got') \subseteq offered' \cup {0}
          /\ offered' \subseteq ToSet(got') \cup Events(replies') \cup lost'
      BY <1>1, <2>2
    <3>3. \A g \in ToSet(got'), n \in Events(replies') : g < n
      BY <1>1
    <3> QED
      BY <3>1, <3>2, <3>3 DEF LiveInv, RepliesInOrder
  <2>4. ToSet(got') \subseteq 0 .. writing - 1
    <3>1. writing \in Nat \ {0}
      BY <1>0
    <3>2. ToSet(got') \subseteq offered \cup {0}
      BY <1>1
    <3>3. 1 .. writing - 1 \subseteq 0 .. writing - 1 /\ 0 \in 0 .. writing - 1
      BY <3>1
    <3> QED
      BY <2>2, <3>2, <3>3
  <2>5. PoolInv'
    BY <1>0, <2>2, <2>4 DEF PoolInv
  <2>6. OnceInOrder'
    BY <1>0, <1>1 DEF OnceInOrder, InOrder, PoolInv
  <2> QED
    BY <1>0, <1>1, <2>1, <2>3, <2>5, <2>6 DEF IInv, FileInv, DirInv, EorMeansAll
<1>2. /\ InOrder(got) /\ RepliesInOrder(replies) /\ Events(replies) \subseteq offered
      /\ ToSet(got) \subseteq offered \cup {0}
      /\ \A g \in ToSet(got), n \in Events(replies) : g < n
      /\ offered \subseteq ToSet(got) \cup Events(replies) \cup lost
      /\ lost \subseteq Numbers /\ token \in {0, 1} /\ requests \in 0 .. MaxAsk
      /\ \A n \in Numbers : n \in Nat /\ n # 0
  BY <1>0 DEF OnceInOrder, InOrder, LiveInv, RepliesInOrder, TypeOK, Numbers
\* NULL, and the answers stay or lose what is no event.
<1>3. ASSUME NEW s \in {"OK", "EOR", "EVT"}, status' = s, ReturnedNull(s),
             AtTokenZero => s = "EOR",
             token' = token, event_number' \in Nat, requests' \in 0 .. MaxAsk,
             replies' \in Seq(0 .. Last + 1), RepliesInOrder(replies'),
             Events(replies') \subseteq Events(replies),
             lost' = lost \cup (Events(replies) \ Events(replies'))
      PROVE  IInv'
  <2>1. EndInv'
    BY <1>0, <1>3, EndInvNull
  <2>2. /\ got' \in Seq(Nat) /\ ToSet(got) \subseteq ToSet(got') /\ InOrder(got')
        /\ ToSet(got') \subseteq ToSet(got) \cup {0}
    BY <1>0, <1>2, <1>3, ReturnedNullFacts
  <2>3. Events(replies) \subseteq Numbers
    BY DEF Events
  <2>4. \A g \in ToSet(got'), n \in Events(replies') : g < n
    BY <1>2, <1>3, <2>2, <2>3
  <2>5. lost' \subseteq Numbers
    BY <1>2, <1>3, <2>3
  <2> QED
    BY <1>1, <1>2, <1>3, <2>1, <2>2, <2>4, <2>5
<1>4. ASSUME Ask PROVE requests' \in 0 .. MaxAsk
  BY <1>2, <1>4, BoundsAssumption DEF Ask
<1>5. CASE LiveEnd
  BY <1>2, <1>0, <1>3, <1>5 DEF LiveEnd, queueVars
<1>6. CASE LiveReconnect
  <2>1. replies' = <<>> /\ Events(replies') = {} /\ RepliesInOrder(replies')
    BY <1>6 DEF LiveReconnect, Events, ToSet, RepliesInOrder
  <2>2. replies' \in Seq(0 .. Last + 1) /\ requests' \in 0 .. MaxAsk
    BY <1>6, <2>1, BoundsAssumption DEF LiveReconnect
  <2> QED
    BY <1>0, <1>3, <1>6, <2>1, <2>2 DEF LiveReconnect, GiveUp
<1>7. CASE LiveWait
  BY <1>0, <1>2, <1>3, <1>4, <1>7 DEF LiveWait, GiveUp
<1>8. ASSUME replies # <<>>, replies' = Tail(replies)
      PROVE  /\ replies' \in Seq(0 .. Last + 1) /\ RepliesInOrder(replies')
             /\ Events(replies) = Events(replies') \cup ({Head(replies)} \cap Numbers)
             /\ Head(replies) \in Numbers => \A n \in Events(replies') : Head(replies) < n
  <2>1. /\ replies' \in Seq(0 .. Last + 1)
        /\ DOMAIN replies' = 1 .. Len(replies) - 1 /\ DOMAIN replies = 1 .. Len(replies)
        /\ replies[1] = Head(replies)
        /\ \A i \in DOMAIN replies' : replies'[i] = replies[i + 1] /\ i + 1 \in DOMAIN replies
        /\ ToSet(replies) = ToSet(replies') \cup {Head(replies)}
    BY <1>0, <1>8, TailFacts
  <2>2. RepliesInOrder(replies')
    BY <1>2, <2>1 DEF RepliesInOrder
  <2>3. ASSUME Head(replies) \in Numbers, NEW n \in Events(replies') PROVE Head(replies) < n
    <3>1. PICK i \in DOMAIN replies' : n = replies'[i]
      BY DEF Events, ToSet
    <3>2. n = replies[i + 1] /\ i + 1 \in DOMAIN replies /\ 1 \in DOMAIN replies /\ 1 < i + 1 /\ n \in Numbers
      BY <2>1, <3>1 DEF Events
    <3> QED
      BY <1>2, <2>1, <2>3, <3>2 DEF RepliesInOrder
  <2> QED
    BY <2>1, <2>2, <2>3 DEF Events
<1>9. CASE LiveNoEvent
  <2>1. replies # <<>> /\ replies' = Tail(replies) /\ Head(replies) \notin Numbers /\ Ask
    BY <1>0, <1>9 DEF LiveNoEvent, StatSeq, StatOther, Numbers
  <2>2. Events(replies) = Events(replies')
    BY <1>8, <2>1
  <2>3. PICK s \in {"EOR", "EVT"} : GiveUp(s)
    BY <1>9 DEF LiveNoEvent
  <2>4. ~AtTokenZero /\ lost' = lost
    BY <1>9 DEF LiveNoEvent
  <2> QED
    BY <1>0, <1>3, <1>4, <1>8, <2>1, <2>2, <2>3, <2>4 DEF GiveUp
<1>10. CASE LiveEvent
  <2> DEFINE n == Head(replies)
  <2>1. /\ ~AtTokenZero /\ n \in Numbers /\ Ask /\ replies # <<>> /\ replies' = Tail(replies)
        /\ \/ ReadEventFile(n) /\ UNCHANGED lost
           \/ /\ event_number' = n /\ status' = "EVT"
              /\ UNCHANGED <<token, got>>
              /\ lost' = lost \cup {n}
    BY <1>10 DEF LiveEvent
  <2> HIDE DEF n
  <2>2. /\ replies' \in Seq(0 .. Last + 1) /\ RepliesInOrder(replies')
        /\ Events(replies) = Events(replies') \cup {n} /\ \A m \in Events(replies') : n < m
    BY <1>8, <2>1 DEF n
  <2>3. /\ n \in offered /\ n < writing /\ n \in Nat
        /\ \A x \in ToSet(got) : x < n
    BY <1>0, <1>2, <2>1, <2>2 DEF LiveInv
  <2>4. Events(replies') \subseteq Numbers /\ requests' \in 0 .. MaxAsk
    BY <1>4, <2>1 DEF Events
  <2>5. CASE ReadEventFile(n) /\ UNCHANGED lost
    <3>1. disk[n] # NoFile
      BY <1>0, <2>1, <2>3, EventFileRead DEF PoolInv
    <3>2. /\ event_number' = n /\ status' \in {"OK", "EOR", "EVT"} /\ token' \in {0, 1}
          /\ Returned(n) /\ (EndsRun(n) => token' = 0)
      BY <1>0, <2>1, <2>3, <2>5, <3>1, ReadFacts
    <3>3. EndInv'
      BY <1>0, <2>1, <3>2, EndInvReturned
    <3>4. got' \in Seq(Nat) /\ ToSet(got') = ToSet(got) \cup {n} /\ InOrder(got')
      BY <1>0, <1>2, <2>3, <3>2, ReturnedFacts
    <3>5. \A g \in ToSet(got'), m \in Events(replies') : g < m
      BY <1>2, <2>2, <3>4
    <3> QED
      BY <1>1, <1>2, <2>2, <2>3, <2>4, <2>5, <3>2, <3>3, <3>4, <3>5
  <2>6. CASE event_number' = n /\ status' = "EVT" /\ UNCHANGED <<token, got>> /\ lost' = lost \cup {n}
    <3>1. EndInv'
      <4>1. ReturnedNull("EVT")
        BY <2>6 DEF ReturnedNull
      <4> QED
        BY <1>0, <2>1, <4>1, EndInvNull
    <3>2. lost' \subseteq Numbers
      BY <1>2, <2>1, <2>6
    <3> QED
      BY <1>0, <1>1, <1>2, <2>2, <2>3, <2>4, <2>6, <3>1, <3>2
  <2> QED
    BY <2>1, <2>5, <2>6
<1> QED
  BY <1>5, <1>6, <1>7, <1>9, <1>10 DEF GetLive
\* The event builder goes on: files that are whole stay as they are.
LEMMA WriteStep ==
  ASSUME IInv, Write
  PROVE  IInv'
<1>0. /\ input # "file" /\ TypeOK /\ PoolInv /\ writing \in 1 .. Last /\ Last \in Nat
      /\ UNCHANGED <<input, readerVars, queueVars, offered, others, history>>
      /\ disk \in [0 .. Last -> Seq(Records) \cup {NoFile}]
  BY BoundsAssumption DEF IInv, Write, TypeOK
<1>1. /\ writing' \in {writing, writing + 1}
      /\ disk' \in [0 .. Last -> Seq(Records) \cup {NoFile}]
      /\ \A n \in Numbers : n # writing => disk'[n] = disk[n]
      /\ writing' = writing => disk'[writing] \in {<<>>, <<"torn">>}
      /\ writing' = writing + 1 => disk'[writing] \in EventFiles
  <2>1. PICK g \in EventFiles \cup {<<>>, <<"torn">>} :
          /\ disk' = [disk EXCEPT ![writing] = g]
          /\ \/ writing' = writing /\ g \in {<<>>, <<"torn">>}
             \/ writing' = writing + 1 /\ g \in EventFiles
    BY DEF Write
  <2>2. g \in Seq(Records)
    <3>1. CASE g = <<>>
      BY <3>1
    <3>2. CASE g = <<"torn">>
      BY <3>2 DEF Records
    <3>3. CASE g = <<"evt">>
      BY <3>3 DEF Records
    <3>4. CASE g = <<"last">>
      BY <3>4 DEF Records
    <3>5. CASE g = <<"log", "evt">>
      BY <3>5 DEF Records
    <3> QED
      BY <3>1, <3>2, <3>3, <3>4, <3>5 DEF EventFiles
  <2> QED
    BY <1>0, <2>1, <2>2 DEF Numbers
<1>2. TypeOK'
  BY <1>0, <1>1 DEF TypeOK, readerVars, queueVars, history
<1>3. ToSet(got) \subseteq 0 .. writing - 1 /\ skipped = {}
      /\ got' = got /\ skipped' = skipped /\ input' = input
  BY <1>0 DEF PoolInv, history
<1>4. PoolInv'
  <2>1. ToSet(got') \subseteq 0 .. writing' - 1
    BY <1>0, <1>1, <1>3
  <2>2. ASSUME NEW n \in Numbers
        PROVE  /\ n < writing' => disk'[n] \in EventFiles
               /\ n = writing' => disk'[n] \in {NoFile, <<>>, <<"torn">>}
               /\ n > writing' => disk'[n] = NoFile
    <3>1. n \in Nat /\ writing \in Nat
      BY <1>0 DEF Numbers
    <3> QED
      BY <1>0, <1>1, <3>1 DEF PoolInv
  <2> QED
    BY <1>3, <2>1, <2>2 DEF PoolInv
<1>5. DirInv' /\ LiveInv'
  <2>1. offered \subseteq 1 .. writing - 1 => offered \subseteq 1 .. writing' - 1
    <3>1. writing \in Nat /\ writing' \in Nat /\ writing <= writing'
      BY <1>0, <1>1
    <3>2. \A a, b \in Nat : a <= b => 1 .. a - 1 \subseteq 1 .. b - 1
      OBVIOUS
    <3> QED
      BY <3>1, <3>2
  <2>2. DirInv'
    BY <1>0 DEF IInv, DirInv, readerVars, history
  <2>3. replies' = replies /\ got' = got /\ offered' = offered /\ lost' = lost /\ input' = input
    BY <1>0 DEF queueVars, history
  <2>4. LiveInv'
    BY <2>1, <2>3 DEF IInv, LiveInv, Events
  <2> QED
    BY <2>2, <2>4
<1>6. EndInv'
  <2>1. ASSUME NEW i \in DOMAIN got, got[i] # 0 PROVE disk'[got[i]] = disk[got[i]]
    <3>1. got[i] \in ToSet(got)
      BY DEF ToSet
    <3>2. got[i] \in Numbers /\ got[i] # writing
      BY <1>0, <1>3, <2>1, <3>1 DEF Numbers
    <3> QED
      BY <1>1, <3>2
  <2> QED
    BY <1>0, <1>3, <2>1 DEF IInv, EndInv, EndsRun, readerVars
<1> QED
  BY <1>0, <1>2, <1>3, <1>4, <1>5, <1>6
  DEF IInv, FileInv, OnceInOrder, InOrder, EorMeansAll

\* EVP answers with an event later than all before, or without one.
LEMMA AnswerStep ==
  ASSUME IInv, Answer
  PROVE  IInv'
<1>0. /\ TypeOK /\ LiveInv /\ replies \in Seq(0 .. Last + 1) /\ Last \in Nat /\ writing \in 1 .. Last + 1
      /\ requests' = requests - 1 /\ requests > 0
      /\ UNCHANGED <<input, disk, readerVars, writing, history>>
  BY BoundsAssumption DEF IInv, Answer, TypeOK
<1>1. PICK r \in 0 .. Last + 1 :
        /\ replies' = Append(replies, r)
        /\ \/ /\ r \in Numbers /\ r < writing /\ (\A k \in offered : k < r)
              /\ offered' = offered \cup {r} /\ others' = others
           \/ /\ r \notin Numbers /\ offered' = offered /\ others' \in 0 .. MaxOther
  <2>1. CASE \E n \in 1 .. writing - 1 :
               /\ \A k \in offered : k < n
               /\ offered' = offered \cup {n} /\ replies' = Append(replies, n)
               /\ UNCHANGED others
    BY <1>0, <2>1 DEF Numbers
  <2>2. CASE /\ others < MaxOther /\ others' = others + 1
             /\ \E r \in {StatSeq, StatOther} : replies' = Append(replies, r)
             /\ UNCHANGED offered
    BY <1>0, <2>2, BoundsAssumption DEF Numbers, StatSeq, StatOther, TypeOK
  <2> QED
    BY <2>1, <2>2 DEF Answer
<1>2. /\ replies' \in Seq(0 .. Last + 1) /\ DOMAIN replies' = 1 .. Len(replies) + 1
      /\ DOMAIN replies = 1 .. Len(replies) /\ replies'[Len(replies) + 1] = r
      /\ \A i \in DOMAIN replies : replies'[i] = replies[i]
  BY <1>0, <1>1
<1>3. ToSet(replies') = ToSet(replies) \cup {r}
  BY <1>2 DEF ToSet
<1>4. Events(replies') = Events(replies) \cup ({r} \cap Numbers)
  BY <1>3 DEF Events
<1>5. TypeOK'
  <2>1. requests' \in 0 .. MaxAsk
    BY <1>0, BoundsAssumption DEF TypeOK
  <2>2. offered' \subseteq Numbers /\ others' \in 0 .. MaxOther
    BY <1>0, <1>1 DEF TypeOK
  <2> QED
    BY <1>0, <1>2, <2>1, <2>2 DEF TypeOK, readerVars, history
<1>6. ASSUME input = "live"
      PROVE  /\ RepliesInOrder(replies') /\ Events(replies') \subseteq offered'
             /\ offered' \subseteq 1 .. writing - 1 /\ ToSet(got) \subseteq offered' \cup {0}
             /\ \A g \in ToSet(got), n \in Events(replies') : g < n
             /\ offered' \subseteq ToSet(got) \cup Events(replies') \cup lost
  <2>1. /\ RepliesInOrder(replies) /\ Events(replies) \subseteq offered
        /\ offered \subseteq 1 .. writing - 1 /\ ToSet(got) \subseteq offered \cup {0}
        /\ \A g \in ToSet(got), n \in Events(replies) : g < n
        /\ offered \subseteq ToSet(got) \cup Events(replies) \cup lost
    BY <1>0, <1>6 DEF LiveInv, RepliesInOrder
  <2>2. CASE r \in Numbers
    <3>1. /\ r \in Nat /\ r > 0 /\ r < writing /\ (\A k \in offered : k < r)
          /\ offered' = offered \cup {r} /\ Events(replies') = Events(replies) \cup {r}
      BY <1>1, <1>4, <2>2 DEF Numbers
    <3>2. RepliesInOrder(replies')
      <4>1. ASSUME NEW i \in DOMAIN replies', NEW j \in DOMAIN replies', i < j,
                   replies'[i] \in Numbers, replies'[j] \in Numbers
            PROVE  replies'[i] < replies'[j]
        <5>1. i \in DOMAIN replies
          BY <1>0, <1>2, <4>1
        <5>2. replies[i] \in offered
          BY <1>2, <2>1, <4>1, <5>1 DEF Events, ToSet
        <5>3. CASE j \in DOMAIN replies
          BY <1>2, <2>1, <4>1, <5>1, <5>3 DEF RepliesInOrder
        <5>4. CASE j \notin DOMAIN replies
          BY <1>0, <1>2, <3>1, <4>1, <5>1, <5>2, <5>4
        <5> QED
          BY <5>3, <5>4
      <4> QED
        BY <4>1 DEF RepliesInOrder
    <3>3. \A g \in ToSet(got) : g < r
      BY <2>1, <3>1
    <3>4. offered' \subseteq 1 .. writing - 1
      BY <1>0, <2>1, <3>1
    <3> QED
      BY <2>1, <3>1, <3>2, <3>3, <3>4
  <2>3. CASE r \notin Numbers
    <3>1. offered' = offered /\ Events(replies') = Events(replies)
      BY <1>1, <1>4, <2>3
    <3>2. RepliesInOrder(replies')
      <4>1. ASSUME NEW i \in DOMAIN replies', NEW j \in DOMAIN replies', i < j,
                   replies'[i] \in Numbers, replies'[j] \in Numbers
            PROVE  replies'[i] < replies'[j]
        <5>1. i \in DOMAIN replies /\ j \in DOMAIN replies
          BY <1>2, <2>3, <4>1
        <5> QED
          BY <1>2, <2>1, <4>1, <5>1 DEF RepliesInOrder
      <4> QED
        BY <4>1 DEF RepliesInOrder
    <3> QED
      BY <2>1, <3>1, <3>2
  <2> QED
    BY <2>2, <2>3
<1>7. LiveInv'
  BY <1>0, <1>6 DEF LiveInv, RepliesInOrder, history
<1> QED
  BY <1>0, <1>5, <1>7
  DEF IInv, FileInv, PoolInv, DirInv, EndInv, EndsRun, OnceInOrder, EorMeansAll, readerVars, history

LEMMA Invariance == Spec => []IInv
<1>1. ASSUME IInv, [Next]_vars PROVE IInv'
  <2>1. CASE Next
    <3>1. 0 \in Nat /\ 1 .. MaxSkip \subseteq Nat
      BY BoundsAssumption
    <3> QED
      BY <1>1, <2>1, <3>1, FileStep, DirStep, LiveStep, WriteStep, AnswerStep DEF Next, Get
  <2>2. CASE UNCHANGED vars
    BY <1>1, <2>2
    DEF vars, readerVars, queueVars, poolVars, history, IInv, TypeOK, FileInv, PoolInv, DirInv,
        LiveInv, EndInv, EndsRun, OnceInOrder, EorMeansAll
  <2> QED
    BY <1>1, <2>1, <2>2
<1> QED
  BY <1>1, InitIInv, PTL DEF Spec
-----------------------------------------------------------------------------
\* The variables have their types: event_number never falls below 0.
THEOREM TypeCorrect == Spec => []TypeOK
BY Invariance, PTL DEF IInv

(* get passes over no event of a file, of a directory that is being written,  *)
(* or of the event pool, whatever padding, skipping and late answers there    *)
(* are, but those it opened too early or could not have.                      *)
THEOREM NoEventPassedOverHolds == Spec => []NoEventPassedOver
<1>1. IInv => NoEventPassedOver
  BY DEF IInv, FileInv, DirInv, LiveInv, NoEventPassedOver
<1> QED
  BY <1>1, Invariance, PTL

\* Events come in order and once.
THEOREM OnceInOrderHolds == Spec => []OnceInOrder
BY Invariance, PTL DEF IInv

\* The end of a run is told once, before the next event.
THEOREM EndIsToldHolds == Spec => []EndIsTold
<1>1. ASSUME IInv PROVE EndIsTold
  <2>1. got \in Seq(Nat) /\ EndInv
    BY <1>1 DEF IInv, TypeOK
  <2>2. ASSUME input # "file", NEW i \in 1 .. Len(got) - 1, got[i] # 0, EndsRun(got[i])
        PROVE  got[i + 1] = 0 /\ (input = "dir" => i + 1 = Len(got))
    <3>1. i \in DOMAIN got /\ i # Len(got)
      BY <2>1
    <3> QED
      BY <2>1, <2>2, <3>1 DEF EndInv
  <2> QED
    BY <2>2 DEF EndIsTold, EndsRun
<1> QED
  BY <1>1, Invariance, PTL

\* EOR of a sound file comes after all its events, or an end-of-run record.
THEOREM EorMeansAllHolds == Spec => []EorMeansAll
BY Invariance, PTL DEF IInv
=============================================================================
