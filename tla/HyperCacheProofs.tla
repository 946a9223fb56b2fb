--------------------------- MODULE HyperCacheProofs ---------------------------
(* Proofs about HyperCache, for any jobs and queries, any cleanups, any number *)
(* of tries, and any number of failing opens, full disks and crashes.         *)
EXTENDS HyperCache, FiniteSetTheorems, TLAPS

Labels == {"start", "idle"} \cup GetLabels \cup SetLabels \cup CleanLabels
Lockless == {"start", "idle", "g_flock", "db", "s_open", "s_flock", "c_open", "c_flock"}
Closed == Lockless \ {"s_flock", "c_flock"}
Writes == {"s_write", "s_more"}

\* An inode is locked by one job, and a job that stores has what it could open.
LockInv ==
  /\ \A p, q \in Procs : holds[p] /\ holds[q] /\ fd[p] = fd[q] => p = q
  /\ \A p \in Procs : pc[p] \in Lockless => ~holds[p]
  /\ \A p \in Procs : pc[p] \in Closed => fd[p] = 0
  /\ \A p \in Procs : Storing(p) /\ fd[p] # 0 => holds[p]

(* No two names share an inode, and what a job reads or writes is no other    *)
(* file than that of its query.                                               *)
OpenInv ==
  /\ \A m, n \in Names : ino[m] # 0 /\ ino[m] = ino[n] => m = n
  /\ \A p \in Procs : src[p] # 0 <=> pc[p] \in {"g_read"} \cup Writes
  /\ \A p \in Procs, n \in Names : src[p] # 0 /\ src[p] = ino[n] => n = key[p]
  /\ \A p, q \in Procs : src[p] # 0 /\ src[p] = src[q] => key[p] = key[q]

\* A job that writes with the lock finds in the file what it wrote itself.
WriteInv ==
  \A p \in Procs : Sound(p) /\ key[p] \notin loose =>
    /\ pc[p] = "s_write" => data[src[p]] = Empty
    /\ pc[p] = "s_more" => data[src[p]] = Part(p)

\* What a job found at rest stays what it measured, and nobody writes it.
ReadInv ==
  \A p \in Procs \ torn : pc[p] = "g_read" =>
    /\ \E w \in Procs : seen[p] = Whole(w)
    /\ data[src[p]] = seen[p]
    /\ \A q \in Procs : ~Writing(q, src[p])

FileInv == OpenInv /\ WriteInv /\ KeptWhole /\ ReadInv /\ ServedWhole

(* The inductive invariant.  A job that stores without the lock makes its key *)
(* loose with its first step; of the others one at a time changes a file.     *)
IInv == TypeOK /\ LockInv /\ FileInv
-----------------------------------------------------------------------------
LEMMA Constants ==
  /\ IsFiniteSet(Procs) /\ IsFiniteSet(Names)
  /\ GlobalLock \notin Keys /\ GlobalLock \in Names /\ Keys \subseteq Names
  /\ 0 \notin Inodes
<1>1. IsFiniteSet(Keys \cup {GlobalLock})
  BY KeysAssumption, FS_AddElement
<1> QED
  BY <1>1, ProcsAssumption, KeysAssumption DEF Names, Inodes

\* The contents of files, and which of them are different.
LEMMA ContentFacts ==
  ASSUME NEW p \in Procs
  PROVE  /\ Empty \in Contents /\ Mixed \in Contents
         /\ Part(p) \in Contents /\ Whole(p) \in Contents
         /\ Empty # Mixed /\ Part(p) # Mixed /\ Whole(p) # Mixed
         /\ Empty # Part(p) /\ Empty # Whole(p)
<1>1. p # Nobody
  BY ProcsAssumption
<1> QED
  BY <1>1 DEF Empty, Mixed, Part, Whole, Contents

\* A function takes no more values than it has arguments.
LEMMA ImageBound ==
  ASSUME NEW S, IsFiniteSet(S), NEW f, f = [x \in S |-> f[x]]
  PROVE  /\ IsFiniteSet({f[x] : x \in S})
         /\ Cardinality({f[x] : x \in S}) <= Cardinality(S)
<1>1. f \in Surjection(S, {f[x] : x \in S})
  BY DEF Surjection
<1> QED
  BY <1>1, FS_Surjection

(* While a name has no file there is an inode that nothing uses: 0 is one of  *)
(* the values counted.                                                        *)
LEMMA FreshInode ==
  ASSUME TypeOK, NEW n \in Names, ino[n] = 0
  PROVE  NewInode \in Inodes /\ NewInode \notin InUse
<1> DEFINE A == {ino[m] : m \in Names}
           B == {fd[p] : p \in Procs}
           C == {src[p] : p \in Procs}
           N == Cardinality(Names)
           P == Cardinality(Procs)
<1>1. /\ IsFiniteSet(A) /\ Cardinality(A) <= N
      /\ IsFiniteSet(B) /\ Cardinality(B) <= P
      /\ IsFiniteSet(C) /\ Cardinality(C) <= P
      /\ N \in Nat /\ P \in Nat
  <2>1. ino = [m \in Names |-> ino[m]] /\ fd = [p \in Procs |-> fd[p]] /\ src = [p \in Procs |-> src[p]]
    BY DEF TypeOK
  <2>2. IsFiniteSet(A) /\ Cardinality(A) <= N
    BY <2>1, Constants, ImageBound
  <2>3. IsFiniteSet(B) /\ Cardinality(B) <= P
    BY <2>1, Constants, ImageBound
  <2>4. IsFiniteSet(C) /\ Cardinality(C) <= P
    BY <2>1, Constants, ImageBound
  <2> QED
    BY <2>2, <2>3, <2>4, Constants, FS_CardinalityType
<1>2. 0 \in A /\ InUse = (A \cup B) \cup C
  BY DEF InUse
<1> HIDE DEF A, B, C, N, P
<1>3. IsFiniteSet(A \cup B) /\ Cardinality(A \cup B) <= N + P
  <2>1. /\ IsFiniteSet(A \cup B) /\ IsFiniteSet(A \cap B)
        /\ Cardinality(A \cup B) = Cardinality(A) + Cardinality(B) - Cardinality(A \cap B)
    BY <1>1, FS_Union, FS_Intersection
  <2> QED
    BY <1>1, <2>1, FS_CardinalityType
<1>4. IsFiniteSet(InUse) /\ Cardinality(InUse) <= N + 2 * P
  <2>1. /\ IsFiniteSet((A \cup B) \cup C) /\ IsFiniteSet((A \cup B) \cap C)
        /\ Cardinality((A \cup B) \cup C)
             = Cardinality(A \cup B) + Cardinality(C) - Cardinality((A \cup B) \cap C)
    BY <1>1, <1>3, FS_Union, FS_Intersection
  <2>2. /\ Cardinality((A \cup B) \cap C) \in Nat /\ Cardinality(A \cup B) \in Nat
        /\ Cardinality(C) \in Nat
    BY <1>1, <1>3, <2>1, FS_CardinalityType
  <2> QED
    BY <1>1, <1>2, <1>3, <2>1, <2>2
<1>5. IsFiniteSet(InUse \ {0}) /\ Cardinality(InUse \ {0}) < N + 2 * P
  <2>1. IsFiniteSet(InUse \ {0}) /\ Cardinality(InUse \ {0}) = Cardinality(InUse) - 1
    BY <1>2, <1>4, FS_RemoveElement
  <2>2. Cardinality(InUse) \in Nat
    BY <1>4, FS_CardinalityType
  <2> QED
    BY <1>1, <1>4, <2>1, <2>2
<1>6. Cardinality(Inodes) = N + 2 * P
  <2>1. N + 2 * P \in Nat /\ Inodes = 1 .. N + 2 * P
    BY <1>1 DEF Inodes, N, P
  <2>2. ASSUME NEW b \in Int PROVE Cardinality(1 .. b) = IF 1 > b THEN 0 ELSE b - 1 + 1
    BY FS_Interval
  <2> QED
    BY <1>1, <2>1, <2>2
<1>7. Inodes \ InUse # {}
  <2>1. SUFFICES ASSUME Inodes \subseteq InUse \ {0} PROVE FALSE
    BY Constants
  <2>2. Cardinality(Inodes) <= Cardinality(InUse \ {0})
    BY <2>1, <1>5, FS_Subset
  <2>3. Cardinality(InUse \ {0}) \in Nat
    BY <1>5, FS_CardinalityType
  <2> QED
    BY <1>1, <1>5, <1>6, <2>2, <2>3
<1>8. \E i : i \in Inodes \ InUse /\ TRUE
  BY <1>7
<1>9. NewInode \in Inodes \ InUse
  BY <1>8, Zenon DEF NewInode
<1> QED
  BY <1>9
-----------------------------------------------------------------------------
LEMMA InitIInv == Init => IInv
<1> SUFFICES ASSUME Init PROVE IInv
  OBVIOUS
<1>0. Empty \in Contents /\ NoFile \in [name : Names, len : 0 .. 2]
  BY Constants DEF Empty, Contents, NoFile
<1>1. TypeOK
  <2>1. ino \in [Names -> Inodes \cup {0}] /\ data \in [Inodes -> Contents]
    BY <1>0 DEF Init
  <2>2. pc \in [Procs -> Labels] /\ key \in [Procs -> Keys]
    BY DEF Init, Labels
  <2>3. /\ fd \in [Procs -> Inodes \cup {0}] /\ holds \in [Procs -> BOOLEAN]
        /\ src \in [Procs -> Inodes \cup {0}] /\ seen \in [Procs -> Contents]
        /\ front \in [Procs -> [name : Names, len : 0 .. 2]]
        /\ ans \in [Procs -> {"none", "db", "whole", "part", "garbage"}]
    BY <1>0 DEF Init
  <2>4. tries \in [Procs -> 0 .. MaxTries] /\ faults \in 0 .. MaxFaults
    BY BoundsAssumption DEF Init
  <2>5. cut \in SUBSET Keys /\ loose \in SUBSET Keys /\ torn \in SUBSET Procs
    BY DEF Init
  <2> QED
    BY <2>1, <2>2, <2>3, <2>4, <2>5 DEF TypeOK, Labels
<1>2. LockInv
  BY DEF Init, LockInv, Storing, Lockless, Closed
<1>3. OpenInv /\ WriteInv
  BY DEF Init, OpenInv, WriteInv, Writes
<1>4. KeptWhole
  BY Constants DEF Init, KeptWhole
<1>5. ReadInv /\ ServedWhole
  BY DEF Init, ReadInv, ServedWhole
<1> QED
  BY <1>1, <1>2, <1>3, <1>4, <1>5 DEF IInv, FileInv

\* The heart of it: of the jobs that store with the lock there is one at most.
LEMMA OneStores == LockInv => GlobalLockExcludes
BY DEF LockInv, GlobalLockExcludes, Sound

(* Steps of a job that leave the files alone and write nothing: what has to   *)
(* be shown of them is about that job.                                        *)
LEMMA Looks ==
  ASSUME IInv, NEW p \in Procs, UNCHANGED <<ino, data, cut, loose>>,
         \A q \in Procs \ {p} :
           /\ pc'[q] = pc[q] /\ key'[q] = key[q] /\ fd'[q] = fd[q]
           /\ src'[q] = src[q] /\ seen'[q] = seen[q] /\ ans'[q] = ans[q]
           /\ q \in torn' <=> q \in torn,
         key'[p] \in Keys,
         pc[p] \notin Writes, pc'[p] \notin Writes,
         pc'[p] # "g_read" => src'[p] = 0,
         pc'[p] = "g_read" =>
           /\ src'[p] = ino[key'[p]]
           /\ p \notin torn' => AtRest(key'[p]) /\ seen'[p] = data[src'[p]]
           /\ src'[p] # 0,
         p \notin torn' => ans'[p] \in {"none", "db", "whole"}
  PROVE  FileInv'
<1>0. OpenInv /\ WriteInv /\ KeptWhole /\ ReadInv /\ ServedWhole
  BY DEF IInv, FileInv
<1>1. key'[p] \in Names /\ src'[p] \in {0, ino[key'[p]]}
  BY Constants
<1>2. OpenInv'
  BY <1>0, <1>1 DEF OpenInv
<1>3. WriteInv'
  BY <1>0 DEF WriteInv, Sound, Writes
<1>4. \A q \in Procs, i \in Inodes \cup {0} : Writing(q, i)' <=> Writing(q, i)
  BY DEF Writing, Writes
<1>5. KeptWhole'
  <2>1. \A k \in Keys : BeingWritten(k)' <=> BeingWritten(k)
    BY DEF BeingWritten, Writing, Writes
  <2> QED
    BY <1>0, <2>1 DEF KeptWhole
<1>6. ReadInv'
  <2> SUFFICES ASSUME NEW q \in Procs, q \notin torn', pc'[q] = "g_read"
               PROVE  /\ \E w \in Procs : seen'[q] = Whole(w)
                      /\ data'[src'[q]] = seen'[q]
                      /\ \A r \in Procs : ~(pc'[r] \in Writes /\ src'[r] = src'[q])
    BY DEF ReadInv, Writing, Writes, Whole
  <2>1. CASE q # p
    BY <1>0, <2>1 DEF ReadInv, Writing, Writes
  <2>2. CASE q = p
    <3>1. /\ ino[key'[p]] # 0 /\ key'[p] \notin cut /\ key'[p] \notin loose
          /\ ~BeingWritten(key'[p])
      BY <2>2 DEF AtRest
    <3>2. \E w \in Procs : data[ino[key'[p]]] = Whole(w)
      BY <1>0, <3>1 DEF KeptWhole
    <3>3. \A r \in Procs : ~Writing(r, ino[key'[p]])
      BY <3>1 DEF BeingWritten
    <3> QED
      BY <2>2, <3>2, <3>3 DEF Writing, Writes
  <2> QED
    BY <2>1, <2>2
<1>7. ServedWhole'
  BY <1>0 DEF ServedWhole
<1> QED
  BY <1>2, <1>3, <1>5, <1>6, <1>7 DEF FileInv
\* The same about the locks.
LEMMA Locks ==
  ASSUME TypeOK, LockInv, NEW p \in Procs,
         \A q \in Procs \ {p} : pc'[q] = pc[q] /\ fd'[q] = fd[q] /\ holds'[q] = holds[q],
         holds'[p] => (holds[p] /\ fd'[p] = fd[p]) \/ Unlocked(fd'[p]),
         pc'[p] \in Lockless => ~holds'[p],
         pc'[p] \in Closed => fd'[p] = 0,
         Storing(p)' /\ fd'[p] # 0 => holds'[p]
  PROVE  LockInv'
BY DEF LockInv, Unlocked, Storing

\* Closing the file gives up its lock.
LEMMA Released ==
  ASSUME TypeOK, LockInv, NEW p \in Procs, Release(p),
         \A q \in Procs \ {p} : pc'[q] = pc[q]
  PROVE  /\ LockInv' /\ fd'[p] = 0
         /\ \A q \in Procs \ {p} : fd'[q] = fd[q]
         /\ fd' \in [Procs -> Inodes \cup {0}] /\ holds' \in [Procs -> BOOLEAN]
         /\ tries' \in [Procs -> 0 .. MaxTries]
<1>1. /\ fd'[p] = 0 /\ holds'[p] = FALSE
      /\ \A q \in Procs \ {p} : fd'[q] = fd[q] /\ holds'[q] = holds[q]
  BY DEF Release, TypeOK
<1>2. LockInv'
  BY <1>1, Locks
<1>3. fd' \in [Procs -> Inodes \cup {0}] /\ holds' \in [Procs -> BOOLEAN]
  BY DEF Release, TypeOK
<1>4. tries' \in [Procs -> 0 .. MaxTries]
  BY BoundsAssumption DEF Release, TypeOK
<1> QED
  BY <1>1, <1>2, <1>3, <1>4
-----------------------------------------------------------------------------
\* The steps of get, and the others that only look.
LEMMA QueryStep ==
  ASSUME IInv, NEW p \in Procs, NEW k \in Keys, Query(p, k)
  PROVE  IInv'
<1> USE DEF files, locks, history
<1>0. TypeOK /\ LockInv /\ FileInv
  BY DEF IInv
<1>1. TypeOK'
  BY <1>0, Constants DEF Query, Go, TypeOK, GetLabels, SetLabels
<1>2. LockInv'
  BY <1>0 DEF Query, Go, TypeOK, LockInv, Lockless, Closed, Storing
<1>3. src[p] = 0
  BY <1>0 DEF Query, Go, FileInv, OpenInv, Writes
<1>4. FileInv'
  BY <1>0, <1>3, Looks DEF Query, Go, TypeOK, Writes
<1> QED
  BY <1>1, <1>2, <1>4 DEF IInv

LEMMA GetLockStep ==
  ASSUME IInv, NEW p \in Procs, GetLock(p)
  PROVE  IInv'
<1> USE DEF files, locks
<1>0. TypeOK /\ LockInv /\ FileInv
  BY DEF IInv
<1>1. TypeOK'
  <2>1. /\ fd' \in [Procs -> Inodes \cup {0}] /\ holds' \in [Procs -> BOOLEAN]
        /\ pc' \in [Procs -> Labels]
    BY <1>0, Constants DEF GetLock, TypeOK, Labels, GetLabels, SetLabels
  <2>2. tries' \in [Procs -> 0 .. MaxTries]
    BY <1>0, BoundsAssumption DEF GetLock, TypeOK
  <2>3. faults' \in 0 .. MaxFaults
    BY <1>0, BoundsAssumption DEF GetLock, Fault, TypeOK
  <2> QED
    BY <1>0, <2>1, <2>2, <2>3 DEF GetLock, TypeOK, Labels
<1>2. LockInv'
  <2>1. /\ pc[p] = "g_flock" /\ ~holds[p] /\ fd[p] = 0
        /\ pc'[p] \in {"g_size", "g_flock", "db"}
        /\ \A q \in Procs \ {p} : pc'[q] = pc[q] /\ fd'[q] = fd[q] /\ holds'[q] = holds[q]
    BY <1>0 DEF GetLock, LockInv, Lockless, Closed, TypeOK
  <2>2. \/ UNCHANGED locks
        \/ Unlocked(fd'[p]) /\ pc'[p] = "g_size"
    BY <1>0 DEF GetLock, TypeOK
  <2> QED
    BY <1>0, <2>1, <2>2, Locks DEF Lockless, Closed, Storing
<1>3. src[p] = 0 /\ (p \notin torn => ans[p] \in {"none", "db", "whole"})
  BY <1>0 DEF GetLock, FileInv, OpenInv, ServedWhole, Writes
<1>4. FileInv'
  BY <1>0, <1>3, Looks DEF GetLock, TypeOK, Writes
<1> QED
  BY <1>1, <1>2, <1>4 DEF IInv

LEMMA GetSizeStep ==
  ASSUME IInv, NEW p \in Procs, GetSize(p)
  PROVE  IInv'
<1> USE DEF files, locks
<1>0. TypeOK /\ LockInv /\ FileInv
  BY DEF IInv
<1> DEFINE i == ino[key[p]]
<1>1. /\ key[p] \in Keys /\ i \in Inodes \cup {0} /\ pc[p] = "g_size" /\ src[p] = 0
      /\ p \notin torn => ans[p] \in {"none", "db", "whole"}
  BY <1>0, Constants DEF GetSize, Go, FileInv, OpenInv, ServedWhole, Writes, TypeOK
<1>2. UNCHANGED <<files, key, front, cut, loose>>
  BY DEF GetSize
<1>3. \/ /\ i # 0 /\ data[i] # Empty
         /\ pc' = [pc EXCEPT ![p] = "g_read"]
         /\ src' = [src EXCEPT ![p] = i] /\ seen' = [seen EXCEPT ![p] = data[i]]
         /\ torn' = IF AtRest(key[p]) THEN torn ELSE torn \cup {p}
         /\ UNCHANGED <<locks, tries, ans, faults>>
      \/ /\ pc' = [pc EXCEPT ![p] = "db"]
         /\ Release(p) /\ UNCHANGED <<src, seen, torn, ans, faults>>
      \/ /\ pc' = [pc EXCEPT ![p] = "idle"]
         /\ ans' = [ans EXCEPT ![p] = "garbage"]
         /\ torn' = torn \cup {p}
         /\ UNCHANGED faults \/ Fault
         /\ Release(p) /\ UNCHANGED <<src, seen>>
  BY DEF GetSize, Go
<1> HIDE DEF i
<1>4. CASE /\ i # 0 /\ data[i] # Empty
           /\ pc' = [pc EXCEPT ![p] = "g_read"]
           /\ src' = [src EXCEPT ![p] = i] /\ seen' = [seen EXCEPT ![p] = data[i]]
           /\ torn' = IF AtRest(key[p]) THEN torn ELSE torn \cup {p}
           /\ UNCHANGED <<locks, tries, ans, faults>>
  <2>1. TypeOK'
    BY <1>0, <1>1, <1>2, <1>4 DEF TypeOK, GetLabels
  <2>2. LockInv'
    BY <1>0, <1>1, <1>4 DEF TypeOK, LockInv, Lockless, Closed, Storing
  <2>3. /\ pc'[p] = "g_read" /\ src'[p] = i /\ seen'[p] = data[i] /\ src'[p] = ino[key'[p]]
        /\ p \notin torn' => AtRest(key'[p]) /\ p \notin torn
        /\ \A q \in Procs \ {p} :
             /\ pc'[q] = pc[q] /\ src'[q] = src[q] /\ seen'[q] = seen[q]
             /\ q \in torn' <=> q \in torn
    BY <1>0, <1>2, <1>4 DEF TypeOK, i
  <2>4. FileInv'
    BY <1>1, <1>2, <1>4, <2>3, Looks DEF Writes
  <2> QED
    BY <2>1, <2>2, <2>4 DEF IInv
<1>5. CASE /\ pc' = [pc EXCEPT ![p] = "db"]
           /\ Release(p) /\ UNCHANGED <<src, seen, torn, ans, faults>>
  <2>1. /\ pc'[p] = "db" /\ \A q \in Procs \ {p} : pc'[q] = pc[q]
        /\ pc' \in [Procs -> Labels]
    BY <1>0, <1>5 DEF TypeOK, Labels, SetLabels
  <2>2. /\ TypeOK' /\ LockInv' /\ \A q \in Procs \ {p} : fd'[q] = fd[q]
    BY <1>0, <1>2, <1>5, <2>1, Released DEF TypeOK, Labels
  <2>3. FileInv'
    BY <1>1, <1>2, <1>5, <2>1, <2>2, Looks DEF Writes
  <2> QED
    BY <2>2, <2>3 DEF IInv
<1>6. CASE /\ pc' = [pc EXCEPT ![p] = "idle"]
           /\ ans' = [ans EXCEPT ![p] = "garbage"]
           /\ torn' = torn \cup {p}
           /\ UNCHANGED faults \/ Fault
           /\ Release(p) /\ UNCHANGED <<src, seen>>
  <2>1. /\ pc'[p] = "idle" /\ pc' \in [Procs -> Labels]
        /\ ans' \in [Procs -> {"none", "db", "whole", "part", "garbage"}]
        /\ \A q \in Procs \ {p} : pc'[q] = pc[q] /\ ans'[q] = ans[q] /\ (q \in torn' <=> q \in torn)
        /\ p \in torn' /\ torn' \in SUBSET Procs
    BY <1>0, <1>6 DEF TypeOK, Labels
  <2>2. faults' \in 0 .. MaxFaults
    BY <1>0, <1>6, BoundsAssumption DEF Fault, TypeOK
  <2>3. /\ TypeOK' /\ LockInv' /\ \A q \in Procs \ {p} : fd'[q] = fd[q]
    BY <1>0, <1>2, <1>6, <2>1, <2>2, Released DEF TypeOK, Labels
  <2>4. FileInv'
    BY <1>1, <1>2, <1>6, <2>1, <2>3, Looks DEF Writes
  <2> QED
    BY <2>3, <2>4 DEF IInv
<1> QED
  BY <1>3, <1>4, <1>5, <1>6

LEMMA GetReadStep ==
  ASSUME IInv, NEW p \in Procs, GetRead(p)
  PROVE  IInv'
<1> USE DEF files, locks, history
<1>0. TypeOK /\ LockInv /\ FileInv
  BY DEF IInv
<1>1. PICK a \in Parsed(seen[p], data[src[p]]) : ans' = [ans EXCEPT ![p] = a]
  BY DEF GetRead
<1>2. a \in {"whole", "part", "garbage"}
  BY <1>1 DEF Parsed
<1>3. ASSUME p \notin torn PROVE a = "whole"
  <2>1. PICK w \in Procs : seen[p] = Whole(w) /\ data[src[p]] = Whole(w)
    BY <1>0, <1>3 DEF GetRead, Go, FileInv, ReadInv
  <2>2. w # Nobody
    BY ProcsAssumption
  <2>3. Parsed(Whole(w), Whole(w)) = {"whole"}
    BY <2>2 DEF Parsed, Whole
  <2> QED
    BY <1>1, <2>1, <2>3
<1>4. TypeOK'
  <2>1. ans' \in [Procs -> {"none", "db", "whole", "part", "garbage"}]
    BY <1>0, <1>1, <1>2 DEF TypeOK
  <2>2. Empty \in Contents
    BY DEF Empty, Contents
  <2>3. 0 \in 0 .. MaxTries
    BY BoundsAssumption
  <2> QED
    BY <1>0, <2>1, <2>2, <2>3 DEF GetRead, Go, Release, TypeOK
<1>5. LockInv'
  BY <1>0 DEF GetRead, Go, Release, TypeOK, LockInv, Lockless, Closed, Storing
<1>6. FileInv'
  <2>1. /\ pc[p] = "g_read" /\ pc'[p] = "idle" /\ src'[p] = 0 /\ ans'[p] = a
        /\ UNCHANGED <<ino, data, cut, loose, torn, key>>
        /\ \A q \in Procs \ {p} :
             /\ pc'[q] = pc[q] /\ fd'[q] = fd[q] /\ src'[q] = src[q]
             /\ seen'[q] = seen[q] /\ ans'[q] = ans[q]
    BY <1>0, <1>1 DEF GetRead, Go, Release, TypeOK
  <2>2. key'[p] \in Keys
    BY <1>0, <2>1 DEF TypeOK
  <2> QED
    BY <1>3, <2>1, <2>2, Looks DEF Writes
<1> QED
  BY <1>4, <1>5, <1>6 DEF IInv

\* The database, the locks of those who store, and the cleanup's listing.
LEMMA PlainStep ==
  ASSUME IInv, NEW p \in Procs, NEW from, NEW to \in {"s_trunc", "c_list"},
         NEW again \in {"s_open", "c_open"},
         \/ QueryDb(p) \/ Start(p) \/ List(p) \/ SetDenied(p)
         \/ from \in {"s_flock", "c_flock"} /\ LockOpened(p, from, to)
         \/ from \in {"s_flock", "c_flock"} /\ LockBusy(p, from, again, "idle")
         \/ from \in {"s_open", "c_open"} /\ OpenLockFails(p, from, to)
  PROVE  IInv'
<1> USE DEF files, locks, history
<1>0. TypeOK /\ LockInv /\ FileInv
  BY DEF IInv
<1>1. ASSUME UNCHANGED <<ino, data, key, src, seen, cut, loose, torn>>,
             pc[p] \notin {"g_read"} \cup Writes,
             \E l \in Labels \ ({"g_read"} \cup Writes) : pc' = [pc EXCEPT ![p] = l],
             \A q \in Procs \ {p} : fd'[q] = fd[q] /\ ans'[q] = ans[q],
             p \notin torn => ans'[p] \in {"none", "db", "whole"}
      PROVE  FileInv'
  <2>1. src[p] = 0 /\ key[p] \in Keys
    BY <1>0, <1>1 DEF FileInv, OpenInv, TypeOK
  <2> QED
    BY <1>0, <1>1, <2>1, Looks DEF TypeOK
<1>a. p \notin torn => ans[p] \in {"none", "db", "whole"}
  BY <1>0 DEF FileInv, ServedWhole
<1>b. 0 \in 0 .. MaxTries
  BY BoundsAssumption
<1>2. CASE QueryDb(p)
  <2>1. TypeOK' /\ LockInv'
    BY <1>0, <1>2 DEF QueryDb, TypeOK, SetLabels, LockInv, Lockless, Closed, Storing
  <2>2. FileInv'
    BY <1>0, <1>1, <1>2, <1>a DEF QueryDb, TypeOK, Labels, SetLabels, Writes
  <2> QED
    BY <2>1, <2>2 DEF IInv
<1>3. CASE Start(p)
  <2>1. TypeOK' /\ LockInv'
    BY <1>0, <1>3 DEF Start, Go, TypeOK, CleanLabels, LockInv, Lockless, Closed, Storing
  <2>2. FileInv'
    BY <1>0, <1>1, <1>3, <1>a DEF Start, Go, Labels, CleanLabels, Writes
  <2> QED
    BY <2>1, <2>2 DEF IInv
<1>4. CASE List(p)
  <2>1. front' \in [Procs -> [name : Names, len : 0 .. 2]]
    <3>1. CASE UNCHANGED front
      BY <1>0, <3>1 DEF TypeOK
    <3>2. ASSUME NEW n \in Names, ino[n] # 0,
                 front' = [front EXCEPT ![p] = [name |-> n, len |-> data[ino[n]].len]]
          PROVE  front' \in [Procs -> [name : Names, len : 0 .. 2]]
      <4>1. data[ino[n]].len \in 0 .. 2
        BY <1>0, <3>2 DEF TypeOK, Contents
      <4> QED
        BY <1>0, <3>2, <4>1 DEF TypeOK
    <3> QED
      BY <1>4, <3>1, <3>2 DEF List
  <2>2. /\ pc[p] = "c_list" /\ UNCHANGED <<files, key, src, seen, ans, history>>
        /\ \/ pc' = [pc EXCEPT ![p] = "idle"] /\ Release(p)
           \/ pc' = [pc EXCEPT ![p] = "c_rm"] /\ UNCHANGED <<locks, tries>>
    BY <1>4 DEF List, Go
  <2>3. TypeOK' /\ LockInv' /\ \A q \in Procs \ {p} : fd'[q] = fd[q]
    <3>1. CASE pc' = [pc EXCEPT ![p] = "idle"] /\ Release(p)
      BY <1>0, <2>1, <2>2, <3>1, Released DEF TypeOK
    <3>2. CASE pc' = [pc EXCEPT ![p] = "c_rm"] /\ UNCHANGED <<locks, tries>>
      BY <1>0, <2>1, <2>2, <3>2 DEF TypeOK, CleanLabels, LockInv, Lockless, Closed, Storing
    <3> QED
      BY <2>2, <3>1, <3>2
  <2>4. FileInv'
    BY <1>1, <2>2, <2>3, <1>a DEF Labels, CleanLabels, Writes
  <2> QED
    BY <2>3, <2>4 DEF IInv
<1>5. CASE SetDenied(p)
  <2>1. TypeOK'
    BY <1>0, <1>5, <1>b, BoundsAssumption DEF SetDenied, Go, Fault, Release, TypeOK
  <2>2. LockInv'
    BY <1>0, <1>5 DEF SetDenied, Go, Release, TypeOK, LockInv, Lockless, Closed, Storing
  <2>3. FileInv'
    BY <1>0, <1>1, <1>5, <1>a DEF SetDenied, Go, Release, TypeOK, Labels, Writes
  <2> QED
    BY <2>1, <2>2, <2>3 DEF IInv
<1>6. CASE from \in {"s_flock", "c_flock"} /\ LockOpened(p, from, to)
  <2>1. TypeOK' /\ LockInv'
    BY <1>0, <1>6 DEF LockOpened, Go, Unlocked, TypeOK, SetLabels, CleanLabels, LockInv, Lockless, Closed, Storing
  <2>2. FileInv'
    BY <1>0, <1>1, <1>6, <1>a DEF LockOpened, Go, Labels, SetLabels, CleanLabels, Writes
  <2> QED
    BY <2>1, <2>2 DEF IInv
<1>7. CASE from \in {"s_flock", "c_flock"} /\ LockBusy(p, from, again, "idle")
  <2>1. tries' \in [Procs -> 0 .. MaxTries]
    BY <1>0, <1>7, BoundsAssumption DEF LockBusy, TypeOK
  <2>2. TypeOK'
    BY <1>0, <1>7, <2>1 DEF LockBusy, TypeOK, SetLabels, CleanLabels
  <2>3. LockInv'
    BY <1>0, <1>7 DEF LockBusy, TypeOK, LockInv, Lockless, Closed, Storing
  <2>4. FileInv'
    BY <1>0, <1>1, <1>7, <1>a DEF LockBusy, TypeOK, Labels, SetLabels, CleanLabels, Writes
  <2> QED
    BY <2>2, <2>3, <2>4 DEF IInv
<1>8. CASE from \in {"s_open", "c_open"} /\ OpenLockFails(p, from, to)
  <2>1. TypeOK'
    BY <1>0, <1>8, BoundsAssumption DEF OpenLockFails, Go, Fault, TypeOK, SetLabels, CleanLabels
  <2>2. LockInv'
    BY <1>0, <1>8 DEF OpenLockFails, Go, TypeOK, LockInv, Lockless, Closed, Storing
  <2>3. FileInv'
    BY <1>0, <1>1, <1>8, <1>a DEF OpenLockFails, Go, Labels, SetLabels, CleanLabels, Writes
  <2> QED
    BY <2>1, <2>2, <2>3 DEF IInv
<1> QED
  BY <1>2, <1>3, <1>4, <1>5, <1>6, <1>7, <1>8
-----------------------------------------------------------------------------
\* The steps that change files.
LEMMA OpenLockStep ==
  ASSUME IInv, NEW p \in Procs, NEW from \in {"s_open", "c_open"}, NEW to \in {"s_flock", "c_flock"},
         OpenLock(p, from, to)
  PROVE  IInv'
<1> USE DEF history
<1>0. TypeOK /\ LockInv /\ OpenInv /\ WriteInv /\ KeptWhole /\ ReadInv /\ ServedWhole
  BY DEF IInv, FileInv
<1> DEFINE i == IF ino[GlobalLock] = 0 THEN NewInode ELSE ino[GlobalLock]
<1>1. /\ pc[p] = from /\ pc' = [pc EXCEPT ![p] = to]
      /\ fd' = [fd EXCEPT ![p] = i] /\ ino' = [ino EXCEPT ![GlobalLock] = i]
      /\ data' = IF ino[GlobalLock] = 0 THEN [data EXCEPT ![i] = Empty] ELSE data
      /\ UNCHANGED <<holds, key, src, seen, tries, front, ans, cut, loose, torn, faults>>
  BY DEF OpenLock, Go
<1>2. /\ i \in Inodes /\ i # 0
      /\ ino[GlobalLock] # 0 => i = ino[GlobalLock]
      /\ ino[GlobalLock] = 0 => i \notin InUse
  BY <1>0, Constants, FreshInode DEF TypeOK
<1> HIDE DEF i
<1>3. /\ ino'[GlobalLock] = i /\ \A n \in Keys : ino'[n] = ino[n]
      /\ \A j \in Inodes : j # i => data'[j] = data[j]
      /\ \A n \in Keys : ino[n] # i
      /\ \A q \in Procs : src[q] # i
      /\ \A q \in Procs : src[q] \in Inodes \cup {0}
      /\ \A n \in Keys : ino[n] \in Inodes \cup {0}
  <2>1. /\ ino'[GlobalLock] = i /\ \A n \in Keys : ino'[n] = ino[n]
        /\ \A j \in Inodes : j # i => data'[j] = data[j]
    BY <1>0, <1>1, Constants DEF TypeOK
  <2>2. CASE ino[GlobalLock] # 0
    <3>1. i = ino[GlobalLock] /\ GlobalLock \in Names /\ \A q \in Procs : key[q] # GlobalLock
      BY <1>0, <1>2, <2>2, Constants DEF TypeOK
    <3> QED
      BY <1>0, <1>2, <2>1, <3>1, Constants DEF OpenInv, TypeOK
  <2>3. CASE ino[GlobalLock] = 0
    BY <1>0, <1>2, <2>1, <2>3, Constants DEF InUse, TypeOK
  <2> QED
    BY <2>2, <2>3
<1>4. TypeOK'
  <2>1. Empty \in Contents
    BY ContentFacts
  <2> QED
    BY <1>0, <1>1, <1>2, <2>1, Constants DEF TypeOK, SetLabels, CleanLabels
<1>5. LockInv'
  <2>1. ~holds[p] /\ pc'[p] = to /\ fd'[p] = i
    BY <1>0, <1>1 DEF LockInv, Lockless, TypeOK
  <2> QED
    BY <1>0, <1>1, <2>1, Locks DEF TypeOK, Lockless, Closed, Storing
<1>6. /\ \A q \in Procs : q # p => pc'[q] = pc[q] /\ fd'[q] = fd[q]
      /\ pc'[p] \notin {"g_read"} \cup Writes /\ pc[p] \notin {"g_read"} \cup Writes
  BY <1>0, <1>1 DEF TypeOK, Writes
<1>7. OpenInv'
  <2>1. \A m, n \in Names : ino'[m] # 0 /\ ino'[m] = ino'[n] => m = n
    BY <1>0, <1>3 DEF OpenInv, Names
  <2>2. \A q \in Procs : src'[q] # 0 <=> pc'[q] \in {"g_read"} \cup Writes
    BY <1>0, <1>1, <1>6 DEF OpenInv
  <2>3. \A q \in Procs, n \in Names : src'[q] # 0 /\ src'[q] = ino'[n] => n = key'[q]
    BY <1>0, <1>1, <1>3 DEF OpenInv, Names
  <2> QED
    BY <1>0, <1>1, <2>1, <2>2, <2>3 DEF OpenInv
<1>8. WriteInv'
  <2> SUFFICES ASSUME NEW q \in Procs, Sound(q)', key[q] \notin loose, pc'[q] \in Writes
               PROVE  /\ pc'[q] = "s_write" => data'[src[q]] = Empty
                      /\ pc'[q] = "s_more" => data'[src[q]] = Part(q)
    BY <1>1 DEF WriteInv, Writes, Part, Empty
  <2>1. q # p /\ pc'[q] = pc[q] /\ fd'[q] = fd[q] /\ src[q] # 0
    BY <1>0, <1>6 DEF OpenInv
  <2>2. Sound(q)
    BY <1>2, <1>3, <2>1 DEF Sound, InUse
  <2>3. data'[src[q]] = data[src[q]]
    BY <1>3, <2>1
  <2> QED
    BY <1>0, <2>1, <2>2, <2>3 DEF WriteInv
<1>9. \A q \in Procs : \A j \in Inodes : Writing(q, j)' <=> Writing(q, j)
  BY <1>1, <1>6 DEF Writing, Writes
<1>10. KeptWhole'
  <2> SUFFICES ASSUME NEW k \in Keys, k \notin loose, ino[k] # 0
               PROVE  /\ data'[ino[k]] # Mixed
                      /\ \/ \E q \in Procs : data'[ino[k]] = Whole(q)
                         \/ k \in cut \/ \E q \in Procs : Writing(q, ino[k])'
    BY <1>1, <1>3 DEF KeptWhole, BeingWritten, Writing, Mixed, Whole
  <2>1. data'[ino[k]] = data[ino[k]]
    BY <1>3
  <2> QED
    BY <1>0, <1>3, <1>9, <2>1 DEF KeptWhole, BeingWritten
<1>11. ReadInv'
  <2> SUFFICES ASSUME NEW q \in Procs, q \notin torn, pc'[q] = "g_read"
               PROVE  /\ \E w \in Procs : seen[q] = Whole(w)
                      /\ data'[src[q]] = seen[q]
                      /\ \A r \in Procs : ~(pc'[r] \in Writes /\ src[r] = src[q])
    BY <1>1 DEF ReadInv, Writing, Writes, Whole
  <2>1. q # p /\ pc[q] = "g_read" /\ src[q] # 0
    BY <1>0, <1>6 DEF OpenInv
  <2>2. data'[src[q]] = data[src[q]]
    BY <1>3, <2>1
  <2> QED
    BY <1>0, <1>6, <2>1, <2>2 DEF ReadInv, Writing, Writes
<1>12. ServedWhole'
  BY <1>0, <1>1 DEF ServedWhole
<1> QED
  BY <1>4, <1>5, <1>7, <1>8, <1>10, <1>11, <1>12 DEF IInv, FileInv

LEMMA RemoveStep ==
  ASSUME IInv, NEW p \in Procs, Remove(p)
  PROVE  IInv'
<1> USE DEF history, locks
<1>0. TypeOK /\ LockInv /\ OpenInv /\ WriteInv /\ KeptWhole /\ ReadInv /\ ServedWhole
  BY DEF IInv, FileInv
<1> DEFINE n == front[p].name
<1>1. /\ pc[p] = "c_rm" /\ ino' = [ino EXCEPT ![n] = 0]
      /\ \/ pc' = pc /\ UNCHANGED <<locks, tries, front>>
         \/ /\ pc' = [pc EXCEPT ![p] = "idle"] /\ front' = [front EXCEPT ![p] = NoFile]
            /\ Release(p)
      /\ UNCHANGED <<data, key, src, seen, ans, cut, loose, torn, faults>>
  BY DEF Remove
<1>2. n \in Names
  BY <1>0 DEF TypeOK
<1> HIDE DEF n
<1>3. ino'[n] = 0 /\ \A m \in Names : m # n => ino'[m] = ino[m]
  BY <1>0, <1>1, <1>2 DEF TypeOK
<1>4. /\ TypeOK' /\ LockInv'
      /\ \A q \in Procs : q # p => pc'[q] = pc[q] /\ fd'[q] = fd[q]
      /\ pc'[p] \notin {"g_read"} \cup Writes
  <2>1. ino' \in [Names -> Inodes \cup {0}] /\ NoFile \in [name : Names, len : 0 .. 2]
    <3>1. NoFile \in [name : Names, len : 0 .. 2]
      BY Constants DEF NoFile
    <3> QED
      BY <1>0, <1>1, <3>1 DEF TypeOK
  <2>2. CASE pc' = pc /\ UNCHANGED <<locks, tries, front>>
    BY <1>0, <1>1, <2>1, <2>2 DEF TypeOK, LockInv, Storing, Writes
  <2>3. CASE /\ pc' = [pc EXCEPT ![p] = "idle"] /\ front' = [front EXCEPT ![p] = NoFile]
             /\ Release(p)
    <3>1. /\ \A q \in Procs \ {p} : pc'[q] = pc[q]
          /\ pc'[p] = "idle"
          /\ front' \in [Procs -> [name : Names, len : 0 .. 2]]
      BY <1>0, <2>1, <2>3 DEF TypeOK
    <3>2. /\ LockInv' /\ \A q \in Procs \ {p} : fd'[q] = fd[q]
          /\ fd' \in [Procs -> Inodes \cup {0}] /\ holds' \in [Procs -> BOOLEAN]
          /\ tries' \in [Procs -> 0 .. MaxTries]
      BY <1>0, <2>3, <3>1, Released
    <3> QED
      BY <1>0, <1>1, <2>1, <2>3, <3>1, <3>2 DEF TypeOK, Writes
  <2> QED
    BY <1>1, <2>2, <2>3
<1>5. OpenInv'
  BY <1>0, <1>1, <1>3, <1>4 DEF OpenInv, Writes
<1>6. WriteInv'
  <2> SUFFICES ASSUME NEW q \in Procs, Sound(q)', key[q] \notin loose, pc'[q] \in Writes
               PROVE  /\ pc'[q] = "s_write" => data[src[q]] = Empty
                      /\ pc'[q] = "s_more" => data[src[q]] = Part(q)
    BY <1>1 DEF WriteInv, Writes, Part, Empty
  <2>1. q # p /\ pc'[q] = pc[q] /\ Sound(q)
    BY <1>3, <1>4, Constants DEF Sound
  <2> QED
    BY <1>0, <2>1 DEF WriteInv
<1>7. \A q \in Procs : pc'[q] \in Writes <=> pc[q] \in Writes
  BY <1>1, <1>4 DEF Writes
<1>8. KeptWhole'
  <2> SUFFICES ASSUME NEW k \in Keys, k \notin loose, ino'[k] # 0
               PROVE  /\ data[ino'[k]] # Mixed
                      /\ \/ \E q \in Procs : data[ino'[k]] = Whole(q)
                         \/ k \in cut \/ \E q \in Procs : pc'[q] \in Writes /\ src[q] = ino'[k]
    BY <1>1 DEF KeptWhole, BeingWritten, Writing, Writes, Mixed, Whole
  <2>1. ino'[k] = ino[k]
    BY <1>3, Constants
  <2> QED
    BY <1>0, <1>7, <2>1 DEF KeptWhole, BeingWritten, Writing, Writes
<1>9. ReadInv'
  BY <1>0, <1>1, <1>4, <1>7 DEF ReadInv, Writing, Writes
<1>10. ServedWhole'
  BY <1>0, <1>1 DEF ServedWhole
<1> QED
  BY <1>4, <1>5, <1>6, <1>8, <1>9, <1>10 DEF IInv, FileInv

(* A file is emptied: by a job with the lock, beside which no other of the    *)
(* kind writes it, or the key becomes loose.                                  *)
LEMMA TruncateStep ==
  ASSUME IInv, NEW p \in Procs, SetTruncate(p)
  PROVE  IInv'
<1> USE DEF locks
<1>0. TypeOK /\ LockInv /\ OpenInv /\ WriteInv /\ KeptWhole /\ ReadInv /\ ServedWhole
  BY DEF IInv, FileInv
<1> DEFINE k == key[p]
           i == IF ino[k] = 0 THEN NewInode ELSE ino[k]
<1>1. /\ pc[p] = "s_trunc" /\ pc' = [pc EXCEPT ![p] = "s_write"]
      /\ ino' = [ino EXCEPT ![k] = i] /\ data' = [data EXCEPT ![i] = Empty]
      /\ src' = [src EXCEPT ![p] = i] /\ Loosens(p)
      /\ torn' = torn \cup {q \in Procs : pc[q] = "g_read" /\ src[q] = i}
      /\ UNCHANGED <<key, fd, holds, seen, tries, front, ans, cut, faults>>
  BY DEF SetTruncate, Go
<1>2. /\ k \in Keys /\ k \in Names /\ i \in Inodes /\ i # 0
      /\ ino[k] # 0 => i = ino[k]
      /\ ino[k] = 0 => i \notin InUse
  BY <1>0, Constants, FreshInode DEF TypeOK
<1> HIDE DEF i
<1>3. /\ \A n \in Names : n # k => ino[n] # i
      /\ \A q \in Procs : src[q] = i => key[q] = k
  <2>1. CASE ino[k] # 0
    BY <1>0, <1>2, <2>1 DEF OpenInv
  <2>2. CASE ino[k] = 0
    BY <1>2, <2>2 DEF InUse
  <2> QED
    BY <2>1, <2>2
<1> HIDE DEF k
<1>4. /\ ino'[k] = i /\ \A n \in Names : n # k => ino'[n] = ino[n]
      /\ data'[i] = Empty /\ \A j \in Inodes : j # i => data'[j] = data[j]
      /\ src'[p] = i /\ \A q \in Procs : q # p => src'[q] = src[q]
      /\ pc'[p] = "s_write" /\ \A q \in Procs : q # p => pc'[q] = pc[q]
      /\ key[p] = k /\ src[p] = 0
      /\ \A q \in Procs : src[q] \in Inodes \cup {0}
      /\ \A n \in Names : ino[n] \in Inodes \cup {0}
  BY <1>0, <1>1, <1>2 DEF TypeOK, OpenInv, Writes, k
<1>5. loose \subseteq loose' /\ loose' \subseteq Keys /\ (~Sound(p) => k \in loose')
  BY <1>0, <1>1, <1>2 DEF Loosens, TypeOK, k
<1>6. TypeOK'
  <2>1. Empty \in Contents
    BY ContentFacts
  <2> QED
    BY <1>0, <1>1, <1>2, <1>5, <2>1 DEF TypeOK, SetLabels
<1>7. LockInv'
  BY <1>0, <1>1, <1>4, Locks DEF LockInv, Lockless, Closed, Storing
<1>8. OpenInv'
  <2>1. \A m, n \in Names : ino'[m] # 0 /\ ino'[m] = ino'[n] => m = n
    BY <1>0, <1>3, <1>4 DEF OpenInv
  <2>2. \A q \in Procs : src'[q] # 0 <=> pc'[q] \in {"g_read"} \cup Writes
    BY <1>0, <1>2, <1>4 DEF OpenInv, Writes
  <2>3. \A q \in Procs, n \in Names : src'[q] # 0 /\ src'[q] = ino'[n] => n = key[q]
    BY <1>0, <1>3, <1>4 DEF OpenInv
  <2>4. \A q, r \in Procs : src'[q] # 0 /\ src'[q] = src'[r] => key[q] = key[r]
    BY <1>0, <1>3, <1>4 DEF OpenInv
  <2> QED
    BY <1>1, <2>1, <2>2, <2>3, <2>4 DEF OpenInv
<1>9. ino'[GlobalLock] = ino[GlobalLock]
  BY <1>2, <1>4, Constants
<1>10. \A q \in Procs : Sound(q)' <=> Sound(q)
  BY <1>1, <1>9 DEF Sound
<1>11. WriteInv'
  <2> SUFFICES ASSUME NEW q \in Procs, Sound(q), key[q] \notin loose', pc'[q] \in Writes
               PROVE  /\ pc'[q] = "s_write" => data'[src'[q]] = Empty
                      /\ pc'[q] = "s_more" => data'[src'[q]] = Part(q)
    BY <1>1, <1>10 DEF WriteInv, Writes, Part, Empty
  <2>1. CASE q = p
    BY <1>4, <2>1
  <2>2. CASE q # p
    <3>1. pc[q] \in Writes /\ src[q] # 0 /\ Storing(q) /\ Storing(p)
      BY <1>0, <1>1, <1>4, <2>2 DEF OpenInv, Writes, Storing
    <3>2. ~Sound(p) \/ q = p
      BY <1>0, <3>1, OneStores DEF GlobalLockExcludes
    <3>3. src[q] # i
      BY <1>3, <1>5, <2>2, <3>2
    <3> QED
      BY <1>0, <1>4, <1>5, <2>2, <3>1, <3>3 DEF WriteInv
  <2> QED
    BY <2>1, <2>2
<1>12. KeptWhole'
  <2> SUFFICES ASSUME NEW l \in Keys, l \notin loose', ino'[l] # 0
               PROVE  /\ data'[ino'[l]] # Mixed
                      /\ \/ \E q \in Procs : data'[ino'[l]] = Whole(q)
                         \/ l \in cut \/ \E q \in Procs : pc'[q] \in Writes /\ src'[q] = ino'[l]
    BY <1>1 DEF KeptWhole, BeingWritten, Writing, Writes, Mixed, Whole
  <2>1. CASE l = k
    BY <1>4, <2>1, ContentFacts DEF Writes
  <2>2. CASE l # k
    <3>1. l \in Names /\ ino'[l] = ino[l] /\ data'[ino[l]] = data[ino[l]] /\ l \notin loose
      BY <1>3, <1>4, <1>5, <2>2, Constants
    <3>2. ASSUME NEW q \in Procs, Writing(q, ino[l])
          PROVE  pc'[q] \in Writes /\ src'[q] = ino'[l]
      BY <1>1, <1>4, <3>1, <3>2 DEF Writing, Writes
    <3> QED
      BY <1>0, <3>1, <3>2 DEF KeptWhole, BeingWritten
  <2> QED
    BY <2>1, <2>2
<1>13. ReadInv'
  <2> SUFFICES ASSUME NEW q \in Procs, q \notin torn', pc'[q] = "g_read"
               PROVE  /\ \E w \in Procs : seen[q] = Whole(w)
                      /\ data'[src'[q]] = seen[q]
                      /\ \A r \in Procs : ~(pc'[r] \in Writes /\ src'[r] = src'[q])
    BY <1>1 DEF ReadInv, Writing, Writes, Whole
  <2>1. q # p /\ pc[q] = "g_read" /\ q \notin torn /\ src[q] # i /\ src'[q] = src[q] /\ src[q] # 0
    BY <1>0, <1>1, <1>4 DEF OpenInv
  <2>2. data'[src[q]] = data[src[q]]
    BY <1>4, <2>1
  <2>3. \A r \in Procs : ~(pc'[r] \in Writes /\ src'[r] = src[q])
    BY <1>0, <1>4, <2>1 DEF ReadInv, Writing, Writes
  <2> QED
    BY <1>0, <2>1, <2>2, <2>3 DEF ReadInv
<1>14. ServedWhole'
  BY <1>0, <1>1 DEF ServedWhole
<1> QED
  BY <1>6, <1>7, <1>8, <1>11, <1>12, <1>13, <1>14 DEF IInv, FileInv

(* A job writes to the file it has open, and goes on or is done: c is what    *)
(* the file holds after that.                                                 *)
LEMMA GrowStep ==
  ASSUME IInv, TypeOK', LockInv', NEW p \in Procs, NEW c \in Contents,
         pc[p] \in Writes, pc'[p] \notin {"g_read", "s_write"},
         \A q \in Procs : q # p => /\ pc'[q] = pc[q] /\ src'[q] = src[q]
                                   /\ fd'[q] = fd[q] /\ holds'[q] = holds[q],
         data' = [data EXCEPT ![src[p]] = c],
         UNCHANGED <<ino, key, seen, ans, torn>>,
         Loosens(p),
         pc'[p] = "s_more" => src'[p] = src[p] /\ (Sound(p)' => Sound(p)),
         pc'[p] # "s_more" => src'[p] = 0,
         \A l \in Keys : l # key[p] \/ src[p] # ino[l] => (l \in cut' <=> l \in cut),
         Sound(p) /\ key[p] \notin loose =>
           /\ c # Mixed
           /\ (\E w \in Procs : c = Whole(w)) \/ pc'[p] = "s_more"
           /\ pc'[p] = "s_more" => c = Part(p)
  PROVE  IInv'
<1>0. TypeOK /\ LockInv /\ OpenInv /\ WriteInv /\ KeptWhole /\ ReadInv /\ ServedWhole
  BY DEF IInv, FileInv
<1> DEFINE i == src[p]
<1>1. /\ i \in Inodes /\ i # 0
      /\ data'[i] = c /\ \A j \in Inodes : j # i => data'[j] = data[j]
      /\ \A q \in Procs : src[q] = i => key[q] = key[p]
      /\ \A n \in Names : ino[n] = i => n = key[p]
      /\ \A q \in Procs : src[q] \in Inodes \cup {0}
      /\ \A n \in Names : ino[n] \in Inodes \cup {0}
      /\ key[p] \in Keys /\ Keys \subseteq Names
  <2>1. i \in Inodes /\ i # 0
    BY <1>0 DEF TypeOK, OpenInv
  <2> QED
    BY <1>0, <2>1, Constants DEF TypeOK, OpenInv
<1> HIDE DEF i
<1>2. loose \subseteq loose' /\ (~Sound(p) => key[p] \in loose')
  BY DEF Loosens
<1>3. OpenInv'
  <2>1. \A q \in Procs : src'[q] # 0 <=> pc'[q] \in {"g_read"} \cup Writes
    BY <1>0, <1>1 DEF OpenInv, Writes, i
  <2>2. \A q \in Procs : src'[q] \in {0, src[q]}
    BY DEF Writes
  <2> QED
    BY <1>0, <2>1, <2>2 DEF OpenInv
<1>4. WriteInv'
  <2> SUFFICES ASSUME NEW q \in Procs, Sound(q)', key[q] \notin loose', pc'[q] \in Writes
               PROVE  /\ pc'[q] = "s_write" => data'[src'[q]] = Empty
                      /\ pc'[q] = "s_more" => data'[src'[q]] = Part(q)
    BY DEF WriteInv, Writes, Part, Empty
  <2>1. CASE q = p
    BY <1>1, <1>2, <2>1 DEF Writes, i
  <2>2. CASE q # p
    <3>1. /\ pc[q] \in Writes /\ src[q] # 0 /\ Storing(q) /\ Storing(p) /\ Sound(q)
          /\ src'[q] = src[q]
      BY <1>0, <2>2 DEF OpenInv, Writes, Storing, Sound
    <3>2. ~Sound(p)
      BY <1>0, <2>2, <3>1, OneStores DEF GlobalLockExcludes
    <3>3. src[q] # i
      BY <1>1, <1>2, <3>2
    <3>4. data'[src[q]] = data[src[q]] /\ key[q] \notin loose
      BY <1>1, <1>2, <3>1, <3>3
    <3> QED
      BY <1>0, <2>2, <3>1, <3>4 DEF WriteInv
  <2> QED
    BY <2>1, <2>2
<1>5. KeptWhole'
  <2> SUFFICES ASSUME NEW l \in Keys, l \notin loose', ino[l] # 0
               PROVE  /\ data'[ino[l]] # Mixed
                      /\ \/ \E q \in Procs : data'[ino[l]] = Whole(q)
                         \/ l \in cut' \/ \E q \in Procs : pc'[q] \in Writes /\ src'[q] = ino[l]
    BY DEF KeptWhole, BeingWritten, Writing, Writes, Mixed, Whole
  <2>1. CASE ino[l] = i
    <3>1. l = key[p] /\ Sound(p) /\ key[p] \notin loose
      BY <1>1, <1>2, <2>1
    <3> QED
      BY <1>1, <2>1, <3>1 DEF Writes, i
  <2>2. CASE ino[l] # i
    <3>1. data'[ino[l]] = data[ino[l]] /\ l \notin loose /\ (l \in cut' <=> l \in cut)
      BY <1>1, <1>2, <2>2 DEF i
    <3>2. ASSUME NEW q \in Procs, Writing(q, ino[l])
          PROVE  pc'[q] \in Writes /\ src'[q] = ino[l]
      BY <2>2, <3>2 DEF Writing, Writes, i
    <3> QED
      BY <1>0, <3>1, <3>2 DEF KeptWhole, BeingWritten
  <2> QED
    BY <2>1, <2>2
<1>6. ReadInv'
  <2> SUFFICES ASSUME NEW q \in Procs, q \notin torn, pc'[q] = "g_read"
               PROVE  /\ \E w \in Procs : seen[q] = Whole(w)
                      /\ data'[src'[q]] = seen[q]
                      /\ \A r \in Procs : ~(pc'[r] \in Writes /\ src'[r] = src'[q])
    BY DEF ReadInv, Writing, Writes, Whole
  <2>1. q # p /\ pc[q] = "g_read" /\ src'[q] = src[q] /\ src[q] # 0
    BY <1>0 DEF OpenInv
  <2>2. \A r \in Procs : ~(pc[r] \in Writes /\ src[r] = src[q])
    BY <1>0, <2>1 DEF ReadInv, Writing, Writes
  <2>3. src[q] # i /\ data'[src[q]] = data[src[q]]
    BY <1>1, <2>1, <2>2 DEF i
  <2>4. \A r \in Procs : ~(pc'[r] \in Writes /\ src'[r] = src[q])
    BY <2>1, <2>2 DEF Writes
  <2> QED
    BY <1>0, <2>1, <2>3, <2>4 DEF ReadInv
<1>7. ServedWhole'
  BY <1>0 DEF ServedWhole
<1> QED
  BY <1>3, <1>4, <1>5, <1>6, <1>7 DEF IInv, FileInv

LEMMA WriteStep ==
  ASSUME IInv, NEW p \in Procs, SetWrite(p)
  PROVE  IInv'
<1> USE DEF locks
<1>0. TypeOK /\ LockInv /\ WriteInv
  BY DEF IInv, FileInv
<1> DEFINE c == IF data[src[p]] = Empty THEN Part(p) ELSE Mixed
<1>1. /\ pc[p] = "s_write" /\ pc' = [pc EXCEPT ![p] = "s_more"]
      /\ data' = [data EXCEPT ![src[p]] = c] /\ Loosens(p)
      /\ UNCHANGED <<ino, key, fd, holds, src, seen, tries, front, ans, cut, torn, faults>>
  BY DEF SetWrite, Go
<1>2. c \in Contents /\ Part(p) # Mixed
  BY ContentFacts
<1>3. Sound(p) /\ key[p] \notin loose => c = Part(p)
  BY <1>0, <1>1 DEF WriteInv
<1> HIDE DEF c
<1>4. TypeOK' /\ LockInv'
  <2>1. loose' \in SUBSET Keys
    BY <1>0, <1>1 DEF Loosens, TypeOK
  <2>2. TypeOK'
    BY <1>0, <1>1, <1>2, <2>1 DEF TypeOK, SetLabels
  <2>3. LockInv'
    BY <1>0, <1>1 DEF TypeOK, LockInv, Lockless, Closed, Storing
  <2> QED
    BY <2>2, <2>3
<1>5. pc'[p] = "s_more" /\ \A q \in Procs : q # p => pc'[q] = pc[q]
  BY <1>0, <1>1 DEF TypeOK
<1>6. Sound(p)' => Sound(p)
  BY <1>1 DEF Sound
<1> QED
  BY <1>1, <1>2, <1>3, <1>4, <1>5, <1>6, GrowStep DEF Writes

LEMMA CloseStep ==
  ASSUME IInv, NEW p \in Procs, SetClose(p)
  PROVE  IInv'
<1>0. TypeOK /\ LockInv /\ WriteInv
  BY DEF IInv, FileInv
<1> DEFINE c == IF data[src[p]] = Part(p) THEN Whole(p) ELSE Mixed
<1>1. /\ pc[p] = "s_more" /\ pc' = [pc EXCEPT ![p] = "idle"]
      /\ data' = [data EXCEPT ![src[p]] = c] /\ Loosens(p)
      /\ cut' = IF src[p] = ino[key[p]] THEN cut \ {key[p]} ELSE cut
      /\ src' = [src EXCEPT ![p] = 0] /\ Release(p)
      /\ UNCHANGED <<ino, key, seen, front, ans, torn, faults>>
  BY DEF SetClose, Go
<1>2. c \in Contents /\ Whole(p) # Mixed
  BY ContentFacts
<1>3. Sound(p) /\ key[p] \notin loose => c = Whole(p)
  BY <1>0, <1>1 DEF WriteInv
<1> HIDE DEF c
<1>4. /\ pc'[p] = "idle" /\ src'[p] = 0
      /\ \A q \in Procs : q # p => pc'[q] = pc[q] /\ src'[q] = src[q]
  BY <1>0, <1>1 DEF TypeOK
<1>5. TypeOK' /\ LockInv'
  <2>1. loose' \in SUBSET Keys /\ cut' \in SUBSET Keys
    BY <1>0, <1>1 DEF Loosens, TypeOK
  <2>2. /\ LockInv'
        /\ fd' \in [Procs -> Inodes \cup {0}] /\ holds' \in [Procs -> BOOLEAN]
        /\ tries' \in [Procs -> 0 .. MaxTries]
    BY <1>0, <1>1, <1>4, Released
  <2> QED
    BY <1>0, <1>1, <1>2, <2>1, <2>2 DEF TypeOK
<1>6. \A q \in Procs : q # p => fd'[q] = fd[q] /\ holds'[q] = holds[q]
  BY <1>0, <1>1 DEF Release, TypeOK
<1>7. \A l \in Keys : l # key[p] \/ src[p] # ino[l] => (l \in cut' <=> l \in cut)
  BY <1>1
<1> QED
  BY <1>1, <1>2, <1>3, <1>4, <1>5, <1>6, <1>7, GrowStep DEF Writes

\* A full disk and a killed job: the key of a job that was writing is cut.
LEMMA StopStep ==
  ASSUME IInv, NEW p \in Procs, SetShort(p) \/ Crash(p)
  PROVE  IInv'
<1> USE DEF files
<1>0. TypeOK /\ LockInv /\ OpenInv /\ WriteInv /\ KeptWhole /\ ReadInv /\ ServedWhole
  BY DEF IInv, FileInv
<1>1. /\ \E l \in {"idle", "start"} : pc' = [pc EXCEPT ![p] = l]
      /\ src' = [src EXCEPT ![p] = 0] /\ Cuts(p) /\ Release(p) /\ Fault
      /\ seen' = seen \/ seen' = [seen EXCEPT ![p] = Empty]
      /\ ans' = ans \/ ans' = [ans EXCEPT ![p] = "none"]
      /\ front' = front \/ front' = [front EXCEPT ![p] = NoFile]
      /\ UNCHANGED <<ino, data, key, loose, torn>>
  BY DEF SetShort, Crash, Go
<1>2. /\ pc'[p] \in {"idle", "start"} /\ src'[p] = 0 /\ ans'[p] \in {ans[p], "none"}
      /\ \A q \in Procs : q # p => /\ pc'[q] = pc[q] /\ src'[q] = src[q]
                                   /\ seen'[q] = seen[q] /\ ans'[q] = ans[q]
  BY <1>0, <1>1 DEF TypeOK
<1>3. /\ LockInv' /\ \A q \in Procs \ {p} : fd'[q] = fd[q]
      /\ fd' \in [Procs -> Inodes \cup {0}] /\ holds' \in [Procs -> BOOLEAN]
      /\ tries' \in [Procs -> 0 .. MaxTries]
  BY <1>0, <1>1, <1>2, Released
<1>4. TypeOK'
  <2>1. pc' \in [Procs -> Labels] /\ src' \in [Procs -> Inodes \cup {0}] /\ cut' \in SUBSET Keys
    BY <1>0, <1>1 DEF TypeOK, Labels, Cuts
  <2>2. seen' \in [Procs -> Contents]
    BY <1>0, <1>1, ContentFacts DEF TypeOK
  <2>3. ans' \in [Procs -> {"none", "db", "whole", "part", "garbage"}]
    BY <1>0, <1>1 DEF TypeOK
  <2>4. front' \in [Procs -> [name : Names, len : 0 .. 2]]
    <3>1. NoFile \in [name : Names, len : 0 .. 2]
      BY Constants DEF NoFile
    <3> QED
      BY <1>0, <1>1, <3>1 DEF TypeOK
  <2>5. faults' \in 0 .. MaxFaults
    BY <1>0, <1>1, BoundsAssumption DEF Fault, TypeOK
  <2> QED
    BY <1>0, <1>1, <1>3, <2>1, <2>2, <2>3, <2>4, <2>5 DEF TypeOK, Labels
<1>5. OpenInv'
  BY <1>0, <1>1, <1>2 DEF OpenInv, Writes
<1>6. WriteInv'
  BY <1>0, <1>1, <1>2, <1>3 DEF WriteInv, Sound
<1>7. KeptWhole'
  <2> SUFFICES ASSUME NEW l \in Keys, l \notin loose, ino[l] # 0
               PROVE  /\ data[ino[l]] # Mixed
                      /\ \/ \E q \in Procs : data[ino[l]] = Whole(q)
                         \/ l \in cut' \/ \E q \in Procs : pc'[q] \in Writes /\ src'[q] = ino[l]
    BY <1>1 DEF KeptWhole, BeingWritten, Writing, Writes, Mixed, Whole
  <2>1. cut \subseteq cut'
    BY <1>1 DEF Cuts
  <2>2. ASSUME Writing(p, ino[l]) PROVE l \in cut'
    <3>1. l \in Names /\ ino[l] \in Inodes /\ src[p] # 0 /\ src[p] = ino[l]
      BY <1>0, <2>2, Constants DEF TypeOK, Writing, OpenInv, Writes
    <3>2. l = key[p]
      BY <1>0, <3>1 DEF OpenInv
    <3> QED
      BY <1>1, <2>2, <3>1, <3>2 DEF Cuts
  <2>3. ASSUME NEW q \in Procs, q # p, Writing(q, ino[l])
        PROVE  pc'[q] \in Writes /\ src'[q] = ino[l]
    BY <1>2, <2>3 DEF Writing, Writes
  <2> QED
    BY <1>0, <2>1, <2>2, <2>3 DEF KeptWhole, BeingWritten
<1>8. ReadInv'
  BY <1>0, <1>1, <1>2 DEF ReadInv, Writing
<1>9. ServedWhole'
  BY <1>0, <1>1, <1>2 DEF ServedWhole
<1> QED
  BY <1>3, <1>4, <1>5, <1>6, <1>7, <1>8, <1>9 DEF IInv, FileInv
-----------------------------------------------------------------------------
LEMMA StepIInv == IInv /\ [Next]_vars => IInv'
<1> SUFFICES ASSUME IInv, [Next]_vars PROVE IInv'
  OBVIOUS
<1>1. ASSUME NEW p \in Procs, NEW k \in Keys, Query(p, k) PROVE IInv'
  BY <1>1, QueryStep
<1>2. ASSUME NEW p \in Procs, GetStep(p) PROVE IInv'
  BY <1>2, GetLockStep, GetSizeStep, GetReadStep DEF GetStep
<1>3. ASSUME NEW p \in Procs, SetStep(p) PROVE IInv'
  <2>1. CASE QueryDb(p) \/ SetDenied(p)
    BY <2>1, PlainStep
  <2>2. CASE OpenLock(p, "s_open", "s_flock")
    BY <2>2, OpenLockStep
  <2>3. CASE OpenLockFails(p, "s_open", "s_trunc")
    BY <2>3, PlainStep
  <2>4. CASE LockOpened(p, "s_flock", "s_trunc")
    BY <2>4, PlainStep
  <2>5. CASE LockBusy(p, "s_flock", "s_open", "idle")
    BY <2>5, PlainStep
  <2>6. CASE SetTruncate(p) \/ SetWrite(p) \/ SetClose(p) \/ SetShort(p)
    BY <2>6, TruncateStep, WriteStep, CloseStep, StopStep
  <2> QED
    BY <1>3, <2>1, <2>2, <2>3, <2>4, <2>5, <2>6 DEF SetStep
<1>4. ASSUME NEW p \in Procs, CleanStep(p) PROVE IInv'
  <2>1. CASE Start(p) \/ List(p)
    BY <2>1, PlainStep
  <2>2. CASE OpenLock(p, "c_open", "c_flock")
    BY <2>2, OpenLockStep
  <2>3. CASE OpenLockFails(p, "c_open", "c_list")
    BY <2>3, PlainStep
  <2>4. CASE LockOpened(p, "c_flock", "c_list")
    BY <2>4, PlainStep
  <2>5. CASE LockBusy(p, "c_flock", "c_open", "idle")
    BY <2>5, PlainStep
  <2>6. CASE Remove(p)
    BY <2>6, RemoveStep
  <2> QED
    BY <1>4, <2>1, <2>2, <2>3, <2>4, <2>5, <2>6 DEF CleanStep
<1>5. ASSUME NEW p \in Procs, Crash(p) PROVE IInv'
  BY <1>5, StopStep
<1>6. CASE UNCHANGED vars
  BY <1>6 DEF IInv, TypeOK, LockInv, FileInv, OpenInv, WriteInv, KeptWhole, ReadInv, ServedWhole,
              vars, files, locks, history, Storing, Sound, Writing, BeingWritten
<1> QED
  BY <1>1, <1>2, <1>3, <1>4, <1>5, <1>6 DEF Next, Step

LEMMA Invariance == Spec => []IInv
BY InitIInv, StepIInv, PTL DEF Spec

\* The type invariant, for any jobs, queries, faults and tries: a job that waits
\* for a lock tries no more often than its time allows.
THEOREM TypeCorrect == Spec => []TypeOK
<1>1. IInv => TypeOK
  BY DEF IInv
<1> QED
  BY <1>1, Invariance, PTL

\* Of the jobs that have the present global.lock open, one at most stores or
\* cleans, also when others could not open it, were killed, or removed it.
THEOREM ExclusionHolds == Spec => []GlobalLockExcludes
<1>1. IInv => GlobalLockExcludes
  BY OneStores DEF IInv
<1> QED
  BY <1>1, Invariance, PTL

\* The file of a query that no job wrote without the lock never mixes answers,
\* and is whole unless it is being written or its last writer was stopped.
THEOREM KeptWholeHolds == Spec => []KeptWhole
<1>1. IInv => KeptWhole
  BY DEF IInv, FileInv
<1> QED
  BY <1>1, Invariance, PTL

\* A file that is at rest when it is measured, and is not emptied before it is
\* read, is served in whole.
THEOREM ServedWholeHolds == Spec => []ServedWhole
<1>1. IInv => ServedWhole
  BY DEF IInv, FileInv
<1> QED
  BY <1>1, Invariance, PTL
=============================================================================
