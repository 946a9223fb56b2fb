------------------------------ MODULE HyperCache ------------------------------
(* The file cache of the database library.  Jobs on one machine keep the      *)
(* answers to their database queries as files of one directory.  A job asks   *)
(* the cache first (StHyperCacheManager::get), then the database, and then    *)
(* stores the answer (set); a job whose configuration says start_empty cleans *)
(* the directory when it starts.  Nothing but the file system is shared:      *)
(* get takes an flock on the file it reads, set and the cleanup take one on   *)
(* the file global.lock, each for a limited time.  A file that cannot be      *)
(* opened to lock it counts as locked, and the job goes on without a lock.    *)
(*                                                                            *)
(* A file is an inode with its content: the answer of the job that stored it  *)
(* (the database may have changed between two of them), whole or as far as it *)
(* is written, or a mixture of two.  An inode that is open lives on when its  *)
(* name is gone.                                                              *)
EXTENDS Naturals, FiniteSets

CONSTANTS Procs,          \* jobs
          Keys,           \* queries, each with its cache file
          GlobalLock,     \* the name global.lock
          Nobody,         \* the writer of an empty or mixed file
          Policy,         \* Policy[p]: what p's cleanup does, "none" without start_empty
          MaxTries,       \* how often try_lock tries again: its time over that of a sleep
          MaxFaults       \* bound: opens that fail, writes cut short, jobs killed

ASSUME ProcsAssumption == IsFiniteSet(Procs) /\ Nobody \notin Procs
ASSUME KeysAssumption == IsFiniteSet(Keys) /\ GlobalLock \notin Keys
ASSUME PolicyAssumption == Policy \in [Procs -> {"none", "default", "fifo"}]
ASSUME BoundsAssumption == MaxTries \in Nat /\ MaxFaults \in Nat

VARIABLES
  ino,       \* ino[n]: the inode of file n, 0 when there is no such file
  data,      \* data[i]: the content of inode i
  pc, key,   \* what p does next; the query it is at
  fd, holds, \* inode that p opened to lock it, 0 when it could not; p has the lock
  src, seen, \* inode that p reads or writes; its content when p measured it
  tries,     \* failed tries of p's try_lock
  front,     \* the oldest file and its length when p's cleanup listed them
  ans,       \* the answer to p's last query
  cut,       \* history: keys whose last write was cut short
  loose,     \* history: keys written by a job without the present global.lock
  torn,      \* history: jobs whose query met a file that was not at rest
  faults     \* how many of them

Names == Keys \cup {GlobalLock}
Contents == [by : Procs \cup {Nobody}, len : 0 .. 2]
Empty == [by |-> Nobody, len |-> 0]
Mixed == [by |-> Nobody, len |-> 2]
Part(p) == [by |-> p, len |-> 1]
Whole(p) == [by |-> p, len |-> 2]
Inodes == 1 .. (Cardinality(Names) + 2 * Cardinality(Procs))

NoFile == [name |-> GlobalLock, len |-> 0]

files == <<ino, data>>
locks == <<fd, holds>>
history == <<cut, loose, torn, faults>>
vars == <<files, pc, key, locks, src, seen, tries, front, ans, history>>

GetLabels == {"g_flock", "g_size", "g_read"}
SetLabels == {"db", "s_open", "s_flock", "s_trunc", "s_write", "s_more"}
CleanLabels == {"c_open", "c_flock", "c_list", "c_rm"}

TypeOK ==
  /\ ino \in [Names -> Inodes \cup {0}]
  /\ data \in [Inodes -> Contents]
  /\ pc \in [Procs -> {"start", "idle"} \cup GetLabels \cup SetLabels \cup CleanLabels]
  /\ key \in [Procs -> Keys]
  /\ fd \in [Procs -> Inodes \cup {0}] /\ holds \in [Procs -> BOOLEAN]
  /\ src \in [Procs -> Inodes \cup {0}] /\ seen \in [Procs -> Contents]
  /\ tries \in [Procs -> 0 .. MaxTries]
  /\ front \in [Procs -> [name : Names, len : 0 .. 2]]
  /\ ans \in [Procs -> {"none", "db", "whole", "part", "garbage"}]
  /\ cut \in SUBSET Keys /\ loose \in SUBSET Keys /\ torn \in SUBSET Procs
  /\ faults \in 0 .. MaxFaults

Init ==
  /\ ino = [n \in Names |-> 0]
  /\ data = [i \in Inodes |-> Empty]
  /\ pc = [p \in Procs |-> "start"]
  /\ key \in [Procs -> Keys]
  /\ fd = [p \in Procs |-> 0] /\ holds = [p \in Procs |-> FALSE]
  /\ src = [p \in Procs |-> 0] /\ seen = [p \in Procs |-> Empty]
  /\ tries = [p \in Procs |-> 0]
  /\ front = [p \in Procs |-> NoFile]
  /\ ans = [p \in Procs |-> "none"]
  /\ cut = {} /\ loose = {} /\ torn = {} /\ faults = 0
-----------------------------------------------------------------------------
\* The file system and the lock

Go(p, from, to) == pc[p] = from /\ pc' = [pc EXCEPT ![p] = to]

(* One more fault: an open fails (the file is another user's, descriptors or  *)
(* the disk are used up), a write is cut short, a job is killed.              *)
Fault == faults < MaxFaults /\ faults' = faults + 1

\* A new inode takes a number that no name and no open descriptor has.
InUse == {ino[n] : n \in Names} \cup {fd[p] : p \in Procs} \cup {src[p] : p \in Procs}
NewInode == CHOOSE i \in Inodes \ InUse : TRUE

\* p has the file open that is global.lock now.
Sound(p) == fd[p] # 0 /\ fd[p] = ino[GlobalLock]

Writing(p, i) == pc[p] \in {"s_write", "s_more"} /\ src[p] = i
BeingWritten(k) == \E p \in Procs : Writing(p, ino[k])

\* Mutant: a lock that another has is taken for one's own.
UnlockedAlways(i) == TRUE

\* flock(i, LOCK_EX | LOCK_NB) succeeds.
Unlocked(i) == \A q \in Procs : ~(holds[q] /\ fd[q] = i)

Release(p) == /\ fd' = [fd EXCEPT ![p] = 0]
              /\ holds' = [holds EXCEPT ![p] = FALSE]
              /\ tries' = [tries EXCEPT ![p] = 0]

\* try_lock on global.lock: open with O_CREAT.
OpenLock(p, from, to) ==
  /\ Go(p, from, to)
  /\ LET i == IF ino[GlobalLock] = 0 THEN NewInode ELSE ino[GlobalLock] IN
       /\ fd' = [fd EXCEPT ![p] = i]
       /\ ino' = [ino EXCEPT ![GlobalLock] = i]
       /\ data' = IF ino[GlobalLock] = 0 THEN [data EXCEPT ![i] = Empty] ELSE data
  /\ UNCHANGED <<holds, key, src, seen, tries, front, ans, history>>

\* ... which fails: a negative descriptor is taken for a lock.
OpenLockFails(p, from, locked) ==
  /\ Go(p, from, locked)
  /\ Fault
  /\ UNCHANGED <<files, key, locks, src, seen, tries, front, ans, cut, loose, torn>>

\* ... then flock.
LockOpened(p, from, to) ==
  /\ Go(p, from, to)
  /\ Unlocked(fd[p])
  /\ holds' = [holds EXCEPT ![p] = TRUE]
  /\ UNCHANGED <<files, key, fd, src, seen, tries, front, ans, history>>

\* Mutant: the time that was waited is not counted.
LockBusyUncounted(p, from, again, fail) ==
  /\ pc[p] = from
  /\ ~Unlocked(fd[p])
  /\ fd' = [fd EXCEPT ![p] = 0]
  /\ pc' = [pc EXCEPT ![p] = again]
  /\ UNCHANGED <<tries, files, holds, key, src, seen, front, ans, history>>

\* Mutant: one try too many.
LockBusyTooLong(p, from, again, fail) ==
  /\ pc[p] = from
  /\ ~Unlocked(fd[p])
  /\ fd' = [fd EXCEPT ![p] = 0]
  /\ \/ /\ tries[p] <= MaxTries
        /\ tries' = [tries EXCEPT ![p] = @ + 1]
        /\ pc' = [pc EXCEPT ![p] = again]
     \/ /\ tries[p] > MaxTries
        /\ tries' = [tries EXCEPT ![p] = 0]
        /\ pc' = [pc EXCEPT ![p] = fail]
  /\ UNCHANGED <<files, holds, key, src, seen, front, ans, history>>

\* ... which fails: the descriptor is closed and, while time is left, reopened.
LockBusy(p, from, again, fail) ==
  /\ pc[p] = from
  /\ ~Unlocked(fd[p])
  /\ fd' = [fd EXCEPT ![p] = 0]
  /\ \/ /\ tries[p] < MaxTries
        /\ tries' = [tries EXCEPT ![p] = @ + 1]
        /\ pc' = [pc EXCEPT ![p] = again]
     \/ /\ tries[p] = MaxTries
        /\ tries' = [tries EXCEPT ![p] = 0]
        /\ pc' = [pc EXCEPT ![p] = fail]
  /\ UNCHANGED <<files, holds, key, src, seen, front, ans, history>>
-----------------------------------------------------------------------------
\* StHyperCacheFileLocal::get

\* ExecQuery: is there a file for the query?
Query(p, k) ==
  /\ Go(p, "idle", IF ino[k] = 0 THEN "db" ELSE "g_flock")
  /\ key' = [key EXCEPT ![p] = k]
  /\ ans' = [ans EXCEPT ![p] = "none"]
  /\ torn' = torn \ {p}
  /\ UNCHANGED <<files, locks, src, seen, tries, front, cut, loose, faults>>

(* The lock of the file that is read.  A file that cannot be opened, or is    *)
(* gone, counts as locked.                                                    *)
GetLock(p) ==
  LET i == ino[key[p]] IN
  /\ pc[p] = "g_flock"
  /\ \/ /\ i # 0 /\ Unlocked(i)
        /\ pc' = [pc EXCEPT ![p] = "g_size"]
        /\ fd' = [fd EXCEPT ![p] = i] /\ holds' = [holds EXCEPT ![p] = TRUE]
        /\ UNCHANGED <<tries, faults>>
     \/ /\ (i = 0 /\ UNCHANGED faults) \/ Fault
        /\ pc' = [pc EXCEPT ![p] = "g_size"]
        /\ UNCHANGED <<locks, tries>>
     \/ /\ i # 0 /\ ~Unlocked(i)
        /\ pc' = [pc EXCEPT ![p] = IF tries[p] < MaxTries THEN "g_flock" ELSE "db"]
        /\ tries' = [tries EXCEPT ![p] = IF @ < MaxTries THEN @ + 1 ELSE 0]
        /\ UNCHANGED <<locks, faults>>
  /\ UNCHANGED <<files, key, src, seen, front, ans, cut, loose, torn>>

\* The file of k is there, not being stored, and its last write was a whole one.
AtRest(k) == ino[k] # 0 /\ ~BeingWritten(k) /\ k \notin cut \cup loose

(* The file is opened once more to read it, and its end gives the size of the *)
(* buffer.  An empty file is no answer; one that is gone or cannot be opened  *)
(* has the size -1, and a buffer of no bytes is handed on.                    *)
GetSize(p) ==
  LET i == ino[key[p]] IN
  /\ \/ /\ i # 0 /\ data[i] # Empty
        /\ Go(p, "g_size", "g_read")
        /\ src' = [src EXCEPT ![p] = i] /\ seen' = [seen EXCEPT ![p] = data[i]]
        /\ torn' = IF AtRest(key[p]) THEN torn ELSE torn \cup {p}
        /\ UNCHANGED <<locks, tries, ans, faults>>
     \/ /\ i # 0 /\ data[i] = Empty
        /\ Go(p, "g_size", "db")
        /\ Release(p) /\ UNCHANGED <<src, seen, torn, ans, faults>>
     \/ /\ (i = 0 /\ UNCHANGED faults) \/ Fault
        /\ Go(p, "g_size", "idle")
        /\ ans' = [ans EXCEPT ![p] = "garbage"]
        /\ torn' = torn \cup {p}
        /\ Release(p) /\ UNCHANGED <<src, seen>>
  /\ UNCHANGED <<files, key, front, cut, loose>>

(* What is parsed when the file had content s for its size and c for its      *)
(* bytes.  Two answers of two jobs may have two lengths.                      *)
Parsed(s, c) == IF c.len < s.len \/ c.by = Nobody THEN {"garbage"}
                ELSE IF s.len = 1 THEN {"part"}
                ELSE IF s = c THEN {"whole"}
                ELSE {"whole", "part", "garbage"}

(* The buffer is filled with what the file has by now and parsed.  The parser *)
(* keeps what came before an error, and its error is not looked at: part of   *)
(* an answer is an answer with fewer rows.                                    *)
GetRead(p) ==
  /\ Go(p, "g_read", "idle")
  /\ \E a \in Parsed(seen[p], data[src[p]]) : ans' = [ans EXCEPT ![p] = a]
  /\ src' = [src EXCEPT ![p] = 0] /\ seen' = [seen EXCEPT ![p] = Empty]
  /\ Release(p)
  /\ UNCHANGED <<files, key, front, history>>

GetStep(p) == GetLock(p) \/ GetSize(p) \/ GetRead(p)
-----------------------------------------------------------------------------
\* The database, and StHyperCacheFileLocal::set

\* The query fails, or its rows are stored before the first is handed out.
QueryDb(p) ==
  /\ pc[p] = "db"
  /\ \/ pc' = [pc EXCEPT ![p] = "idle"] /\ UNCHANGED ans
     \/ pc' = [pc EXCEPT ![p] = "s_open"] /\ ans' = [ans EXCEPT ![p] = "db"]
  /\ UNCHANGED <<files, key, locks, src, seen, tries, front, history>>

\* History: p, which may not have the lock, changes the file of its query.
Loosens(p) == loose' = IF Sound(p) THEN loose ELSE loose \cup {key[p]}

\* The file is opened for output, which empties it, also under its readers.
SetTruncate(p) ==
  LET k == key[p]
      i == IF ino[k] = 0 THEN NewInode ELSE ino[k] IN
  /\ Go(p, "s_trunc", "s_write")
  /\ ino' = [ino EXCEPT ![k] = i]
  /\ data' = [data EXCEPT ![i] = Empty]
  /\ src' = [src EXCEPT ![p] = i]
  /\ Loosens(p)
  /\ torn' = torn \cup {q \in Procs : pc[q] = "g_read" /\ src[q] = i}
  /\ UNCHANGED <<key, locks, seen, tries, front, ans, cut, faults>>

\* ... or cannot be opened: write and close do nothing, and nobody looks.
SetDenied(p) ==
  /\ Go(p, "s_trunc", "idle")
  /\ Fault
  /\ Release(p)
  /\ UNCHANGED <<files, key, src, seen, front, ans, cut, loose, torn>>

(* write and close: the file grows in steps.  What another job wrote there    *)
(* since it was opened is not cut off.                                        *)
SetWrite(p) ==
  /\ Go(p, "s_write", "s_more")
  /\ data' = [data EXCEPT ![src[p]] = IF @ = Empty THEN Part(p) ELSE Mixed]
  /\ Loosens(p)
  /\ UNCHANGED <<ino, key, locks, src, seen, tries, front, ans, cut, torn, faults>>

\* The rest of it.
SetClose(p) ==
  /\ Go(p, "s_more", "idle")
  /\ data' = [data EXCEPT ![src[p]] = IF @ = Part(p) THEN Whole(p) ELSE Mixed]
  /\ cut' = IF src[p] = ino[key[p]] THEN cut \ {key[p]} ELSE cut
  /\ Loosens(p)
  /\ src' = [src EXCEPT ![p] = 0]
  /\ Release(p)
  /\ UNCHANGED <<ino, key, seen, front, ans, torn, faults>>

\* p, which may be writing, writes no more: what is written by then stays.
Cuts(p) == cut' = IF \E i \in Inodes : Writing(p, i) /\ i = ino[key[p]] THEN cut \cup {key[p]} ELSE cut

\* The disk is full.  Nobody looks at that either.
SetShort(p) ==
  /\ Go(p, "s_write", "idle") \/ Go(p, "s_more", "idle")
  /\ Fault
  /\ Cuts(p)
  /\ src' = [src EXCEPT ![p] = 0]
  /\ Release(p)
  /\ UNCHANGED <<files, key, seen, front, ans, loose, torn>>

SetStep(p) == \/ QueryDb(p)
              \/ OpenLock(p, "s_open", "s_flock")
              \/ OpenLockFails(p, "s_open", "s_trunc")
              \/ LockOpened(p, "s_flock", "s_trunc")
              \/ LockBusy(p, "s_flock", "s_open", "idle")
              \/ SetTruncate(p) \/ SetDenied(p)
              \/ SetWrite(p) \/ SetClose(p) \/ SetShort(p)
-----------------------------------------------------------------------------
\* init and doCacheCleanup

\* Without start_empty, or while the disk has room, there is no cleanup.
Start(p) == /\ \/ Go(p, "start", "idle")
               \/ Policy[p] # "none" /\ Go(p, "start", "c_open")
            /\ UNCHANGED <<files, key, locks, src, seen, tries, front, ans, history>>

(* remove_dir_recursive asks for each file's lock with a time of zero, does   *)
(* not get it, and removes nothing.  remove_dir_fifo sorts the files by age,  *)
(* in whole seconds, so any may come first, and stops here when the disk has  *)
(* room by now.                                                               *)
List(p) ==
  /\ \/ /\ Go(p, "c_list", "idle")
        /\ Release(p) /\ UNCHANGED front
     \/ /\ Policy[p] = "fifo"
        /\ Go(p, "c_list", "c_rm")
        /\ \E n \in Names : /\ ino[n] # 0
                            /\ front' = [front EXCEPT ![p] = [name |-> n, len |-> data[ino[n]].len]]
        /\ UNCHANGED <<locks, tries>>
  /\ UNCHANGED <<files, key, src, seen, ans, history>>

(* The loop removes the oldest file and counts its length, again and again,   *)
(* until the sum is large enough: never, for an empty file.                   *)
Remove(p) ==
  /\ pc[p] = "c_rm"
  /\ ino' = [ino EXCEPT ![front[p].name] = 0]
  /\ \/ pc' = pc /\ UNCHANGED <<locks, tries, front>>
     \/ /\ front[p].len > 0
        /\ pc' = [pc EXCEPT ![p] = "idle"]
        /\ front' = [front EXCEPT ![p] = NoFile]
        /\ Release(p)
  /\ UNCHANGED <<data, key, src, seen, ans, history>>

CleanStep(p) == \/ Start(p)
                \/ OpenLock(p, "c_open", "c_flock")
                \/ OpenLockFails(p, "c_open", "c_list")
                \/ LockOpened(p, "c_flock", "c_list")
                \/ LockBusy(p, "c_flock", "c_open", "idle")
                \/ List(p) \/ Remove(p)
-----------------------------------------------------------------------------
\* The job is killed; its descriptors are closed.  Another takes its place.
Crash(p) ==
  /\ pc[p] # "start"
  /\ Fault
  /\ pc' = [pc EXCEPT ![p] = "start"]
  /\ Cuts(p)
  /\ Release(p)
  /\ src' = [src EXCEPT ![p] = 0] /\ seen' = [seen EXCEPT ![p] = Empty]
  /\ ans' = [ans EXCEPT ![p] = "none"] /\ front' = [front EXCEPT ![p] = NoFile]
  /\ UNCHANGED <<files, key, loose, torn>>

Step(p) == GetStep(p) \/ SetStep(p) \/ CleanStep(p)

Next == \E p \in Procs : Step(p) \/ Crash(p) \/ \E k \in Keys : Query(p, k)

Spec == Init /\ [][Next]_vars

\* Jobs that are inside a call are scheduled.
FairSpec == Spec /\ \A p \in Procs : WF_vars(Step(p))
-----------------------------------------------------------------------------
Storing(p) == pc[p] \in {"s_trunc", "s_write", "s_more", "c_list", "c_rm"}

(* "global lock on "add file"", "global lock on "cache cleanup"": of the jobs *)
(* that store or clean, one at most has the file that is global.lock now.     *)
(* Another beside it could not open the file, or had it before a cleanup      *)
(* removed it.                                                                *)
GlobalLockExcludes ==
  \A p, q \in Procs : Storing(p) /\ Storing(q) /\ Sound(p) /\ Sound(q) => p = q

(* The file of a query that no job wrote without the lock is one job's: two   *)
(* jobs that store it do not mix their answers, also when a third was killed  *)
(* while it stored.  It is whole, unless it is being stored or the last job   *)
(* that stored it was killed or ran out of disk; the next one makes it whole. *)
KeptWhole ==
  \A k \in Keys \ loose : ino[k] # 0 =>
    /\ data[ino[k]] # Mixed
    /\ \/ \E p \in Procs : data[ino[k]] = Whole(p)
       \/ k \in cut \/ BeingWritten(k)

(* A query of which the file is at rest when it is measured, and which nobody *)
(* begins to store before it is read, is answered in whole, whatever was      *)
(* stored, cut short, cleaned and killed before.                              *)
ServedWhole == \A p \in Procs \ torn : ans[p] \in {"none", "db", "whole"}

(* Every query gets its answer: no job waits for ever for another's lock.     *)
QueryReturns ==
  \A p \in Procs : pc[p] \in GetLabels \cup SetLabels ~> pc[p] \in {"idle", "start"}
=============================================================================
