# A TLA+ model of the STAR offline and online framework

The repository holds the software of the STAR experiment: the reader and the
decoders of its raw data (`StRoot/RTS`), the online plot server
(`OnlTools/Jevp`), the framework that runs reconstruction as a chain of makers
(`StRoot/StChain`), its database and logging libraries, and several hundred
packages of detector, simulation and analysis code. Most of the code is
numerical and sequential. This project models the parts whose correctness
depends on the order in which things happen: threads, messages between threads,
signals, files that follow each other, runs that begin and end, errors that end
part of the work, files that one process writes while another reads them, and
tables whose validity depends on the events that came before.

All source paths below are relative to `src/`.

## Inventory

| Part | State | Operations | What makes it hard | What makes it correct |
|---|---|---|---|---|
| Thread message queue (`StRoot/RTS/include/UNIX/ThreadsMsgQueue.hh`, `StaticSizedDQueue.hh`, `include/platform.h`) | ring `store`, `f`, `l`, `in`; semaphores `occupied`, `empty`; mutex `mp` | `send` with priority, `receive` (blocking or not), `peek`, `entries`, `free`; `pMsgQSend`, `pMsgQReceive` | any number of threads; counting, storing and posting are separate steps | a bounded FIFO; no lost wakeup; no admitted call refused |
| Jevp event handling (`OnlTools/Jevp/StJevpServer/JevpServer.cxx`) | the `daqReader`, `launchArgs`, run status, event counters, per builder flags and times, the socket between the two threads | get an event, hand it over, start and stop a run, next file, exit, launch, throttle, disable a builder after a fault | two threads share the reader without a lock, by a message protocol; a fault jumps out of a builder; clients interfere at any time | one thread at a time on the reader; every run written, once, complete; requests not lost |
| Jevp client requests (same file) | plots, display definitions, reference plots, tags | get and store plots, save reference plots | files and the database change while clients ask | a reference plot once saved can be fetched |
| Jevp connection monitor (`JTMonitor.cxx`) | list of sockets, round-robin position | add, remove, select | fixed arrays; sockets closed while waiting | every ready socket is served |
| Maker chain (`StRoot/StChain/StMaker.cxx`, `StChain.cxx`) | tree of makers, status bits, the last run of each maker, event header, counters | Init, InitRun, Make, FinishRun, Finish, Clear, event loop, SIGTERM handler | the run changes in the middle of an event; errors leave loops at several depths; the signal handler finishes the chain while it runs | InitRun and FinishRun pair up; a maker never sees an event of a run it was not told of; everything is finished |
| DAQ reader (`StRoot/RTS/src/DAQ_READER/daqReader.cxx`) | input type, position in the file, number and token of the last event, the request to the event pool, `status` | `get`, `skip_then_get` | a directory written while it is read; an event pool that answers late, or whose connection fails; files cut off or with padding | each event once, in order; nothing passed over unsaid; an end of run told once |
| I/O and tree makers (`StRoot/StIOMaker`, `StTreeMaker`) | current file and branch set | open, read, skip, close | files that end at different events | branches stay on the same event |
| Database maker (`StRoot/St_db_Maker`, `StDbBroker`) | per table the object in use and the interval it is kept for | `Make`, `GetDataBase`, `UpdateDB`, `UpdateValiSet` | two sources; events in any order of time; queries that fail; intervals that are cut off by the next object | what is in use is valid at the event's time, and the same whatever events came before |
| Database file cache (`StRoot/StDbLib/StHyperCache*`, `StHyperLock.cpp`, `StHyperUtilFilesystem.cpp`) | files of answers shared by the jobs of a machine, `global.lock` | `get`, `set`, cleanup | two processes, two kinds of lock with a limited time, jobs that are killed, full disks | one job stores at a time; an answer from the cache is a whole answer |
| Database library (`StRoot/StDbLib`, the rest) | connections, servers, query text | connect, retry, query | lost connections, load balancing | no partial result is taken as complete |
| Logger (`StRoot/StStarLogger`) | buffered messages, connection | append, flush, reconnect | the server is down for a while | messages kept in order and bounded |
| Makers of detectors, simulation, reconstruction and analysis; event classes; pams, asps, StarVMC, StDb; scripts | per package | numerical | little beyond what tests reach | physics |

How they interact: `daqReader` gives events to the plot server's reader thread
and to the input makers of a chain. The chain calls its makers; makers read the
header of the event, which an input maker fills, and tables of the database
maker. Every part logs. The message queue joins the threads of the data
acquisition programs; `platform.h` hides it behind `pMsgQSend` and
`pMsgQReceive`. The database maker asks the broker for the rows of a table; each
query goes through the file cache before it reaches a server.

## Modules

| Module | Models |
|---|---|
| `BoundedDeque` | the abstract bounded queue: one sequence; calls that begin, take effect at one instant, and return |
| `ThrMsgQueue` | the thread message queue in full, one step per access to shared state |
| `MCThrMsgQueue` | symmetry sets for TLC |
| `ThrMsgQueueProofs` | proofs about `ThrMsgQueue`, among them that it implements `BoundedDeque` |
| `JevpServer` | reader thread, server thread, launch requests |
| `MCJevpServer` | contents of streams and files for TLC |
| `JevpServerProofs` | proofs about `JevpServer` |
| `MakerProtocol` | the abstract protocol of a maker: what its author may rely on |
| `StMakerChain` | the maker tree, the event loop, SIGTERM |
| `MCStMakerChain` | a tree of nine makers for TLC |
| `StMakerChainProofs` | proofs about the runs of makers in `StMakerChain` |
| `StMakerChainCallsProofs` | proofs about its calls, its status bits, Finish, and who is called in an event |
| `MakerProtocolProofs` | proof that `StMakerChain` implements `MakerProtocol` |
| `DaqReader` | `daqReader::get` for a file, a directory being written, and the event pool |
| `MCDaqReader` | all files of up to four records for TLC |
| `DaqReaderProofs` | proofs about `DaqReader` |
| `HyperCache` | the file cache: `get`, `set`, cleanup, locks, opens that fail, crashes, full disk |
| `MCHyperCache` | two jobs with different cleanups for TLC |
| `HyperCacheProofs` | proofs about `HyperCache` |
| `DbValidity` | the object in use of one table and its interval |
| `MCDbValidity` | the module TLC runs |
| `DbValidityProofs` | proofs about `DbValidity` |

Definitions whose comment begins with "Mutant" are wrong variants of the one
below them. No specification uses them; each shows that a property would notice
the fault. `PROJECT.json` pairs them and gives the source lines of every
definition.

### ThrMsgQueue

A thread's `pc` says where it is inside a call: `s_wait` (waiting for `empty`),
`s_lock`, `s_in` (the count), `s_store`, `s_unlock`, `s_post`, and likewise for
`receive` and `peek`. `f`, `l`, `in` and `store` are the fields of `sdqueue`;
they are unsigned, so `Decremented` wraps modulo `UMod`, a small stand-in for
2^32. An access outside `store` sets `fault` and nothing more is claimed about
the ring. `checked` holds the threads inside `pMsgQSend` that have read `free()`
and gone on to `send`. The semaphores are POSIX semaphores: a wait takes one unit
when there is one and no order among waiters is assumed.

`BoundedDeque` is what a user of the queue may rely on. A call begins with its
arguments, takes effect on the sequence once, and returns: a send puts the message
it was called with behind the others, or before them when it was called with a
priority (`Prios`; with none, there is no prepend and the sequence is a FIFO), a
receive takes the front one out. The refinement takes as abstract queue the
messages between their store steps, since `in` runs ahead of the ring by one in
either direction while a thread is inside `insert` or `get`; `Doing` reads off the
`pc` of a thread which call it is in and whether that has had its effect.

### JevpServer

`rt` is the point of the reader thread in `JEVPSERVERreaderThread` and
`readerThreadWait`; `sv` that of the server thread: in the select loop, in the
loop over builders, or about to release the reader. `toServer` and `toReader`
are the two directions of the socket; at most one message is ever under way.
`daqReader` is a file and a position; `Content` says what reading gives. A file
that is read up gives an end of run again and again; a live stream gives
nothing. `launchArgs` is a pointer, and taking it is three steps as in the code:
open, free, clear. A builder's `_event` may take any time in `Costs` or fault;
a fault disables it and the loop goes on, as `sigsetjmp` does. `seen` counts the
events the reader announced per run; it is history, and lets the properties say
what a written file should hold.

### StMakerChain

`stack` holds the calls of Init, Make and Finish that loop over the makers of a
chain, the innermost first, so the recursion of the code is explicit and SIGTERM
can arrive between any two steps. `step` is what the innermost Make does with its
current maker: look at the run, `InitRun`, `Make`, or handle the value returned by
a nested chain. The maker's own code is a choice: an input maker may put another
run into the header, any maker may return any code of `Codes`. `bits` are the
status bits, `lastRun` is `m_LastRun`, `begun` and the variables below it are
history: which calls the makers were given. A maker that overrides no Finish is
assumed, so Finish of any maker calls FinishRun of the run in the header. The main program is
that of `StRoot/macros/bfc.C`: the header starts with run -2, Init, the event
loop, and Finish, which the destructor of the chain calls again. `Clear` is one
step; the tallies, timers and log lines are left out. What is below a chain at any
depth (`Below`, `Called`) is the least set closed under being a maker of a member;
written as a recursion it could not be reasoned about.

`MakerProtocol` knows nothing of the tree, of return codes or of signals. It says
of each maker in which phase it is (`phase`, read off `kInitEnd`, `kFiniBeg` and
`kFiniEnd`), in which run (`run`, the history `begun`), whether it is at work
(`working`, `kMakeBeg`) and whether it was called in this event (`called`), and in
which order these may change: no Make before Init, one Make per event, within the
run of the event; FinishRun of a real run before InitRun of another; no step of
Init or Make once a maker is being finished; Finish once, and out of any run. The
top chain is left out: it is given FinishRun and never InitRun, and Finish sets no
`kFiniBeg` for it. `RunsAlternate` is the part of the protocol about two runs; it
is a theorem, and TLC checks it as part of `ImplementsProtocol`.

### DaqReader

A file is a sequence of records; the SFS index under it is abstracted to what
`get` can tell apart: an event with or without a token, a directory without an
event (`log`), the end-of-run record, 8192 bytes of padding, a directory in
which the event is not found, and what a file may end with (an event or a header
cut off, or other bytes). `GetEvent` is the body of `get` for an open file: it
passes over logs, takes an event with the padding behind it, and gives `OK`,
`EOR` or `EVT` with the position where the next call begins. The three input
types share it. `GetFile(n)` is `skip_then_get`, with `n = 0` plain `get`; `Rounds`
is its loop.
`GetDir` opens event file `event_number + 1`, which `Write` may not have created,
filled or finished. `GetLive` asks the event pool: `requests` and `replies` are
the two directions of the connection, `LiveReconnect` loses both, and each call
without an answer asks once more because `issued` is reset by every `evtwait`.
`Write` and `Answer` are the event builder and EVP, which are not in the
repository; they are modelled from what the reader relies on. `got`, `skipped`,
`early` and `lost` are history: what was returned, skipped on request, opened
before it was whole, and offered but not had.

### HyperCache

The file system is names (`ino`) and inodes (`data`). An inode is open, locked or
named independently of each other, so a file may be removed while it is locked,
and a lock file recreated beside one that is held. `get` is three steps (lock the
file, measure it, read it); `set` is `OpenLock`, `LockOpened` or `LockBusy`,
`SetTruncate`, `SetWrite` and `SetClose`, so that the file is empty, a part and whole
in turn while a `get`, which locks another file, may look at it. `try_lock` opens,
tries, closes and opens again, `MaxTries` times; a descriptor below zero goes to the
branch that sets `mIsLocked`, so when `open` fails (`OpenLockFails`, and in `GetLock`)
the job goes on without a lock. A file holds nothing, a part or the whole of the
answer of one job, or a mixture of two. `Parsed` says what comes of a file with one
content when it was measured and another when it was read. `Crash` is a kill:
descriptors and their locks go, files stay. The cleanup by age sorts by whole
seconds, so any file may be the oldest.

Three histories say where the code promises nothing. `loose` are the keys that some
job wrote while it did not have the present `global.lock` open: it could not open
it, or a cleanup had removed it. `cut` are the keys whose last writer was killed or ran out of
disk; the next complete write takes a key out again. `torn` are the jobs whose query
met a file that was not at rest: being stored, `cut`, `loose`, gone, or emptied
between its measure and its read.

### DbValidity

One table, its rows and its files by the time at which they begin, and what
`StValiSet` keeps: the object in use, `timeMin`, `timeMax`, whether it is good
and whether it is used at all (`modified`). `UpdateValiSet` has one disjunct per
combination of row and file found; the broker's answer is `Row`, the directory's
`Left`. The object whose validity began later is used and its interval cut off
where the other source's object ends. An event without a time has `Unset`, the
code's 2033, which is below `MaxTime`, 2038: `Make` refuses it, `GetDataBase` does
not. The database is fixed for a job
(`fMaxEntryTime`); `Init` takes every set of rows, files and end times.

## Runs

All runs that pass explore the whole state space of their instance.

| Run | Question | Bounds, and why they are enough |
|---|---|---|
| `queue_safety` | Do semaphores and ring agree under every interleaving, and does a message reach a waiting receiver, a free slot a waiting sender? | three threads, so a send, a receive and a third party can overlap; two slots, the least with a wrap and a partly filled ring; both priorities |
| `queue_refine` | Is it one bounded FIFO, into which each send puts its own message once? | two message values tell order and duplication apart; ordinary priority, the only one `pMsgQSend` uses |
| `queue_prepend` | Is a high-priority send always inside the ring? No. | two slots |
| `jevp_runs` | Do the two threads ever touch the reader together or wait for each other? Is every run started, written complete, and before the next? Does `-die` end the process? Does throttling bound a builder? | two files and a stream, so there is a first, a middle and a last source; a read error, ends of run without events; two builders, events of cost 0 or 3 against a limit of 1, faults in both; a launch at any moment |
| `jevp_nextrun` | With `-maxevts` and without `-die`, does a later run start? No. | two runs, a maximum of 1 |
| `jevp_samerun` | Does `-die` end the process when two files hold one run? No. | two files of run 1 |
| `chain_runs` | Does each maker of a nested chain see its calls in the order of `MakerProtocol`, does an error cost only what it should, and is everything finished however the job ends? | nine makers in three chains, one inactive; three events, two runs, so that a run can change, change back, and an error can come between; OK, EOF and error codes (fatal acts as EOF, skip as error: the code looks at the value modulo 10) |
| `chain_finishrun` | Is FinishRun only given for a run the maker began? No. | the tree of `chain_runs`, two events |
| `daq_reads` | Does the client get each event once, in order, with its end of run, and does it come to the end? | every file of up to four records of nine kinds: an event, logs, padding below and above the limit (1 for the code's 5) and each way to end; three event files, so there is a first, a middle and a last; two requests under way, one answer without an event, one skip |
| `cache_shared` | Can one job spoil what another stores or reads? | two jobs and one query, as two queries share only `global.lock` (the proofs are for any number); one retry of a lock; two faults, each an open that fails, a full disk or a kill, so that one can hit either job or both; one job that cleans by age, one by default: 291,185 states |
| `db_objects` | Is what is in use valid at the event, the last of its source, and independent of the events before? | every set of rows, files and end times over four times, so an interval can lie before, around and behind another; an unset time with times beyond it; one failed query |
| `db_fresh` | Is a table without a row only absent until its first row begins? No. | rows at three times, events at two, no failed query |

Deadlock is not checked where the system may stop: all threads of the queue
waiting, the process ended, or a stream that has ended. It is checked in the
runs of the reader, the cache and the database maker, whose clients can always
call again.

### What the runs found

Each is an entry of `findings` in `PROJECT.json` with the quoted text.

* `sdqueue::prepend` tests an unsigned index for being negative; a high-priority
  send that meets the first element in slot 0 writes outside the array.
* Once `-maxevts` has stopped a run, no later run is started: `evtsInRun` stays
  above the limit.
* A second file of the same run is counted in the stopped run: no stop, no next
  file, and `-die` is not honoured.
* Finish ends the run of the header: a maker that a new run had not reached gets
  FinishRun of a run it never began.
* A table that is asked for at an event before its first row begins is not looked for
  again: the interval it gets ends in 2038, and an event after that row gets none.

The models hold more such behaviour than the runs state, and the properties
exempt it by name:

* queue: `pMsgQSend` reads `free()` without the lock and may wait on a full queue;
* plot server: `-maxevts` lets two more events through; a launch that arrives
  while the reader thread takes another one is freed unopened, and one that
  arrives while a file is at its end waits for ever; a stop leaves the builders'
  times, so events of the same run that still come meet throttled builders;
* chain: a privileged maker below an unprivileged chain leaves only that chain;
  without an `outMk` the event loop counts no failures;
* reader: a header cut off gives `EVT` for ever, never `EOR`; an event file opened
  before it is whole is counted and lost (`early`); so is an event that EVP offered
  before the connection failed or the directory was renamed (`lost`);
* cache: a job that cannot open `global.lock`, as when another user created it,
  stores without a lock, and so does one whose lock file a cleanup removed (`loose`);
  `get` may measure a part of a file that is being stored, or measure one content
  and read another, since it locks the file and `set` locks `global.lock` (`torn`);
  a file that `get` cannot open is taken for an answer of no bytes; a part
  written to a full disk, or by a job killed while writing, stays as the answer until
  the query is stored again (`cut`); the default cleanup removes nothing, as it asks
  for locks with a time of zero; the cleanup by age removes one file again and again
  and does not end when it is empty, and may remove `global.lock`, which it holds;
* database maker: an `endTime` column hides a row from new queries but does not end
  the interval that is kept; without a row the next file does not cut the interval
  off.

## Fairness

* Queue: weak fairness of each thread that is inside a call. Threads are
  scheduled by the system; whether they make another call is theirs to decide, so
  no fairness is assumed of a call's first step. The semaphores need not be
  served in order, so the liveness properties speak of some waiter and not of
  each.
* Jevp: weak fairness of the reader thread's and of the server thread's steps:
  two threads, each running a loop; `get` and a builder return. Clients are not
  fair. The server thread may take a client's request whenever it is in select;
  requests are bounded by `MaxLaunches`.
* Reader: the client calls `get` again, and the event builder writes on. EVP is not
  fair: an event it offered is had once it is in `replies`.
* Cache: weak fairness of each job's steps inside a call. Whether it makes another
  query is its own choice.
* Chain: weak fairness of the one thread: Make and Init return. Nothing forces a
  signal to arrive, as the loop ends without it.

## Proofs

Each specification has an inductive invariant `IInv`, checked by TLC on the
instance first and then proved to hold at the start and to be kept by every
action; the theorems follow from it.

* **ThrMsgQueueProofs**, for any finite set of threads, any depth and any
  messages and priorities: the type invariant; `LockInv`, that the mutex is held
  by the thread between lock and unlock; `SemaphoreInv`, that the
  semaphores and the threads inside a call account for every message and slot;
  from these `NeverRefused` and `NoLostWakeup`. The invariant is needed in one
  piece: a count step is never refused because the semaphores account for the
  ring, and they do because the mutex makes count and store one. Sets of threads
  by `pc` are counted, so the proof rests on lemmas about how a set's
  cardinality changes when one thread moves. `FirstInv` says that the first index
  is in the ring until an access outside it; with priority 0 only, no such
  access happens (`FifoNeverFaults`).
  The second part proves the refinement, `ImplementsDeque`: with the ordinary
  priority every step is one of `BoundedDeque` or none, so each call takes effect
  once, and a send with its own message. `IInv` says nothing of the
  order of the messages, so the invariant `DequeInv` adds that a thread inside send
  has a message and one outside it none (`ArgInv`) and that `l` is the slot behind the messages of the
  abstract queue (`RingInv`), which is what turns a store into an append. Lemmas say
  what a store, a prepend and a take do to the contents of a ring from `f` on.
  With both priorities the same steps hold up to the first access outside the ring
  (`DequeUntilFaultHolds`).
* **JevpServerProofs**, for any builders, files, options and number of launches:
  the type invariant; `HandshakeInv`, that exactly one of a message, its
  handling and its release exists while the reader waits; from it
  `RdrExclusive`; `BuildersSeeCurrentRun`, with `RunInv` saying that a
  message of an event comes with a run number; and `ThrottleBound`, which needs
  only the types to be inductive, for any limit and any times of the builders.
  `WrittenBeforeNext` holds when a source gives an end of run between the events of
  two runs (`RunsSeparated`, a hypothesis of the theorem that the instance
  satisfies). Its invariant, `RunKept`, says that while no client has launched and
  the files of the run are not written, the reader is still within that run and
  knows that an end is to be told.
* **StMakerChainProofs**, for any tree of makers (the assumption is that each is
  in one list at one place), any active, privileged and input makers, any codes
  and any number of events, with SIGTERM anywhere: `CurrentRunBegun` and
  `RunsAlternate`. The invariant says that in the loop a maker's run is the one
  its chain remembers, but for the moment between FinishRun and InitRun
  (`RememberedInv`), that at this moment the maker is in no real run
  (`EndedInv`), and that the maker about to be called has begun the run of the
  header (`ToldInv`).
* **StMakerChainCallsProofs**, for the same trees: `TypeOK`, `BitsMatchCalls`,
  `FinishOrder`, `HaltIsFinal` and `EveryActiveMade`. The first three rest on the
  shape of the stack (`LinkInv`): the calls of Make, and those of Finish on top of
  them, are of different makers, each was made by the next one for its current maker,
  and the outermost is that of the top chain. So the maker a call is at has no call of its
  own, which is what keeps `kMakeBeg` (`BegunInv`) and `kFiniEnd` (`FinishingInv`:
  a call of Finish has finished exactly the makers after its current one, a maker
  without such a call all of its makers or none) in step with the calls. That
  makers have one parent is the only assumption; the argument needs no induction
  over the tree. `HaltIsFinal` has an invariant of its own, that after the end of
  the job was returned the chains only return, with the same value. For
  `EveryActiveMade`, `EventInv` follows an event: every maker that was called is
  served (its active makers were called, or it is a chain left early), or its call is
  under way, and a call has called its active makers before the current one. When no
  call is left all are served, and a set closed in this way holds the least one.
  `ValueInv` says that an end of file or a fatal error on its way up has been noted
  in `halted`, which is the exemption of the property.
* **MakerProtocolProofs**: `ProtocolImplemented`, that every step of the chain is one
  of `MakerProtocol` or shows nothing of itself. `ProtocolInv` adds to the invariant
  above what the guards of the protocol ask: in the event loop all makers are
  initialised, which Init establishes from the first to the last, children before
  their chain (`InitedInv`); the current maker was not called in this event before its
  turn, nor any behind it, nor any below one that was not called (`OnceInv`);
  `kFiniBeg` is set exactly for the chains whose Finish is under way (`FiniBegInv`);
  and while the header has no run no maker is in one (`BeforeInv`). One lemma per
  action of the protocol says which steps of the chain take it. `FinishedAll` is the
  safety half of `EveryoneFinished`: a job that has ended has finished every maker.
  `MatchedWhenCalled` bounds what `chain_finishrun` finds: FinishRun is of another run
  than the maker began only in Finish, and only for a maker that was not called since
  the number in the header changed.
* **DaqReaderProofs**, for any files, any number of event files and any bounds:
  `TypeOK`, `NoEventPassedOver`, `OnceInOrder`, `EndIsTold` and `EorMeansAll`, that is
  every invariant of the run. Of a `.daq` file, `GetEventFacts` says what `get` leaves
  behind from any record on: one event or none, and `RoundsFacts` carries it through
  the loop of `skip_then_get`; both are minima of sets of numbers, as an induction
  would be out of the prover's reach. Of event files, the invariant says that those
  before the one being written are whole (`PoolInv`), that what EVP offered and the
  reader has not received comes after all it has, in order (`LiveInv`), and that an
  end of run not yet told is still in `token` and `event_number` (`EndInv`).
* **HyperCacheProofs**, for any jobs, queries, cleanups and tries, and any number of
  opens that fail, full disks and kills: `TypeOK`, `GlobalLockExcludes`, `KeptWhole`
  and `ServedWhole`. An flock excludes only those that have the same inode open
  (`LockInv`), so of the jobs that have the inode open that is `global.lock` now one
  stores (`OneStores`), and a job without it makes its key loose with its first
  change of the file. That no two names share an inode, and that a job reads and
  writes no file but that of its query (`OpenInv`), rests on a count of the inodes in
  use (`FreshInode`). Then a job that writes with the lock finds in the file what it
  wrote itself (`WriteInv`), and what a reader measured of a file at rest stays until
  someone empties it (`ReadInv`). `Looks` and `GrowStep` state once what the steps
  that only look and the steps that write have in common.
* **DbValidityProofs**, for any number of times, any rows, files and end times, and
  events in any order: `TypeOK`, `Current`, `LatestOfItsSource` and
  `AsIfFreshWhenComplete`. What holds at the event an object was fetched for is
  not enough, as later events trust the interval: the invariant says that the
  object is right for every time of the interval. That a source which begins at
  the beginning has a last object at any time is a minimum of a set of numbers,
  from the library's well-founded induction.

The assumptions are the named `ASSUME`s of the modules; TLC evaluates them in
every run. Three theorems have a hypothesis more: `WrittenHolds` has `RunsSeparated`,
and `FifoNeverFaults` and `ImplementsDeque` that 0 is the only priority, as it is for
`pMsgQSend`; without it both are false (`queue_prepend`).

Every invariant, action property and refinement of a run that passes is stated by a
theorem. Only model-checked are the liveness properties (`ReceiverWakes`,
`SenderWakes`, `ReaderReleased`, `DiesAtEnd`, `EveryRunWritten`, `EveryoneFinished`,
`ReadsToTheEnd`, `QueryReturns`): the prover has no rules for fairness and ENABLED.

## Not modelled

* `sdqueue::clear` and the destructors of the queue: `thrMsgQueue` leaves `clear`
  out on purpose, and nothing destroys a queue that is in use.
* The plot server's other requests, what its files hold, and its display
  definitions; signals other than faults of a builder; descriptors.
* `StMaker`'s data sets, aliases and attributes but `.Privilege`, makers added or
  switched on or off during the loop, `Skip`, and Finish called by a maker.
* Of the reader: events in memory, an event chosen by its number, the decoders of
  the detectors, and the bytes of the SFS format.
* Of the cache: `replace`, `remove` and `clear`, which nothing in the database
  library calls, the web-service engine, and the policy "lru", which differs from
  "fifo" in the time it sorts by.
* Of the database maker: `GetDataBase` with a time of the user, snapshots, the
  exemption of run-log tables, tables of several elements, and files that cannot be
  loaded. Of the database library: connections and the choice of a server.
* `StIOMaker` and `StTreeMaker`, the loggers, the other queues, the connection
  monitor: parts of their own, listed with the reason in `PROJECT.json`.
* The detector, simulation, reconstruction and analysis packages, the event
  classes, the imported Fortran and C packages and the scripts: numerical or
  sequential code, data definitions and configuration.

## Plan

Done: the queue, the event handling of the plot server, the chain, the reader, the
file cache, the database maker. What is left, the most useful first:

1. Compose `DaqReader` with `JevpServer` in place of `Content`: the end of a run as
   the reader really tells it, a header cut off, and a `-die` that waits for it.
2. `StIOMaker` and `StTreeMaker`: sequences of files and branches as input makers of
   `StMakerChain`; the abstract statement is that all branches deliver one event.
3. Reconnection in `StDbLib`: a query retried on another server after a lost
   connection, with a result that is never a part.
4. `LogAppender`: buffering while the server is away, bounded.

