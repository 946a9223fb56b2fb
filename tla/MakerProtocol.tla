---------------------------- MODULE MakerProtocol ----------------------------
(* What the chain promises the author of a maker.  A maker is called only     *)
(* after it was initialised, at most once in an event, and within the run of  *)
(* the event: it is told the end of a run before the begin of the next, and   *)
(* the begin before it is called.  Once the first maker is being finished     *)
(* none is called any more, and none is finished twice or within a run.       *)
CONSTANTS Makers, Inputs, Runs, NoRun, Before

VARIABLES phase,     \* phase[m]: "new", "ready", "finishing" or "finished"
          run,       \* run[m]: the run m is in
          eventRun,  \* the run of the event
          working,   \* the makers that are at work
          called     \* the makers called in this event

vars == <<phase, run, eventRun, working, called>>

Init == /\ phase = [m \in Makers |-> "new"]
        /\ run = [m \in Makers |-> NoRun]
        /\ eventRun = Before
        /\ working = {} /\ called = {}

Open == \A m \in Makers : phase[m] \in {"new", "ready"}

Initialise(m) ==
  /\ Open /\ phase[m] = "new"
  /\ phase' = [phase EXCEPT ![m] = "ready"]
  /\ UNCHANGED <<run, eventRun, working, called>>

NewEvent ==
  /\ Open /\ working = {}
  /\ called' = {}
  /\ UNCHANGED <<phase, run, eventRun, working>>

\* The turn of m comes: a run of earlier events is over.
Enter(m) ==
  /\ Open /\ phase[m] = "ready" /\ m \notin working \cup called
  /\ working' = working \cup {m}
  /\ run' = [run EXCEPT ![m] = IF @ \in Runs /\ @ # eventRun THEN NoRun ELSE @]
  /\ UNCHANGED <<phase, eventRun, called>>

BeginRun(m) ==
  /\ Open /\ m \in working \ called /\ run[m] \notin Runs
  /\ run' = [run EXCEPT ![m] = eventRun]
  /\ UNCHANGED <<phase, eventRun, working, called>>

Ready(m) == Open /\ m \in working \ called /\ run[m] = eventRun

\* m works on the event; an input may read one of another run.
Call(m) ==
  /\ Ready(m)
  /\ called' = called \cup {m}
  /\ working' \in {working, working \ {m}}
  /\ UNCHANGED <<phase, run, eventRun>>

Read(m, r) ==
  /\ Ready(m) /\ m \in Inputs
  /\ called' = called \cup {m} /\ eventRun' = r
  /\ UNCHANGED <<phase, run, working>>

Return(m) ==
  /\ Open /\ m \in working \cap called
  /\ working' = working \ {m}
  /\ UNCHANGED <<phase, run, eventRun, called>>

\* Finish, whatever is at work: m is in no run any more.
EndRun(m) ==
  /\ phase[m] \in {"new", "ready"}
  /\ \E r \in {run[m], NoRun} \ Runs : run' = [run EXCEPT ![m] = r]
  /\ UNCHANGED <<eventRun, working, called>>

BeginFinish(m) == EndRun(m) /\ phase' = [phase EXCEPT ![m] = "finishing"]

FinishAtOnce(m) == EndRun(m) /\ phase' = [phase EXCEPT ![m] = "finished"]

EndFinish(m) ==
  /\ phase[m] = "finishing" /\ phase' = [phase EXCEPT ![m] = "finished"]
  /\ UNCHANGED <<run, eventRun, working, called>>

Next ==
  \/ NewEvent
  \/ \E m \in Makers :
       \/ Initialise(m) \/ Enter(m) \/ BeginRun(m) \/ Call(m) \/ Return(m)
       \/ \E r \in Runs : Read(m, r)
       \/ BeginFinish(m) \/ FinishAtOnce(m) \/ EndFinish(m)

Spec == Init /\ [][Next]_vars
=============================================================================
