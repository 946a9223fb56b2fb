----------------------------- MODULE MCHyperCache -----------------------------
(* Instances of HyperCache for TLC: two jobs that share a cache directory.    *)
EXTENDS HyperCache, TLC

CONSTANTS job1, job2

\* What the two jobs do when they start.
BothCleanups == job1 :> "default" @@ job2 :> "fifo"
=============================================================================
