----------------------------- MODULE MCDaqReader -----------------------------
(* Instances of DaqReader for TLC: every .daq file of up to four records, of  *)
(* which only the last may be cut off.                                        *)
EXTENDS DaqReader

CONSTANT Length

Inner == {"evt", "log", "endr", "pad", "hollow"}
AllFiles ==
  {f \in UNION {[1 .. n -> Inner \cup {"torn", "stub", "scrap"}] : n \in 0 .. Length} :
     \A i \in 1 .. Len(f) - 1 : f[i] \in Inner}
=============================================================================
