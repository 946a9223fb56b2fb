---------------------------- MODULE MCThrMsgQueue ----------------------------
(* Instances of ThrMsgQueue for TLC.  Threads and messages are model values,  *)
(* UMod is small: any modulus above Max puts a wrapped index outside store[]. *)
EXTENDS ThrMsgQueue, TLC

ThreadSymmetry == Permutations(Threads)
QueueSymmetry == Permutations(Threads) \cup Permutations(Msgs)
=============================================================================
