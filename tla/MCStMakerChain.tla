--------------------------- MODULE MCStMakerChain ---------------------------
(* A top chain with an input chain, a detector chain and an output maker:     *)
(* top( input(reader, db), tpc(calib, hits), monitor, out ).                   *)
EXTENDS StMakerChain

CONSTANTS top, input, reader, db, tpc, calib, hits, monitor, out

MCMakers == {top, input, reader, db, tpc, calib, hits, monitor, out}
MCKids == [m \in MCMakers |->
             CASE m = top -> <<input, tpc, monitor, out>>
               [] m = input -> <<reader, db>>
               [] m = tpc -> <<calib, hits>>
               [] OTHER -> <<>>]
=============================================================================
