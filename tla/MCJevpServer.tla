---------------------------- MODULE MCJevpServer -----------------------------
(* Instances of JevpServer for TLC: two builders, files and a live stream.    *)
(* The stream gives the end of each run; a file holds one run.                *)
EXTENDS JevpServer, TLC

CONSTANTS live, fileA, fileB

MCBuilders == <<"base", "trg">>
NoDaqFiles == <<>>
MCDaqFiles == <<fileA, fileB, live>>
TwoDaqFiles == <<fileA, fileB>>

(* Two files of a run each, then a stream with an end of run before its first *)
(* event, a read error, and a second end.                                     *)
MCContent == (fileA :> <<1, 1>> @@ fileB :> <<2>> @@ live :> <<Eor, 3, Bad, 3, Eor, Eor>>)
\* A run above -maxevts and one after it.
LongContent == (live :> <<1, 1, 1, Eor, 2, Eor>>)
\* Two files of one run.
SameRunContent == (fileA :> <<1, 1>> @@ fileB :> <<1>>)
=============================================================================
