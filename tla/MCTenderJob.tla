---------------------------- MODULE MCTenderJob ----------------------------
(* Small instances of TenderJob: a case with its read and its fill, and a  *)
(* second case's read.                                                     *)
EXTENDS TenderJob, TLC

CONSTANTS p1, p2, p3, c1, c2

TwoCases == p1 :> c1 @@ p2 :> c1 @@ p3 :> c2
ReadFillRead == p1 :> "read" @@ p2 :> "fill" @@ p3 :> "read"
=============================================================================
