--------------------------- MODULE MCDriveFiling ---------------------------
(* Small instances of DriveFiling: a case that the laptop archive began and *)
(* a new one, or two new cases.                                            *)
EXTENDS DriveFiling, TLC

CONSTANTS d1, d2, d3, c1, c2

TwoCases == d1 :> c1 @@ d2 :> c2
OldAndNew == d1 :> c1 @@ d2 :> c1 @@ d3 :> c2

\* The laptop archive filed the first revision of the case, or nothing.
Archived == <<CaseFolder(c1, "archive"), Revision(d1, "archive", 1)>>
Nothing == <<>>
=============================================================================
