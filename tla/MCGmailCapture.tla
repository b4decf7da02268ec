--------------------------- MODULE MCGmailCapture ---------------------------
(***************************************************************************)
(* Small instances of GmailCapture for TLC.  A cfg gives every constant a  *)
(* value; the kinds of the messages, a function, are chosen among the ones *)
(* below.                                                                  *)
(***************************************************************************)
EXTENDS GmailCapture, TLC

CONSTANTS m1, m2, m3, r1, r2

OneBounce == m1 :> "bounce"
OnePlain == m1 :> "plain"
PlainAndBounce == m1 :> "plain" @@ m2 :> "bounce"
BulkBrokenOversize == m1 :> "bulk" @@ m2 :> "unparsable" @@ m3 :> "oversize"

RunSymmetry == Permutations(Runs)
=============================================================================
