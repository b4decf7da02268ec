------------------------------ MODULE BidQueue -------------------------------
(***************************************************************************)
(* What whoever asks for a bid preparation may count on (job.py,           *)
(* preparation.py): preparations are run one at a time, in the order they  *)
(* were asked for; a case has one open per phase; and each ends once.      *)
(***************************************************************************)
EXTENDS Integers, Sequences

CONSTANTS Preps, CaseOf, PhaseOf

VARIABLES
  asked,    \* the preparations, in the order they were asked for
  status    \* none, queued, running, or how it ended

queue == <<asked, status>>

Final == {"ready", "failed", "budget_stopped", "interrupted", "connection_lost"}
Open(p) == status[p] \in {"queued", "running"}
SameWork(p, q) == CaseOf[p] = CaseOf[q] /\ PhaseOf[p] = PhaseOf[q]
Becomes(p, s) == status' = [status EXCEPT ![p] = s]

Ask(p) ==
  /\ status[p] = "none"
  /\ \A q \in Preps : SameWork(p, q) => ~Open(q)
  /\ PhaseOf[p] = "fill" =>
       \E q \in Preps :
         CaseOf[q] = CaseOf[p] /\ PhaseOf[q] = "read" /\ status[q] = "ready"
  /\ asked' = Append(asked, p)
  /\ Becomes(p, "queued")

\* Only the first that waits, and only while none is running.
Start(p) ==
  /\ \A q \in Preps : status[q] # "running"
  /\ status[p] = "queued"
  /\ \E i \in DOMAIN asked :
       asked[i] = p /\ \A j \in 1..(i - 1) : status[asked[j]] # "queued"
  /\ Becomes(p, "running")
  /\ UNCHANGED asked

End(p) ==
  /\ status[p] = "running"
  /\ \E result \in Final : Becomes(p, result)
  /\ UNCHANGED asked

Init == asked = <<>> /\ status = [p \in Preps |-> "none"]

Next == \E p \in Preps : Ask(p) \/ Start(p) \/ End(p)

Spec == Init /\ [][Next]_queue

-----------------------------------------------------------------------------
(* What follows *)

\* The variables have their types; each preparation was asked for once.
TypeOK ==
  /\ asked \in Seq(Preps)
  /\ status \in [Preps -> Final \cup {"none", "queued", "running"}]
  /\ \A i \in DOMAIN asked : status[asked[i]] # "none"
  /\ \A i, j \in DOMAIN asked : asked[i] = asked[j] => i = j

\* The lock of the sweeps is for this: single flight.
OneRuns == \A p, q \in Preps :
  status[p] = "running" /\ status[q] = "running" => p = q

\* A case never has two preparations of a phase open, though one becomes running
\* and ends outside the request that checks it (bid_preparation_one_open).
OneOpen == \A p, q \in Preps : SameWork(p, q) /\ Open(p) /\ Open(q) => p = q

\* A fill was asked for after its case's read was ready, and the read stays so.
FillHasItsRead ==
  \A p \in Preps : PhaseOf[p] = "fill" /\ status[p] # "none" =>
    \E q \in Preps :
      CaseOf[q] = CaseOf[p] /\ PhaseOf[q] = "read" /\ status[q] = "ready"

\* Nobody overtakes: one that waits has only those that wait behind it.
NobodyOvertakes ==
  \A i, j \in DOMAIN asked :
    i < j /\ status[asked[i]] = "queued" => status[asked[j]] = "queued"
=============================================================================
