------------------------------ MODULE TenderJob ------------------------------
(***************************************************************************)
(* Tender bid preparations (tender/job.py): a preparation is asked for in  *)
(* the API, claimed by the sweep that holds the session lock, and pays for *)
(* model calls under one monthly cap.  The cap is checked in one short     *)
(* transaction, the call runs outside any, and its usage is recorded in    *)
(* another; a sweep may lose its session, or its process, in between.      *)
(* Amounts are in units of money; one month.                               *)
(***************************************************************************)
EXTENDS Integers, Sequences, FiniteSets

CONSTANTS Preps, Cases,
          CaseOf, PhaseOf,  \* of each preparation
          Workers,          \* tender children; two of them overlap in a deploy
          Cap,              \* MONTHLY_CAP_USD
          Worst,            \* the worst case of one call
          Forms,            \* bound: forms a fill sends to the model
          Limit,            \* SWEEP_LIMIT
          MaxFaults         \* bound: lost sessions, killed processes

Nobody == "nobody"

ASSUME PrepAssumption ==
  /\ Preps # {}
  /\ CaseOf \in [Preps -> Cases] /\ PhaseOf \in [Preps -> {"read", "fill"}]
ASSUME WorkerAssumption == IsFiniteSet(Workers) /\ Nobody \notin Workers
ASSUME MoneyAssumption == Cap \in Nat /\ Worst \in Nat
ASSUME BoundAssumption ==
  Forms \in Nat /\ Limit \in Nat \ {0} /\ MaxFaults \in Nat

VARIABLES
  asked,     \* evidence.bid_preparation, by requested_at
  status,    \* of each row; a failed one with its failure_code
  covered,   \* rows with usage recorded since their claim
  recorded,  \* platform.model_usage: the month's sum
  lock,      \* the worker whose session holds LOCK_NAME
  pc, ran,   \* each worker: its place, the preparations of its sweep
  doing, step, cost, outcome,  \* its preparation, the calls answered, what
                               \* the present one costs, the status to write
  billed,    \* what the provider bills in truth
  open,      \* history: what the unsettled call of each row may cost
  leaked,    \* history: the worst case of calls given up without a charge
  faults

rows == <<asked, status, covered, recorded>>
job == <<doing, step, cost, outcome>>
truth == <<billed, open, leaked>>
vars == <<rows, lock, pc, ran, job, truth, faults>>

\* The failure codes that matter; every other failure is "failed".
Final == {"ready", "failed", "budget_stopped", "interrupted", "connection_lost"}

MaxCalls(p) == IF PhaseOf[p] = "read" THEN 2 ELSE Forms

Live(w) == lock = w
Running == {p \in Preps : status[p] = "running"}
Goto(w, place) == pc' = [pc EXCEPT ![w] = place]
Fault == faults < MaxFaults /\ faults' = faults + 1

\* The sweep is over: its local variables go.
AnyPrep == CHOOSE p \in Preps : TRUE
Quit(w) ==
  /\ Goto(w, "idle")
  /\ ran' = [ran EXCEPT ![w] = 0]
  /\ doing' = [doing EXCEPT ![w] = AnyPrep]
  /\ step' = [step EXCEPT ![w] = 0]
  /\ cost' = [cost EXCEPT ![w] = 0]
  /\ outcome' = [outcome EXCEPT ![w] = "failed"]

-----------------------------------------------------------------------------
(* The API: request_bid_preparation *)

\* bid_preparation_one_open: one queued or running row of a case and phase.
NoneOpen(p) ==
  \A q \in Preps : CaseOf[q] = CaseOf[p] /\ PhaseOf[q] = PhaseOf[p]
                     => status[q] \notin {"queued", "running"}

ReadIsReady(c) ==
  \E q \in Preps : CaseOf[q] = c /\ PhaseOf[q] = "read" /\ status[q] = "ready"

Ask(p) ==
  /\ status[p] = "none"
  /\ NoneOpen(p)
  /\ recorded < Cap
  /\ PhaseOf[p] = "fill" => ReadIsReady(CaseOf[p])
  /\ asked' = Append(asked, p)
  /\ status' = [status EXCEPT ![p] = "queued"]
  /\ UNCHANGED <<covered, recorded, lock, pc, ran, job, truth, faults>>

-----------------------------------------------------------------------------
(* One sweep: run_bid_sweep *)

TryLock(w) ==
  /\ pc[w] = "idle" /\ lock = Nobody
  /\ lock' = w
  /\ Goto(w, "recover")
  /\ UNCHANGED <<rows, ran, job, truth, faults>>

\* _INTERRUPTED: under the lock, no row that is running has a worker.
InterruptedUncovered == Running \ covered
Interrupted == Running

\* A running row without usage since its claim is charged one worst case.
Uncharged == Interrupted \ covered

Recover(w) ==
  /\ pc[w] = "recover" /\ Live(w)
  /\ status' = [p \in Preps |->
                  IF p \in Interrupted THEN "interrupted" ELSE status[p]]
  /\ recorded' = recorded + Worst * Cardinality(Uncharged)
  /\ covered' = covered \cup Uncharged
  /\ leaked' = leaked
       + Worst * Cardinality({p \in Interrupted \ Uncharged : open[p] > 0})
  /\ Goto(w, "claim")
  /\ UNCHANGED <<asked, lock, ran, job, billed, open, faults>>

\* The oldest queued row.
IsOldest(p) ==
  \E i \in DOMAIN asked :
    /\ asked[i] = p /\ status[p] = "queued"
    /\ \A j \in 1..(i - 1) : status[asked[j]] # "queued"

MayClaimMore(w) == ran[w] <= Limit
MayClaim(w) == ran[w] < Limit

\* _CLAIM and _START: both under the lock, by the same worker.
Claim(w) ==
  /\ pc[w] = "claim" /\ Live(w) /\ MayClaim(w)
  /\ \E p \in Preps :
       /\ IsOldest(p)
       /\ status' = [status EXCEPT ![p] = "running"]
       /\ doing' = [doing EXCEPT ![w] = p]
  /\ step' = [step EXCEPT ![w] = 0]
  /\ ran' = [ran EXCEPT ![w] = @ + 1]
  /\ Goto(w, "work")
  /\ UNCHANGED <<asked, covered, recorded, lock, cost, outcome, truth, faults>>

\* Nothing is left to claim, or the sweep has run its share: unlock.
EndSweep(w) ==
  /\ pc[w] = "claim" /\ Live(w)
  /\ ~MayClaim(w) \/ ~\E p \in Preps : IsOldest(p)
  /\ lock' = Nobody
  /\ Quit(w)
  /\ UNCHANGED <<rows, truth, faults>>

-----------------------------------------------------------------------------
(* One preparation: BidPreparer.run *)

\* The match after a read is optional: its failure leaves the read ready.
IsOptionalAlways(w) == PhaseOf[doing[w]] = "read" /\ step[w] <= 1
IsOptional(w) == PhaseOf[doing[w]] = "read" /\ step[w] = 1

Ends(w, result) ==
  /\ outcome' = [outcome EXCEPT ![w] = result]
  /\ Goto(w, "finish")

CallFails(w, result) == Ends(w, IF IsOptional(w) THEN "ready" ELSE result)

\* An annex, a form or the offer is refused, or the code raises.
Break(w) ==
  /\ pc[w] = "work" /\ Live(w)
  /\ Ends(w, "failed")
  /\ UNCHANGED <<rows, lock, ran, doing, step, cost, truth, faults>>

\* Nothing more to ask the model: no candidates to match, no form left.
Conclude(w) ==
  /\ pc[w] = "work" /\ Live(w)
  /\ PhaseOf[doing[w]] = "read" => step[w] > 0
  /\ Ends(w, "ready")
  /\ UNCHANGED <<rows, lock, ran, doing, step, cost, truth, faults>>

\* ensure_within_cap
WithinCapNow == recorded < Cap
WithinCap == recorded + Worst <= Cap

Clear(w) ==
  /\ pc[w] = "work" /\ Live(w)
  /\ step[w] < MaxCalls(doing[w]) /\ WithinCap
  /\ open' = [open EXCEPT ![doing[w]] = Worst]
  /\ Goto(w, "cleared")
  /\ UNCHANGED <<rows, lock, ran, job, billed, leaked, faults>>

StopAtCap(w) ==
  /\ pc[w] = "work" /\ Live(w)
  /\ step[w] < MaxCalls(doing[w]) /\ ~WithinCap
  /\ CallFails(w, "budget_stopped")
  /\ UNCHANGED <<rows, lock, ran, doing, step, cost, truth, faults>>

\* No transaction is open from here to the answer: the session is not used.
\* The request is answered with an error status, and nothing is billed.
Refused(w) ==
  /\ pc[w] = "cleared"
  /\ CallFails(w, "failed")
  /\ open' = [open EXCEPT ![doing[w]] = 0]
  /\ UNCHANGED <<rows, lock, ran, doing, step, cost, billed, leaked, faults>>

Send(w) ==
  /\ pc[w] = "cleared"
  /\ \E price \in 1..Worst :
       /\ billed' = billed + price
       /\ cost' = [cost EXCEPT ![w] = price]
       /\ open' = [open EXCEPT ![doing[w]] = price]
  /\ Goto(w, "calling")
  /\ UNCHANGED <<rows, lock, ran, doing, step, outcome, leaked, faults>>

\* record_usage; a call that broke off is recorded at its worst case.
Usage(w, amount) ==
  /\ amount \in {cost[w], Worst}
  /\ recorded' = recorded + amount
  /\ covered' = covered \cup {doing[w]}
  /\ open' = [open EXCEPT ![doing[w]] = 0]

Record(w) ==
  /\ pc[w] = "calling" /\ Live(w)
  /\ Usage(w, cost[w])
  /\ step' = [step EXCEPT ![w] = @ + 1]
  /\ Goto(w, "work")
  /\ UNCHANGED <<asked, status, lock, ran, doing, cost, outcome, billed,
                 leaked, faults>>

RecordBroken(w) ==
  /\ pc[w] = "calling" /\ Live(w)
  /\ Usage(w, Worst)
  /\ CallFails(w, "failed")
  /\ UNCHANGED <<asked, status, lock, ran, doing, step, cost, billed, leaked,
                 faults>>

\* _FINISH: only on a row that is still running.
FinishAnyRow(p, result) == status' = [status EXCEPT ![p] = result]
FinishRow(p, result) ==
  status' = IF p \in Running THEN [status EXCEPT ![p] = result] ELSE status

\* The session is gone: a fresh one records the usage and fails the row.
RecordAfresh(w) ==
  /\ pc[w] = "calling" /\ ~Live(w)
  /\ \E amount \in {cost[w], Worst} : Usage(w, amount)
  /\ FinishRow(doing[w], "connection_lost")
  /\ Quit(w)
  /\ UNCHANGED <<asked, lock, billed, leaked, faults>>

Finish(w) ==
  /\ pc[w] = "finish" /\ Live(w)
  /\ FinishRow(doing[w], outcome[w])
  /\ Goto(w, "claim")
  /\ UNCHANGED <<asked, covered, recorded, lock, ran, job, truth, faults>>

-----------------------------------------------------------------------------
(* Faults, and what a worker makes of them *)

SessionLost(w) ==
  /\ pc[w] # "idle" /\ Live(w) /\ Fault
  /\ lock' = Nobody
  /\ UNCHANGED <<rows, pc, ran, job, truth>>

\* Any statement but the usage of a call fails on a dead session, and so does
\* the one that would fail the row: the sweep ends and leaves it running.
Stranded(w) ==
  /\ pc[w] \notin {"idle", "cleared", "calling"} /\ ~Live(w)
  /\ Quit(w)
  /\ UNCHANGED <<rows, lock, truth, faults>>

\* The process ends, and its session with it; or, in a call on a dead session,
\* the fresh one cannot be opened.
Kill(w) ==
  /\ pc[w] # "idle" /\ Fault
  /\ lock' = IF Live(w) THEN Nobody ELSE lock
  /\ open' = IF pc[w] = "cleared" THEN [open EXCEPT ![doing[w]] = 0] ELSE open
  /\ Quit(w)
  /\ UNCHANGED <<rows, billed, leaked>>

-----------------------------------------------------------------------------

Sweep(w) ==
  \/ TryLock(w) \/ Recover(w) \/ Claim(w) \/ EndSweep(w)
  \/ Break(w) \/ Conclude(w) \/ Clear(w) \/ StopAtCap(w)
  \/ Refused(w) \/ Send(w) \/ Record(w) \/ RecordBroken(w) \/ RecordAfresh(w)
  \/ Finish(w) \/ Stranded(w)

Init ==
  /\ asked = <<>> /\ status = [p \in Preps |-> "none"]
  /\ covered = {} /\ recorded = 0
  /\ lock = Nobody
  /\ pc = [w \in Workers |-> "idle"] /\ ran = [w \in Workers |-> 0]
  /\ doing = [w \in Workers |-> AnyPrep]
  /\ step = [w \in Workers |-> 0] /\ cost = [w \in Workers |-> 0]
  /\ outcome = [w \in Workers |-> "failed"]
  /\ billed = 0 /\ open = [p \in Preps |-> 0] /\ leaked = 0
  /\ faults = 0

Next ==
  \/ \E p \in Preps : Ask(p)
  \/ \E w \in Workers : Sweep(w) \/ SessionLost(w) \/ Kill(w)

Spec == Init /\ [][Next]_vars

\* Every child runs its sweep each minute, for ever.
FairSpec == Spec /\ \A w \in Workers : WF_vars(Sweep(w))

-----------------------------------------------------------------------------
(* Properties *)

Places ==
  {"idle", "recover", "claim", "work", "cleared", "calling", "finish"}

\* The variables have their types.
TypeOK ==
  /\ asked \in Seq(Preps)
  /\ status \in [Preps -> Final \cup {"none", "queued", "running"}]
  /\ covered \subseteq Preps /\ recorded \in Nat
  /\ lock \in Workers \cup {Nobody}
  /\ pc \in [Workers -> Places] /\ ran \in [Workers -> 0..Limit]
  /\ doing \in [Workers -> Preps] /\ step \in [Workers -> Nat]
  /\ cost \in [Workers -> 0..Worst] /\ outcome \in [Workers -> Final]
  /\ billed \in Nat /\ open \in [Preps -> 0..Worst] /\ leaked \in Nat
  /\ faults \in 0..MaxFaults

\* Whatever sessions and processes are lost, the truth never passes the cap by
\* more than the calls that a recovery gave up without a charge, calls that are
\* cleared and not yet sent included.
Cleared == {w \in Workers : pc[w] = "cleared"}
CapHoldsButForLeaks ==
  billed + Worst * Cardinality(Cleared) <= Cap + leaked

\* Single flight: the row of the worker that holds the lock is the one running
\* row, so it neither writes a final status onto a row that a recovery failed
\* nor leaves the row of a dead worker running beside its own.
Working(w) == pc[w] \in {"work", "cleared", "calling", "finish"}
RunsOnlyItsRow == \A w \in Workers : Live(w) /\ Working(w) => Running = {doing[w]}

\* A preparation is ready only if every call it was billed for is recorded,
\* and a read only after it recorded one.
ReadyIsAccounted ==
  \A p \in Preps : status[p] = "ready" =>
    open[p] = 0 /\ (PhaseOf[p] = "read" => p \in covered)

\* No worker, a stranded one on a fresh session included, changes a status
\* that is final.
FinalStays ==
  [][\A p \in Preps : status[p] \in Final => status'[p] = status[p]]_vars

\* Whoever asks sees a queue, whatever the sweeps lose: preparations start one at
\* a time and in order, only one that runs ends, and what ended stays.
Turns == INSTANCE BidQueue
KeepsTurns == Turns!Spec

\* Every preparation that is asked for ends, also when its worker dies.
EveryAskEnds ==
  \A p \in Preps : status[p] = "queued" ~> status[p] \in Final

\* job.py:6-16: single flight "is what keeps the monthly cap", and a call whose
\* usage was lost "does not leak past the cap".
CapHolds == billed <= Cap
=============================================================================
