--------------------------- MODULE CommandReceipts ---------------------------
(***************************************************************************)
(* The API's commands over one PostgreSQL database: the receipt that an    *)
(* Idempotency-Key claims (command_core.py), the audit stream, and the two *)
(* commands that call Gmail between two transactions, «Enviar prueba»      *)
(* (campaign_test_send.py) and «Preparar correo» (prospect_findings).      *)
(* A transaction is READ COMMITTED: what it wrote is seen by others after  *)
(* its Commit, a row or index entry it wrote makes them wait.              *)
(***************************************************************************)
EXTENDS Integers, Sequences, FiniteSets

CONSTANTS Requests, Keys, Findings,
          KeyOf,      \* the Idempotency-Key a request carries
          KindOf,     \* its command
          FindingOf,  \* the prospect finding it names
          Again,      \* the «Preparar correo» requests with `again`
          Quota,      \* TEST_SENDS_PER_HOUR (the day's limit is alike)
          MaxFaults   \* bound: requests that die

Nobody == "nobody"
Tests == "send-campaign-test"   \* also the name of the advisory lock

ASSUME RequestAssumption ==
  /\ Nobody \notin Requests /\ Tests \notin Findings
  /\ KeyOf \in [Requests -> Keys] /\ FindingOf \in [Requests -> Findings]
  /\ KindOf \in [Requests -> {"review", "contact", "draft", "test"}]
  /\ Again \subseteq Requests
ASSUME BoundAssumption == IsFiniteSet(Keys) /\ Quota \in Nat /\ MaxFaults \in Nat

VARIABLES
  receipt,  \* platform.command_receipt of each key, as committed
  owner,    \* the request that inserted it, committed or not
  lock,     \* who holds each finding's row lock, and the advisory lock
  trail,    \* crm.domain_event of each finding, as committed
  aged,     \* the keys whose receipt is older than the quota's window
  pc, seq,  \* each request: its place; the position of its uncommitted event
  reply,    \* ok, refused (4xx), failed (502) or error (no answer)
  effects,  \* what was done under each key, Gmail's side included
  faults

store == <<receipt, owner, trail>>
vars == <<store, lock, aged, pc, seq, reply, effects, faults>>

ContentOf ==
  [r \in Requests |-> <<KindOf[r], FindingOf[r], r \in Again>>]

Scope(r) == IF KindOf[r] = "test" THEN Tests ELSE FindingOf[r]
Goto(r, place) == pc' = [pc EXCEPT ![r] = place]

Fault == faults < MaxFaults /\ faults' = faults + 1

Reply(r, word) ==
  /\ reply' = [reply EXCEPT ![r] = word]
  /\ Goto(r, "done")

\* Its first transaction is open until the receipt is committed.
OwnsClaim(r) == owner[KeyOf[r]] = r /\ receipt[KeyOf[r]] = "none"

ReleaseAtSessionEnd(r) == UNCHANGED lock
Release(r) ==
  lock' = [s \in DOMAIN lock |-> IF lock[s] = r THEN Nobody ELSE lock[s]]

\* Nothing of the transaction stays; what an earlier one committed does.
Rollback(r, word) ==
  /\ owner' = [k \in Keys |->
                 IF OwnsClaim(r) /\ k = KeyOf[r] THEN Nobody ELSE owner[k]]
  /\ Release(r)
  /\ seq' = [seq EXCEPT ![r] = 0]
  /\ Reply(r, word)

-----------------------------------------------------------------------------
(* The claim: _claim_receipt.  A request whose key another transaction has *)
(* inserted and not committed waits.                                       *)

SameRequest(r, q) == ContentOf[r] = ContentOf[q]

ClaimAnyway(r) == receipt[KeyOf[r]] = "none"
ClaimAllowed(r) == receipt[KeyOf[r]] = "none" /\ owner[KeyOf[r]] = Nobody

Claim(r) ==
  /\ pc[r] = "new" /\ ClaimAllowed(r)
  /\ owner' = [owner EXCEPT ![KeyOf[r]] = r]
  /\ Goto(r, "claimed")
  /\ UNCHANGED <<receipt, trail, lock, aged, seq, reply, effects, faults>>

AnyReplay(r) == receipt[KeyOf[r]] = "completed"
MayReplay(r) ==
  receipt[KeyOf[r]] = "completed" /\ SameRequest(r, owner[KeyOf[r]])

Replay(r) ==
  /\ pc[r] = "new" /\ MayReplay(r)
  /\ Reply(r, "ok")
  /\ UNCHANGED <<store, lock, aged, seq, effects, faults>>

\* 409: the key was used for a different request, its command still runs, or
\* it failed.
Conflict(r) ==
  /\ pc[r] = "new" /\ receipt[KeyOf[r]] # "none" /\ ~MayReplay(r)
  /\ Reply(r, "refused")
  /\ UNCHANGED <<store, lock, aged, seq, effects, faults>>

-----------------------------------------------------------------------------
(* The handler, in the transaction of the claim *)

Lock(r) ==
  /\ pc[r] = "claimed" /\ lock[Scope(r)] = Nobody
  /\ lock' = [lock EXCEPT ![Scope(r)] = r]
  /\ Goto(r, "locked")
  /\ UNCHANGED <<store, aged, seq, reply, effects, faults>>

Has(f, what) == \E i \in DOMAIN trail[f] : trail[f][i].what = what

UsedWhenSent ==
  {k \in Keys \ aged :
     receipt[k] = "completed" /\ KindOf[owner[k]] = "test"}

\* _usage: the tests committed within the window that did not fail.
Used ==
  {k \in Keys \ aged :
     /\ receipt[k] \in {"in_progress", "completed"}
     /\ KindOf[owner[k]] = "test"}

MayProceed(r) ==
  CASE KindOf[r] = "test"  -> Cardinality(Used) < Quota
    [] KindOf[r] = "draft" -> r \in Again \/ ~Has(FindingOf[r], "draft")
    [] OTHER               -> ~Has(FindingOf[r], "contact")

\* «Preparar correo» runs «Contactar» first when the finding is pending.
WritesEvent(r) ==
  CASE KindOf[r] = "test"  -> FALSE
    [] KindOf[r] = "draft" -> ~Has(FindingOf[r], "contact")
    [] OTHER               -> TRUE

Proceed(r) ==
  /\ pc[r] = "locked" /\ MayProceed(r)
  /\ Goto(r, IF WritesEvent(r) THEN "writing" ELSE "written")
  /\ UNCHANGED <<store, lock, aged, seq, reply, effects, faults>>

\* Over the quota, already drafted, already in the CRM; or for what the model
\* leaves out: an address that asked to be removed, no email, bad content.
Refuse(r) ==
  /\ pc[r] \in {"claimed", "locked", "written"} /\ OwnsClaim(r)
  /\ Rollback(r, "refused")
  /\ UNCHANGED <<receipt, trail, aged, effects, faults>>

-----------------------------------------------------------------------------
(* One event: _append_event.  The position is read from the statement's    *)
(* snapshot, the unique index is met when the row is inserted.             *)

LastSeq(f) == IF trail[f] = <<>> THEN 0 ELSE trail[f][Len(trail[f])].seq

Number(r) ==
  /\ pc[r] = "writing"
  /\ seq' = [seq EXCEPT ![r] = LastSeq(FindingOf[r]) + 1]
  /\ Goto(r, "numbered")
  /\ UNCHANGED <<store, lock, aged, reply, effects, faults>>

\* Another transaction inserted that position and is not committed.
PositionHeld(r) ==
  \E q \in Requests :
    /\ pc[q] = "written" /\ seq[q] = seq[r] /\ FindingOf[q] = FindingOf[r]

PositionAlwaysFree(r) == TRUE
PositionFree(r) == ~PositionHeld(r) /\ LastSeq(FindingOf[r]) < seq[r]

AppendEvent(r) ==
  /\ pc[r] = "numbered" /\ PositionFree(r)
  /\ Goto(r, "written")
  /\ UNCHANGED <<store, lock, aged, seq, reply, effects, faults>>

\* A unique violation, after any wait: the request ends in an error.
Collide(r) ==
  /\ pc[r] = "numbered" /\ LastSeq(FindingOf[r]) >= seq[r]
  /\ Rollback(r, "error")
  /\ UNCHANGED <<receipt, trail, aged, effects, faults>>

-----------------------------------------------------------------------------
(* The end of a transaction *)

\* What the pending event says: the first one of a draft is its «Contactar».
WhatKind(r) == KindOf[r]
What(r) ==
  IF KindOf[r] = "draft" /\ OwnsClaim(r) THEN "contact" ELSE KindOf[r]

Publish(r) ==
  /\ trail' =
       IF seq[r] = 0 THEN trail
       ELSE [trail EXCEPT ![FindingOf[r]] =
               Append(@, [seq |-> seq[r], key |-> KeyOf[r], what |-> What(r)])]
  /\ seq' = [seq EXCEPT ![r] = 0]
  /\ Release(r)

Done(r) == effects' = [effects EXCEPT ![KeyOf[r]] = Append(@, ContentOf[r])]

\* The answer may be lost after the commit.
Answer(r) ==
  \/ Reply(r, "ok") /\ UNCHANGED faults
  \/ Reply(r, "error") /\ Fault

CallsGmail(r) == KindOf[r] \in {"draft", "test"}

\* Effect, event and receipt in one transaction.
CommitWhole(r) ==
  /\ pc[r] = "written" /\ ~CallsGmail(r)
  /\ Publish(r)
  /\ receipt' = [receipt EXCEPT ![KeyOf[r]] = "completed"]
  /\ Done(r)
  /\ Answer(r)
  /\ UNCHANGED <<owner, aged>>

\* The first of two: the attempt counts from here on.
CommitAttempt(r) ==
  /\ pc[r] = "written" /\ CallsGmail(r) /\ OwnsClaim(r)
  /\ Publish(r)
  /\ receipt' = [receipt EXCEPT ![KeyOf[r]] = "in_progress"]
  /\ Goto(r, "outside")
  /\ UNCHANGED <<owner, aged, reply, effects, faults>>

\* The second one.
CommitResult(r) ==
  /\ pc[r] = "written" /\ CallsGmail(r) /\ ~OwnsClaim(r)
  /\ Publish(r)
  /\ receipt' = [receipt EXCEPT ![KeyOf[r]] = "completed"]
  /\ Answer(r)
  /\ UNCHANGED <<owner, aged, effects>>

-----------------------------------------------------------------------------
(* Gmail, outside any transaction *)

\* The draft still has its event to write, and takes no lock for it.
Deliver(r) ==
  /\ pc[r] = "outside"
  /\ Done(r)
  /\ Goto(r, IF KindOf[r] = "draft" THEN "writing" ELSE "written")
  /\ UNCHANGED <<store, lock, aged, seq, reply, faults>>

\* An error status; or a network error, after which Gmail may have done it.
DeliverFails(r) ==
  /\ pc[r] = "outside"
  /\ Done(r) \/ UNCHANGED effects
  /\ Goto(r, "failing")
  /\ UNCHANGED <<store, lock, aged, seq, reply, faults>>

FailedAsBefore == "in_progress"
FailedAsSent == "sent"
FailedAs == "failed"

\* _finish, _finish_receipt: the receipt is failed, 502.
Fail(r) ==
  /\ pc[r] = "failing"
  /\ receipt' = [receipt EXCEPT ![KeyOf[r]] = FailedAs]
  /\ Reply(r, "failed")
  /\ UNCHANGED <<owner, trail, lock, aged, seq, effects, faults>>

-----------------------------------------------------------------------------

\* statement_timeout, of a statement that waits.
Waits(r) ==
  \/ pc[r] = "new" /\ receipt[KeyOf[r]] = "none" /\ owner[KeyOf[r]] # Nobody
  \/ pc[r] = "claimed" /\ lock[Scope(r)] # Nobody
  \/ pc[r] = "numbered" /\ PositionHeld(r)

Timeout(r) ==
  /\ Waits(r)
  /\ Rollback(r, "error")
  /\ UNCHANGED <<receipt, trail, aged, effects, faults>>

\* The process or its connection dies.
Crash(r) ==
  /\ pc[r] \notin {"new", "done"}
  /\ Fault
  /\ Rollback(r, "error")
  /\ UNCHANGED <<receipt, trail, aged, effects>>

\* Only the tests' window is ever asked for.
Age(k) ==
  /\ k \in Used
  /\ aged' = aged \cup {k}
  /\ UNCHANGED <<store, lock, pc, seq, reply, effects, faults>>

-----------------------------------------------------------------------------

Step(r) ==
  \/ Claim(r) \/ Replay(r) \/ Conflict(r) \/ Lock(r) \/ Proceed(r) \/ Refuse(r)
  \/ Number(r) \/ AppendEvent(r) \/ Collide(r)
  \/ CommitWhole(r) \/ CommitAttempt(r) \/ CommitResult(r)
  \/ Deliver(r) \/ DeliverFails(r) \/ Fail(r)

Init ==
  /\ receipt = [k \in Keys |-> "none"] /\ owner = [k \in Keys |-> Nobody]
  /\ lock = [s \in Findings \cup {Tests} |-> Nobody]
  /\ trail = [f \in Findings |-> <<>>]
  /\ aged = {}
  /\ pc = [r \in Requests |-> "new"] /\ seq = [r \in Requests |-> 0]
  /\ reply = [r \in Requests |-> "none"]
  /\ effects = [k \in Keys |-> <<>>]
  /\ faults = 0

Next ==
  \/ \E r \in Requests : Step(r) \/ Timeout(r) \/ Crash(r)
  \/ \E k \in Keys : Age(k)

Spec == Init /\ [][Next]_vars

-----------------------------------------------------------------------------
(* Properties *)

Places == {"new", "claimed", "locked", "writing", "numbered", "written",
           "outside", "failing", "done"}
Receipts == {"none", "in_progress", "completed", "failed"}
Words == {"none", "ok", "refused", "failed", "error"}
Kinds == {"review", "contact", "draft", "test"}
Events == [seq : Nat, key : Keys, what : Kinds]
Contents == Kinds \X Findings \X BOOLEAN

\* The variables have their types.
TypeOK ==
  /\ receipt \in [Keys -> Receipts]
  /\ owner \in [Keys -> Requests \cup {Nobody}]
  /\ lock \in [Findings \cup {Tests} -> Requests \cup {Nobody}]
  /\ trail \in [Findings -> Seq(Events)]
  /\ aged \subseteq Keys
  /\ pc \in [Requests -> Places] /\ seq \in [Requests -> Nat]
  /\ reply \in [Requests -> Words]
  /\ effects \in [Keys -> Seq(Contents)]
  /\ faults \in 0..MaxFaults

\* The promise of a key, whatever its requests, Gmail and the crashes do.
Verdict ==
  [k \in Keys |-> IF receipt[k] = "in_progress" THEN "none" ELSE receipt[k]]
Told ==
  [r \in Requests |-> CASE reply[r] = "none" -> "waiting"
                        [] reply[r] = "ok"   -> "ok"
                        [] OTHER             -> "no"]
Promise == INSTANCE OnceOnly WITH
  effect <- effects, verdict <- Verdict, answer <- Told
KeepsPromise == Promise!Spec

\* Requests that ask at once do not pass the quota together: the tests of the
\* window that did not fail, sent or about to be sent.
Attempts ==
  {k \in Keys \ aged :
     receipt[k] \notin {"none", "failed"} /\ KindOf[owner[k]] = "test"}
QuotaHolds == Cardinality(Attempts) <= Quota

\* The audit stream has one event at each position, in the order committed.
TrailInOrder ==
  \A f \in Findings : \A i \in DOMAIN trail[f] : trail[f][i].seq = i

\* A completed command has its one event; a refused one wrote nothing at all.
EventsOf(k, what, f) ==
  {i \in DOMAIN trail[f] : trail[f][i].key = k /\ trail[f][i].what = what}
TrailMatches ==
  \A k \in Keys, f \in Findings :
    /\ receipt[k] = "none" =>
         effects[k] = <<>> /\ \A what \in Kinds : EventsOf(k, what, f) = {}
    /\ receipt[k] = "completed" /\ KindOf[owner[k]] # "test"
         /\ f = FindingOf[owner[k]] =>
           Cardinality(EventsOf(k, KindOf[owner[k]], f)) = 1
    /\ receipt[k] = "failed" => EventsOf(k, "draft", f) = {}

\* A key answers "still running" for ever only when its request died in its
\* second transaction or outside any, and never for a command without Gmail.
BusyIsExcused ==
  \A k \in Keys : receipt[k] = "in_progress" =>
    /\ CallsGmail(owner[k])
    /\ pc[owner[k]] = "done" => reply[owner[k]] = "error"

\* Never does everyone wait on everyone, for a key, a lock or a position: a
\* request that runs on stays until all have ended.
SomeoneRuns ==
  (\A r \in Requests : pc[r] = "done")
    \/ \E r \in Requests : pc[r] # "done" /\ ~Waits(r)
=============================================================================
