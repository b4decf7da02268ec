------------------------ MODULE CommandReceiptsProofs ------------------------
(***************************************************************************)
(* Proofs about CommandReceipts, for every number of requests, keys,       *)
(* findings and faults and every quota: the types, the quota, the order of *)
(* the audit stream, the excuse of a busy key, and that the receipts keep  *)
(* the promise OnceOnly states.                                            *)
(***************************************************************************)
EXTENDS CommandReceipts, FiniteSetTheorems, TLAPS

-----------------------------------------------------------------------------
(* The invariants behind the properties.                                   *)

Writing == {"writing", "numbered", "written"}
Second == {"outside", "failing"} \cup Writing

\* What the receipt of a key says of its effect and of the request behind it.
KeyOk(k) ==
  /\ owner[k] # Nobody => KeyOf[owner[k]] = k
  /\ receipt[k] # "none" => owner[k] # Nobody
  /\ receipt[k] = "none" => effects[k] = <<>>
  /\ receipt[k] = "none" /\ owner[k] # Nobody
       => pc[owner[k]] \in {"claimed", "locked"} \cup Writing
  /\ receipt[k] = "completed" => effects[k] = <<ContentOf[owner[k]]>>
  /\ receipt[k] = "in_progress" =>
       /\ CallsGmail(owner[k])
       /\ \/ pc[owner[k]] \in Second
          \/ pc[owner[k]] = "done" /\ reply[owner[k]] = "error"

KeyInv == \A k \in Keys : KeyOk(k)

\* In its first transaction a request owns an uncommitted claim, in its second
\* an effect that has happened.
IsSecond(r) ==
  /\ owner[KeyOf[r]] = r /\ receipt[KeyOf[r]] = "in_progress"
  /\ CallsGmail(r)
  /\ effects[KeyOf[r]] = <<ContentOf[r]>>
PlaceOk(r) ==
  /\ pc[r] = "new" => owner[KeyOf[r]] # r
  /\ pc[r] \in {"claimed", "locked"} => OwnsClaim(r)
  /\ pc[r] \in Writing => OwnsClaim(r) \/ IsSecond(r)
  /\ pc[r] \in {"outside", "failing"} =>
       owner[KeyOf[r]] = r /\ receipt[KeyOf[r]] = "in_progress"
  /\ pc[r] = "outside" => effects[KeyOf[r]] = <<>>
  /\ reply[r] = "none" <=> pc[r] # "done"

PlaceInv == \A r \in Requests : PlaceOk(r)

\* The lock is held from the check to the commit, so the room under the quota
\* that one test has seen is still there.
LockOk(r) ==
  /\ pc[r] \in {"locked"} \cup Writing /\ OwnsClaim(r) => lock[Scope(r)] = r
  /\ KindOf[r] = "test" /\ OwnsClaim(r) =>
       pc[r] \in {"claimed", "locked", "written"}
LockInv == \A r \in Requests : LockOk(r)
QuotaInv ==
  /\ Cardinality(Used) <= Quota
  /\ \A r \in Requests :
       KindOf[r] = "test" /\ OwnsClaim(r) /\ pc[r] = "written"
         => Cardinality(Used) < Quota

\* A position that was read may be taken since; an inserted one is the next.
Last(r) == Len(trail[FindingOf[r]])
SeqOk(r) ==
  /\ pc[r] = "numbered" => seq[r] \in 1..(Last(r) + 1)
  /\ pc[r] = "written" => seq[r] \in {0, Last(r) + 1}
  /\ pc[r] \notin {"numbered", "written"} => seq[r] = 0
Apart(q, r) ==
  pc[q] = "written" /\ pc[r] = "written" /\ seq[q] # 0
    /\ seq[q] = seq[r] /\ FindingOf[q] = FindingOf[r] => q = r
TrailInv ==
  /\ TrailInOrder
  /\ \A r \in Requests : SeqOk(r)
  /\ \A q, r \in Requests : Apart(q, r)

\* A lock is held by a request between its check and its commit.
HolderOk(s) ==
  lock[s] # Nobody => pc[lock[s]] \in {"locked"} \cup Writing
HolderInv == \A s \in Findings \cup {Tests} : HolderOk(s)

\* A key without a receipt has no event, and one without an answer no draft.
EventOk(e) ==
  /\ receipt[e.key] # "none"
  /\ e.what = "draft" => receipt[e.key] = "completed"
Sole(k) ==
  \E i \in DOMAIN trail[FindingOf[owner[k]]] :
    \A j \in DOMAIN trail[FindingOf[owner[k]]] :
      LET e == trail[FindingOf[owner[k]]][j] IN
      e.key = k /\ e.what = KindOf[owner[k]] <=> j = i
EventInv ==
  /\ \A f \in Findings : \A i \in DOMAIN trail[f] : EventOk(trail[f][i])
  /\ \A k \in Keys :
       receipt[k] = "completed" /\ KindOf[owner[k]] # "test" => Sole(k)
Numbered(r) ==
  pc[r] = "written" /\ KindOf[r] # "test"
    /\ (KindOf[r] = "draft" => receipt[KeyOf[r]] # "none") => seq[r] # 0
NumberedInv == \A r \in Requests : Numbered(r)

IInv ==
  /\ TypeOK /\ KeyInv /\ PlaceInv /\ LockInv /\ QuotaInv /\ TrailInv
  /\ HolderInv /\ NumberedInv /\ EventInv

-----------------------------------------------------------------------------
(* What each step does, place by place.                                    *)

LEMMA ClaimDoes ==
  ASSUME TypeOK, NEW r \in Requests, Claim(r)
  PROVE  /\ pc[r] = "new" /\ receipt[KeyOf[r]] = "none" /\ owner[KeyOf[r]] = Nobody
         /\ \A q \in Requests : pc'[q] = IF q = r THEN "claimed" ELSE pc[q]
         /\ \A k \in Keys : owner'[k] = IF k = KeyOf[r] THEN r ELSE owner[k]
         /\ UNCHANGED <<receipt, trail, lock, aged, seq, reply, effects, faults>>
  BY RequestAssumption DEF TypeOK, Claim, Goto, ClaimAllowed

LEMMA ReplayDoes ==
  ASSUME TypeOK, NEW r \in Requests, Replay(r)
  PROVE  /\ pc[r] = "new" /\ receipt[KeyOf[r]] = "completed"
         /\ ContentOf[r] = ContentOf[owner[KeyOf[r]]]
         /\ \A q \in Requests : pc'[q] = IF q = r THEN "done" ELSE pc[q]
         /\ \A q \in Requests : reply'[q] = IF q = r THEN "ok" ELSE reply[q]
         /\ UNCHANGED <<receipt, owner, trail, lock, aged, seq, effects, faults>>
  BY RequestAssumption DEF TypeOK, Replay, MayReplay, SameRequest, Reply, Goto, store

LEMMA ConflictDoes ==
  ASSUME TypeOK, NEW r \in Requests, Conflict(r)
  PROVE  /\ pc[r] = "new" /\ receipt[KeyOf[r]] # "none"
         /\ \A q \in Requests : pc'[q] = IF q = r THEN "done" ELSE pc[q]
         /\ \A q \in Requests : reply'[q] = IF q = r THEN "refused" ELSE reply[q]
         /\ UNCHANGED <<receipt, owner, trail, lock, aged, seq, effects, faults>>
  BY RequestAssumption DEF TypeOK, Conflict, Reply, Goto, store

LEMMA LockDoes ==
  ASSUME TypeOK, NEW r \in Requests, Lock(r)
  PROVE  /\ pc[r] = "claimed" /\ lock[Scope(r)] = Nobody
         /\ \A q \in Requests : pc'[q] = IF q = r THEN "locked" ELSE pc[q]
         /\ \A s \in Findings \cup {Tests} : lock'[s] = IF s = Scope(r) THEN r ELSE lock[s]
         /\ UNCHANGED <<receipt, owner, trail, aged, seq, reply, effects, faults>>
  BY RequestAssumption DEF TypeOK, Lock, Goto, store

LEMMA ProceedDoes ==
  ASSUME TypeOK, NEW r \in Requests, Proceed(r)
  PROVE  /\ pc[r] = "locked" /\ MayProceed(r)
         /\ pc'[r] \in {"writing", "written"}
         /\ KindOf[r] = "test" => pc'[r] = "written"
         /\ \A q \in Requests : q # r => pc'[q] = pc[q]
         /\ UNCHANGED <<receipt, owner, trail, lock, aged, seq, reply, effects, faults>>
  BY RequestAssumption DEF TypeOK, Proceed, Goto, store, WritesEvent

LEMMA RefuseDoes ==
  ASSUME TypeOK, NEW r \in Requests, Refuse(r)
  PROVE  /\ pc[r] \in {"claimed", "locked", "written"} /\ OwnsClaim(r)
         /\ \A q \in Requests : pc'[q] = IF q = r THEN "done" ELSE pc[q]
         /\ \A q \in Requests : reply'[q] = IF q = r THEN "refused" ELSE reply[q]
         /\ \A q \in Requests : seq'[q] = IF q = r THEN 0 ELSE seq[q]
         /\ \A k \in Keys : owner'[k] = IF OwnsClaim(r) /\ k = KeyOf[r] THEN Nobody ELSE owner[k]
         /\ \A s \in Findings \cup {Tests} : lock'[s] = IF lock[s] = r THEN Nobody ELSE lock[s]
         /\ UNCHANGED <<receipt, trail, aged, effects, faults>>
  BY RequestAssumption DEF TypeOK, Refuse, Rollback, Release, Reply, Goto

LEMMA NumberDoes ==
  ASSUME TypeOK, NEW r \in Requests, Number(r)
  PROVE  /\ pc[r] = "writing"
         /\ \A q \in Requests : pc'[q] = IF q = r THEN "numbered" ELSE pc[q]
         /\ \A q \in Requests : seq'[q] = IF q = r THEN LastSeq(FindingOf[r]) + 1 ELSE seq[q]
         /\ UNCHANGED <<receipt, owner, trail, lock, aged, reply, effects, faults>>
  BY RequestAssumption DEF TypeOK, Number, Goto, store

LEMMA AppendEventDoes ==
  ASSUME TypeOK, NEW r \in Requests, AppendEvent(r)
  PROVE  /\ pc[r] = "numbered" /\ PositionFree(r)
         /\ \A q \in Requests : pc'[q] = IF q = r THEN "written" ELSE pc[q]
         /\ UNCHANGED <<receipt, owner, trail, lock, aged, seq, reply, effects, faults>>
  BY RequestAssumption DEF TypeOK, AppendEvent, Goto, store

LEMMA CollideDoes ==
  ASSUME TypeOK, NEW r \in Requests, Collide(r)
  PROVE  /\ pc[r] = "numbered"
         /\ \A q \in Requests : pc'[q] = IF q = r THEN "done" ELSE pc[q]
         /\ \A q \in Requests : reply'[q] = IF q = r THEN "error" ELSE reply[q]
         /\ \A q \in Requests : seq'[q] = IF q = r THEN 0 ELSE seq[q]
         /\ \A k \in Keys : owner'[k] = IF OwnsClaim(r) /\ k = KeyOf[r] THEN Nobody ELSE owner[k]
         /\ \A s \in Findings \cup {Tests} : lock'[s] = IF lock[s] = r THEN Nobody ELSE lock[s]
         /\ UNCHANGED <<receipt, trail, aged, effects, faults>>
  BY RequestAssumption DEF TypeOK, Collide, Rollback, Release, Reply, Goto

LEMMA CommitWholeDoes ==
  ASSUME TypeOK, NEW r \in Requests, CommitWhole(r)
  PROVE  /\ pc[r] = "written" /\ ~CallsGmail(r)
         /\ \A q \in Requests : pc'[q] = IF q = r THEN "done" ELSE pc[q]
         /\ reply'[r] \in {"ok", "error"} /\ \A q \in Requests : q # r => reply'[q] = reply[q]
         /\ \A q \in Requests : seq'[q] = IF q = r THEN 0 ELSE seq[q]
         /\ \A s \in Findings \cup {Tests} : lock'[s] = IF lock[s] = r THEN Nobody ELSE lock[s]
         /\ \A k \in Keys : receipt'[k] = IF k = KeyOf[r] THEN "completed" ELSE receipt[k]
         /\ \A k \in Keys : effects'[k] = IF k = KeyOf[r] THEN Append(effects[k], ContentOf[r]) ELSE effects[k]
         /\ UNCHANGED <<owner, aged>>
  BY RequestAssumption DEF TypeOK, CommitWhole, Publish, Release, Done, Answer, Reply, Goto

LEMMA CommitAttemptDoes ==
  ASSUME TypeOK, NEW r \in Requests, CommitAttempt(r)
  PROVE  /\ pc[r] = "written" /\ CallsGmail(r) /\ OwnsClaim(r)
         /\ \A q \in Requests : pc'[q] = IF q = r THEN "outside" ELSE pc[q]
         /\ \A q \in Requests : seq'[q] = IF q = r THEN 0 ELSE seq[q]
         /\ \A s \in Findings \cup {Tests} : lock'[s] = IF lock[s] = r THEN Nobody ELSE lock[s]
         /\ \A k \in Keys : receipt'[k] = IF k = KeyOf[r] THEN "in_progress" ELSE receipt[k]
         /\ UNCHANGED <<owner, aged, reply, effects, faults>>
  BY RequestAssumption DEF TypeOK, CommitAttempt, Publish, Release, Goto

LEMMA CommitResultDoes ==
  ASSUME TypeOK, NEW r \in Requests, CommitResult(r)
  PROVE  /\ pc[r] = "written" /\ CallsGmail(r) /\ ~OwnsClaim(r)
         /\ \A q \in Requests : pc'[q] = IF q = r THEN "done" ELSE pc[q]
         /\ reply'[r] \in {"ok", "error"} /\ \A q \in Requests : q # r => reply'[q] = reply[q]
         /\ \A q \in Requests : seq'[q] = IF q = r THEN 0 ELSE seq[q]
         /\ \A s \in Findings \cup {Tests} : lock'[s] = IF lock[s] = r THEN Nobody ELSE lock[s]
         /\ \A k \in Keys : receipt'[k] = IF k = KeyOf[r] THEN "completed" ELSE receipt[k]
         /\ UNCHANGED <<owner, aged, effects>>
  BY RequestAssumption DEF TypeOK, CommitResult, Publish, Release, Answer, Reply, Goto

LEMMA DeliverDoes ==
  ASSUME TypeOK, NEW r \in Requests, Deliver(r)
  PROVE  /\ pc[r] = "outside"
         /\ \A q \in Requests : pc'[q] = IF q = r THEN IF KindOf[r] = "draft" THEN "writing" ELSE "written" ELSE pc[q]
         /\ \A k \in Keys : effects'[k] = IF k = KeyOf[r] THEN Append(effects[k], ContentOf[r]) ELSE effects[k]
         /\ UNCHANGED <<receipt, owner, trail, lock, aged, seq, reply, faults>>
  BY RequestAssumption DEF TypeOK, Deliver, Done, Goto, store

LEMMA DeliverFailsDoes ==
  ASSUME TypeOK, NEW r \in Requests, DeliverFails(r)
  PROVE  /\ pc[r] = "outside"
         /\ \A q \in Requests : pc'[q] = IF q = r THEN "failing" ELSE pc[q]
         /\ (\A k \in Keys : effects'[k] = IF k = KeyOf[r] THEN Append(effects[k], ContentOf[r]) ELSE effects[k])
            \/ UNCHANGED effects
         /\ UNCHANGED <<receipt, owner, trail, lock, aged, seq, reply, faults>>
  BY RequestAssumption DEF TypeOK, DeliverFails, Done, Goto, store

LEMMA FailDoes ==
  ASSUME TypeOK, NEW r \in Requests, Fail(r)
  PROVE  /\ pc[r] = "failing"
         /\ \A q \in Requests : pc'[q] = IF q = r THEN "done" ELSE pc[q]
         /\ \A q \in Requests : reply'[q] = IF q = r THEN "failed" ELSE reply[q]
         /\ \A k \in Keys : receipt'[k] = IF k = KeyOf[r] THEN "failed" ELSE receipt[k]
         /\ UNCHANGED <<owner, trail, lock, aged, seq, effects, faults>>
  BY RequestAssumption DEF TypeOK, Fail, FailedAs, Reply, Goto

LEMMA TimeoutDoes ==
  ASSUME TypeOK, NEW r \in Requests, Timeout(r)
  PROVE  /\ pc[r] \in {"new", "claimed", "numbered"}
         /\ \A q \in Requests : pc'[q] = IF q = r THEN "done" ELSE pc[q]
         /\ \A q \in Requests : reply'[q] = IF q = r THEN "error" ELSE reply[q]
         /\ \A q \in Requests : seq'[q] = IF q = r THEN 0 ELSE seq[q]
         /\ \A k \in Keys : owner'[k] = IF OwnsClaim(r) /\ k = KeyOf[r] THEN Nobody ELSE owner[k]
         /\ \A s \in Findings \cup {Tests} : lock'[s] = IF lock[s] = r THEN Nobody ELSE lock[s]
         /\ UNCHANGED <<receipt, trail, aged, effects, faults>>
  BY RequestAssumption DEF TypeOK, Timeout, Rollback, Release, Reply, Goto, Waits

LEMMA CrashDoes ==
  ASSUME TypeOK, NEW r \in Requests, Crash(r)
  PROVE  /\ pc[r] \notin {"new", "done"}
         /\ \A q \in Requests : pc'[q] = IF q = r THEN "done" ELSE pc[q]
         /\ \A q \in Requests : reply'[q] = IF q = r THEN "error" ELSE reply[q]
         /\ \A q \in Requests : seq'[q] = IF q = r THEN 0 ELSE seq[q]
         /\ \A k \in Keys : owner'[k] = IF OwnsClaim(r) /\ k = KeyOf[r] THEN Nobody ELSE owner[k]
         /\ \A s \in Findings \cup {Tests} : lock'[s] = IF lock[s] = r THEN Nobody ELSE lock[s]
         /\ UNCHANGED <<receipt, trail, aged, effects>>
  BY RequestAssumption DEF TypeOK, Crash, Rollback, Release, Reply, Goto

LEMMA AppendToEmpty == \A x : Append(<<>>, x) = <<x>>
  OBVIOUS

\* What a commit publishes.
LEMMA CommitPublishes ==
  ASSUME TypeOK, NEW r \in Requests,
         CommitWhole(r) \/ CommitAttempt(r) \/ CommitResult(r)
  PROVE  trail' = IF seq[r] = 0 THEN trail
                  ELSE [trail EXCEPT ![FindingOf[r]] =
                          Append(@, [seq |-> seq[r], key |-> KeyOf[r],
                                     what |-> What(r)])]
  BY DEF CommitWhole, CommitAttempt, CommitResult, Publish

LEMMA LastSeqNat ==
  ASSUME TypeOK, NEW f \in Findings
  PROVE  LastSeq(f) \in Nat
<1>1. trail[f] \in Seq(Events)
  BY DEF TypeOK
<1>2. CASE trail[f] = <<>>
  BY <1>2 DEF LastSeq
<1>3. CASE trail[f] # <<>>
  <2>1. Len(trail[f]) \in 1..Len(trail[f])
    BY <1>1, <1>3
  <2>2. trail[f][Len(trail[f])] \in Events
    BY <1>1, <2>1
  <2>3. QED BY <1>3, <2>2 DEF LastSeq, Events
<1>4. QED BY <1>2, <1>3

LEMMA ContentTyped == \A r \in Requests : ContentOf[r] \in Contents
<1>1. TAKE r \in Requests
<1>2. ContentOf[r] = <<KindOf[r], FindingOf[r], r \in Again>>
  BY DEF ContentOf
<1>3. KindOf[r] \in Kinds /\ FindingOf[r] \in Findings /\ (r \in Again) \in BOOLEAN
  BY RequestAssumption DEF Kinds
<1>4. <<KindOf[r], FindingOf[r], r \in Again>> \in Kinds \X Findings \X BOOLEAN
  BY <1>3, Zenon
<1>5. QED BY <1>2, <1>4 DEF Contents

LEMMA PublishedTyped ==
  ASSUME TypeOK, NEW r \in Requests,
         CommitWhole(r) \/ CommitAttempt(r) \/ CommitResult(r)
  PROVE  trail' \in [Findings -> Seq(Events)]
<1> DEFINE event == [seq |-> seq[r], key |-> KeyOf[r], what |-> What(r)]
<1>1. event \in Events
  BY RequestAssumption DEF TypeOK, Events, Kinds, What
<1>2. trail' = IF seq[r] = 0 THEN trail
               ELSE [trail EXCEPT ![FindingOf[r]] = Append(@, event)]
  BY CommitPublishes
<1>3. trail[FindingOf[r]] \in Seq(Events) /\ trail \in [Findings -> Seq(Events)]
      /\ FindingOf[r] \in Findings
  BY RequestAssumption DEF TypeOK
<1>4. Append(trail[FindingOf[r]], event) \in Seq(Events)
  BY <1>1, <1>3
<1> HIDE DEF event
<1>5. QED BY <1>2, <1>3, <1>4

-----------------------------------------------------------------------------
(* The steps, one invariant at a time.                                     *)

\* The variables keep their types.
LEMMA TypeStep ==
  ASSUME TypeOK, [Next]_vars
  PROVE  TypeOK'
<1> USE RequestAssumption, BoundAssumption
<1>1. ASSUME NEW r \in Requests, Claim(r)
      PROVE  TypeOK'
  BY <1>1 DEF Claim, Goto, ClaimAllowed, TypeOK, Places, Receipts, Words
<1>2. ASSUME NEW r \in Requests, Replay(r)
      PROVE  TypeOK'
  BY <1>2 DEF Replay, MayReplay, SameRequest, Reply, Goto, store, TypeOK, Places, Receipts, Words
<1>3. ASSUME NEW r \in Requests, Conflict(r)
      PROVE  TypeOK'
  BY <1>3 DEF Conflict, Reply, Goto, store, TypeOK, Places, Receipts, Words
<1>4. ASSUME NEW r \in Requests, Lock(r)
      PROVE  TypeOK'
  BY <1>4 DEF Lock, Goto, store, TypeOK, Places, Receipts, Words
<1>5. ASSUME NEW r \in Requests, Proceed(r)
      PROVE  TypeOK'
  BY <1>5 DEF Proceed, Goto, store, WritesEvent, TypeOK, Places, Receipts, Words
<1>6. ASSUME NEW r \in Requests, Refuse(r)
      PROVE  TypeOK'
  BY <1>6 DEF Refuse, Rollback, Release, Reply, Goto, TypeOK, Places, Receipts, Words
<1>7. ASSUME NEW r \in Requests, Number(r)
      PROVE  TypeOK'
  <2>1. LastSeq(FindingOf[r]) + 1 \in Nat
    BY LastSeqNat
  <2>2. QED BY <1>7, <2>1 DEF Number, Goto, store, TypeOK, Places, Receipts, Words
<1>8. ASSUME NEW r \in Requests, AppendEvent(r)
      PROVE  TypeOK'
  BY <1>8 DEF AppendEvent, Goto, store, TypeOK, Places, Receipts, Words
<1>9. ASSUME NEW r \in Requests, Collide(r)
      PROVE  TypeOK'
  BY <1>9 DEF Collide, Rollback, Release, Reply, Goto, TypeOK, Places, Receipts, Words
<1>10. ASSUME NEW r \in Requests, CommitWhole(r)
      PROVE  TypeOK'
  <2>1. trail' \in [Findings -> Seq(Events)]
    BY <1>10, PublishedTyped
  <2>2. effects' \in [Keys -> Seq(Contents)]
    BY <1>10, ContentTyped DEF TypeOK, CommitWhole, Done
  <2>3. pc' \in [Requests -> Places] /\ reply' \in [Requests -> Words]
        /\ faults' \in 0..MaxFaults
    <3>1. CASE Reply(r, "ok") /\ UNCHANGED faults
      BY <3>1 DEF Reply, Goto, TypeOK, Places, Receipts, Words
    <3>2. CASE Reply(r, "error") /\ Fault
      BY <3>2 DEF Reply, Goto, Fault, TypeOK, Places, Receipts, Words
    <3>3. QED BY <1>10, <3>1, <3>2 DEF CommitWhole, Answer
  <2>4. lock' \in [Findings \cup {Tests} -> Requests \cup {Nobody}]
        /\ seq' \in [Requests -> Nat]
    BY <1>10 DEF CommitWhole, Publish, Release, TypeOK
  <2>5. receipt' \in [Keys -> Receipts] /\ UNCHANGED <<owner, aged>>
    BY <1>10 DEF CommitWhole, TypeOK, Receipts
  <2>6. QED BY <2>1, <2>2, <2>3, <2>4, <2>5 DEF TypeOK
<1>11. ASSUME NEW r \in Requests, CommitAttempt(r)
      PROVE  TypeOK'
  <2>1. trail' \in [Findings -> Seq(Events)]
    BY <1>11, PublishedTyped
  <2>2. effects' \in [Keys -> Seq(Contents)]
    BY <1>11, ContentTyped DEF TypeOK, CommitAttempt
  <2>3. pc' \in [Requests -> Places] /\ reply' \in [Requests -> Words]
        /\ faults' \in 0..MaxFaults
    BY <1>11 DEF CommitAttempt, Goto, TypeOK, Places, Receipts, Words
  <2>4. lock' \in [Findings \cup {Tests} -> Requests \cup {Nobody}]
        /\ seq' \in [Requests -> Nat]
    BY <1>11 DEF CommitAttempt, Publish, Release, TypeOK
  <2>5. receipt' \in [Keys -> Receipts] /\ UNCHANGED <<owner, aged>>
    BY <1>11 DEF CommitAttempt, TypeOK, Receipts
  <2>6. QED BY <2>1, <2>2, <2>3, <2>4, <2>5 DEF TypeOK
<1>12. ASSUME NEW r \in Requests, CommitResult(r)
      PROVE  TypeOK'
  <2>1. trail' \in [Findings -> Seq(Events)]
    BY <1>12, PublishedTyped
  <2>2. effects' \in [Keys -> Seq(Contents)]
    BY <1>12, ContentTyped DEF TypeOK, CommitResult
  <2>3. pc' \in [Requests -> Places] /\ reply' \in [Requests -> Words]
        /\ faults' \in 0..MaxFaults
    <3>1. CASE Reply(r, "ok") /\ UNCHANGED faults
      BY <3>1 DEF Reply, Goto, TypeOK, Places, Receipts, Words
    <3>2. CASE Reply(r, "error") /\ Fault
      BY <3>2 DEF Reply, Goto, Fault, TypeOK, Places, Receipts, Words
    <3>3. QED BY <1>12, <3>1, <3>2 DEF CommitResult, Answer
  <2>4. lock' \in [Findings \cup {Tests} -> Requests \cup {Nobody}]
        /\ seq' \in [Requests -> Nat]
    BY <1>12 DEF CommitResult, Publish, Release, TypeOK
  <2>5. receipt' \in [Keys -> Receipts] /\ UNCHANGED <<owner, aged>>
    BY <1>12 DEF CommitResult, TypeOK, Receipts
  <2>6. QED BY <2>1, <2>2, <2>3, <2>4, <2>5 DEF TypeOK
<1>13. ASSUME NEW r \in Requests, Deliver(r)
      PROVE  TypeOK'
  <2>1. effects' \in [Keys -> Seq(Contents)]
    BY <1>13, ContentTyped DEF TypeOK, Deliver, Done
  <2>2. QED BY <1>13, <2>1 DEF Deliver, Done, Goto, store, TypeOK, Places, Receipts, Words
<1>14. ASSUME NEW r \in Requests, DeliverFails(r)
      PROVE  TypeOK'
  <2>1. effects' \in [Keys -> Seq(Contents)]
    <3>1. CASE Done(r)
      BY <3>1, ContentTyped DEF TypeOK, Done
    <3>2. CASE UNCHANGED effects
      BY <3>2 DEF TypeOK
    <3>3. QED BY <1>14, <3>1, <3>2 DEF DeliverFails
  <2>2. QED BY <1>14, <2>1 DEF DeliverFails, Done, Goto, store, TypeOK, Places, Receipts, Words
<1>15. ASSUME NEW r \in Requests, Fail(r)
      PROVE  TypeOK'
  BY <1>15 DEF Fail, FailedAs, Reply, Goto, TypeOK, Places, Receipts, Words
<1>16. ASSUME NEW r \in Requests, Timeout(r)
      PROVE  TypeOK'
  BY <1>16 DEF Timeout, Rollback, Release, Reply, Goto, Waits, TypeOK, Places, Receipts, Words
<1>17. ASSUME NEW r \in Requests, Crash(r)
      PROVE  TypeOK'
  BY <1>17 DEF Crash, Rollback, Release, Reply, Goto, Fault, TypeOK, Places, Receipts, Words
<1>18. ASSUME NEW k \in Keys, Age(k)
       PROVE  TypeOK'
  BY <1>18 DEF Age, Used, store, TypeOK, Places, Receipts, Words
<1>19. ASSUME UNCHANGED vars
       PROVE  TypeOK'
  BY <1>19 DEF vars, store, TypeOK
<1>20. QED
  BY <1>1, <1>2, <1>3, <1>4, <1>5, <1>6, <1>7, <1>8, <1>9, <1>10, <1>11, <1>12, <1>13, <1>14, <1>15, <1>16, <1>17, <1>18, <1>19 DEF Next, Step

\* The receipt and the effect of a key agree.
LEMMA KeyStep ==
  ASSUME TypeOK, KeyInv, PlaceInv, [Next]_vars
  PROVE  KeyInv'
<1> USE RequestAssumption DEF KeyInv
<1>1. ASSUME NEW r \in Requests, Claim(r), NEW k \in Keys
      PROVE  KeyOk(k)'
  <2>1. owner[KeyOf[r]] = Nobody /\ KeyOk(k) /\ PlaceOk(r)
    BY <1>1, ClaimDoes DEF PlaceInv, PlaceOk, Writing, OwnsClaim, IsSecond
  <2>2. CASE k # KeyOf[r]
    <3>1. owner[k] # r
      BY <2>1, <2>2 DEF KeyOk, TypeOK
    <3>2. /\ owner'[k] = owner[k] /\ receipt'[k] = receipt[k]
          /\ effects'[k] = effects[k]
          /\ owner[k] \in Requests => /\ pc'[owner[k]] = pc[owner[k]]
                                      /\ reply'[owner[k]] = reply[owner[k]]
      BY <1>1, <2>2, <3>1, ClaimDoes DEF TypeOK
    <3>3. QED BY <2>1, <3>2 DEF KeyOk, CallsGmail, TypeOK
  <2>3. CASE k = KeyOf[r]
    <3>1. owner'[k] = r /\ receipt'[k] = "none" /\ effects'[k] = effects[k]
          /\ pc'[r] = "claimed"
      BY <1>1, <2>3, ClaimDoes
    <3>2. effects[k] = <<>> /\ KeyOf[r] = k
      BY <1>1, <2>1, <2>3, ClaimDoes DEF KeyOk
    <3>3. QED BY <3>1, <3>2 DEF KeyOk
  <2>4. QED BY <2>2, <2>3
<1>2. ASSUME NEW r \in Requests, Replay(r), NEW k \in Keys
      PROVE  KeyOk(k)'
  BY <1>2, ReplayDoes DEF TypeOK, OwnsClaim, CallsGmail, Writing, KeyOk, PlaceInv, PlaceOk, IsSecond, Second
<1>3. ASSUME NEW r \in Requests, Conflict(r), NEW k \in Keys
      PROVE  KeyOk(k)'
  BY <1>3, ConflictDoes DEF TypeOK, OwnsClaim, CallsGmail, Writing, KeyOk, PlaceInv, PlaceOk, IsSecond, Second
<1>4. ASSUME NEW r \in Requests, Lock(r), NEW k \in Keys
      PROVE  KeyOk(k)'
  BY <1>4, LockDoes DEF TypeOK, OwnsClaim, CallsGmail, Writing, KeyOk, PlaceInv, PlaceOk, IsSecond, Second
<1>5. ASSUME NEW r \in Requests, Proceed(r), NEW k \in Keys
      PROVE  KeyOk(k)'
  <2>1. owner[KeyOf[r]] = r /\ KeyOk(k) /\ PlaceOk(r)
    BY <1>5, ProceedDoes DEF PlaceInv, PlaceOk, Writing, OwnsClaim, IsSecond
  <2>2. CASE k # KeyOf[r]
    <3>1. owner[k] # r
      BY <2>1, <2>2 DEF KeyOk, TypeOK
    <3>2. /\ owner'[k] = owner[k] /\ receipt'[k] = receipt[k]
          /\ effects'[k] = effects[k]
          /\ owner[k] \in Requests => /\ pc'[owner[k]] = pc[owner[k]]
                                      /\ reply'[owner[k]] = reply[owner[k]]
      BY <1>5, <2>2, <3>1, ProceedDoes DEF TypeOK
    <3>3. QED BY <2>1, <3>2 DEF KeyOk, CallsGmail, TypeOK
  <2>3. CASE k = KeyOf[r]
    BY <1>5, <2>1, <2>3, ProceedDoes
    DEF TypeOK, KeyOk, PlaceOk, OwnsClaim, IsSecond, CallsGmail, Writing, Second
  <2>4. QED BY <2>2, <2>3
<1>6. ASSUME NEW r \in Requests, Refuse(r), NEW k \in Keys
      PROVE  KeyOk(k)'
  <2>1. owner[KeyOf[r]] = r /\ KeyOk(k) /\ PlaceOk(r)
    BY <1>6, RefuseDoes DEF PlaceInv, PlaceOk, Writing, OwnsClaim, IsSecond
  <2>2. CASE k # KeyOf[r]
    <3>1. owner[k] # r
      BY <2>1, <2>2 DEF KeyOk, TypeOK
    <3>2. /\ owner'[k] = owner[k] /\ receipt'[k] = receipt[k]
          /\ effects'[k] = effects[k]
          /\ owner[k] \in Requests => /\ pc'[owner[k]] = pc[owner[k]]
                                      /\ reply'[owner[k]] = reply[owner[k]]
      BY <1>6, <2>2, <3>1, RefuseDoes DEF TypeOK
    <3>3. QED BY <2>1, <3>2 DEF KeyOk, CallsGmail, TypeOK
  <2>3. CASE k = KeyOf[r]
    BY <1>6, <2>1, <2>3, RefuseDoes
    DEF TypeOK, KeyOk, PlaceOk, OwnsClaim, IsSecond, CallsGmail, Writing, Second
  <2>4. QED BY <2>2, <2>3
<1>7. ASSUME NEW r \in Requests, Number(r), NEW k \in Keys
      PROVE  KeyOk(k)'
  BY <1>7, NumberDoes DEF TypeOK, OwnsClaim, CallsGmail, Writing, KeyOk, PlaceInv, PlaceOk, IsSecond, Second
<1>8. ASSUME NEW r \in Requests, AppendEvent(r), NEW k \in Keys
      PROVE  KeyOk(k)'
  BY <1>8, AppendEventDoes DEF TypeOK, OwnsClaim, CallsGmail, Writing, KeyOk, PlaceInv, PlaceOk, IsSecond, Second
<1>9. ASSUME NEW r \in Requests, Collide(r), NEW k \in Keys
      PROVE  KeyOk(k)'
  <2>1. KeyOk(k) /\ PlaceOk(r)
    BY DEF PlaceInv
  <2>2. CASE owner[k] # r
    <3>1. owner'[k] = owner[k] /\ receipt'[k] = receipt[k] /\ effects'[k] = effects[k]
      BY <1>9, <2>2, CollideDoes DEF OwnsClaim
    <3>2. owner[k] \in Requests => /\ pc'[owner[k]] = pc[owner[k]]
                                  /\ reply'[owner[k]] = reply[owner[k]]
      BY <1>9, <2>2, CollideDoes
    <3>3. QED BY <2>1, <3>1, <3>2 DEF KeyOk, CallsGmail, TypeOK
  <2>3. CASE owner[k] = r
    <3>1. KeyOf[r] = k /\ receipt'[k] = receipt[k] /\ effects'[k] = effects[k]
          /\ pc'[r] = "done" /\ reply'[r] = "error"
      BY <1>9, <2>1, <2>3, CollideDoes DEF KeyOk
    <3>2. CASE receipt[k] = "none"
      <4>1. owner'[k] = Nobody
        BY <1>9, <2>3, <3>1, <3>2, CollideDoes DEF OwnsClaim
      <4>2. QED BY <2>1, <3>1, <3>2, <4>1 DEF KeyOk
    <3>3. CASE receipt[k] # "none"
      <4>1. owner'[k] = r
        BY <1>9, <2>3, <3>1, <3>3, CollideDoes DEF OwnsClaim
      <4>2. QED BY <2>1, <2>3, <3>1, <3>3, <4>1 DEF KeyOk, CallsGmail
    <3>4. QED BY <3>2, <3>3
  <2>4. QED BY <2>2, <2>3
<1>10. ASSUME NEW r \in Requests, CommitWhole(r), NEW k \in Keys
      PROVE  KeyOk(k)'
  <2>1. owner[KeyOf[r]] = r /\ KeyOk(k) /\ PlaceOk(r)
    BY <1>10, CommitWholeDoes DEF PlaceInv, PlaceOk, Writing, OwnsClaim, IsSecond
  <2>2. CASE k # KeyOf[r]
    <3>1. owner[k] # r
      BY <2>1, <2>2 DEF KeyOk, TypeOK
    <3>2. /\ owner'[k] = owner[k] /\ receipt'[k] = receipt[k]
          /\ effects'[k] = effects[k]
          /\ owner[k] \in Requests => /\ pc'[owner[k]] = pc[owner[k]]
                                      /\ reply'[owner[k]] = reply[owner[k]]
      BY <1>10, <2>2, <3>1, CommitWholeDoes DEF TypeOK
    <3>3. QED BY <2>1, <3>2 DEF KeyOk, CallsGmail, TypeOK
  <2>3. CASE k = KeyOf[r]
    <3>1. effects[k] = <<>>
      BY <1>10, <2>1, <2>3, CommitWholeDoes DEF PlaceOk, KeyOk, OwnsClaim, IsSecond, Writing
    <3>2. effects'[k] = <<ContentOf[r]>>
      <4>1. effects'[k] = Append(effects[k], ContentOf[r])
        BY <1>10, <2>3, CommitWholeDoes
      <4>2. QED BY <3>1, <4>1, AppendToEmpty
    <3>3. receipt'[k] = "completed" /\ owner'[k] = r
      BY <1>10, <2>1, <2>3, CommitWholeDoes
    <3>4. QED BY <2>1, <2>3, <3>2, <3>3, RequestAssumption DEF KeyOk
  <2>4. QED BY <2>2, <2>3
<1>11. ASSUME NEW r \in Requests, CommitAttempt(r), NEW k \in Keys
      PROVE  KeyOk(k)'
  <2>1. owner[KeyOf[r]] = r /\ KeyOk(k) /\ PlaceOk(r)
    BY <1>11, CommitAttemptDoes DEF PlaceInv, PlaceOk, Writing, OwnsClaim, IsSecond
  <2>2. CASE k # KeyOf[r]
    <3>1. owner[k] # r
      BY <2>1, <2>2 DEF KeyOk, TypeOK
    <3>2. /\ owner'[k] = owner[k] /\ receipt'[k] = receipt[k]
          /\ effects'[k] = effects[k]
          /\ owner[k] \in Requests => /\ pc'[owner[k]] = pc[owner[k]]
                                      /\ reply'[owner[k]] = reply[owner[k]]
      BY <1>11, <2>2, <3>1, CommitAttemptDoes DEF TypeOK
    <3>3. QED BY <2>1, <3>2 DEF KeyOk, CallsGmail, TypeOK
  <2>3. CASE k = KeyOf[r]
    <3>1. receipt'[k] = "in_progress" /\ owner'[k] = r /\ pc'[r] = "outside"
      BY <1>11, <2>1, <2>3, CommitAttemptDoes
    <3>2. CallsGmail(r)
      BY <1>11, CommitAttemptDoes
    <3>3. owner'[k] \in Requests /\ owner'[k] # Nobody /\ KeyOf[owner'[k]] = k
      BY <2>3, <3>1, RequestAssumption
    <3>4. pc'[owner'[k]] \in Second /\ CallsGmail(owner[k])'
      BY <3>1, <3>2 DEF Second, CallsGmail
    <3>5. QED BY <3>1, <3>3, <3>4 DEF KeyOk
  <2>4. QED BY <2>2, <2>3
<1>12. ASSUME NEW r \in Requests, CommitResult(r), NEW k \in Keys
      PROVE  KeyOk(k)'
  <2>1. owner[KeyOf[r]] = r /\ KeyOk(k) /\ PlaceOk(r)
    BY <1>12, CommitResultDoes DEF PlaceInv, PlaceOk, Writing, OwnsClaim, IsSecond
  <2>2. CASE k # KeyOf[r]
    <3>1. owner[k] # r
      BY <2>1, <2>2 DEF KeyOk, TypeOK
    <3>2. /\ owner'[k] = owner[k] /\ receipt'[k] = receipt[k]
          /\ effects'[k] = effects[k]
          /\ owner[k] \in Requests => /\ pc'[owner[k]] = pc[owner[k]]
                                      /\ reply'[owner[k]] = reply[owner[k]]
      BY <1>12, <2>2, <3>1, CommitResultDoes DEF TypeOK
    <3>3. QED BY <2>1, <3>2 DEF KeyOk, CallsGmail, TypeOK
  <2>3. CASE k = KeyOf[r]
    BY <1>12, <2>1, <2>3, CommitResultDoes
    DEF TypeOK, KeyOk, PlaceOk, OwnsClaim, IsSecond, CallsGmail, Writing, Second
  <2>4. QED BY <2>2, <2>3
<1>13. ASSUME NEW r \in Requests, Deliver(r), NEW k \in Keys
      PROVE  KeyOk(k)'
  BY <1>13, DeliverDoes DEF TypeOK, OwnsClaim, CallsGmail, Writing, KeyOk, PlaceInv, PlaceOk, IsSecond, Second
<1>14. ASSUME NEW r \in Requests, DeliverFails(r), NEW k \in Keys
      PROVE  KeyOk(k)'
  <2>1. owner[KeyOf[r]] = r /\ KeyOk(k) /\ PlaceOk(r)
    BY <1>14, DeliverFailsDoes DEF PlaceInv, PlaceOk, Writing, OwnsClaim, IsSecond
  <2>2. CASE k # KeyOf[r]
    <3>1. owner[k] # r
      BY <2>1, <2>2 DEF KeyOk, TypeOK
    <3>2. /\ owner'[k] = owner[k] /\ receipt'[k] = receipt[k]
          /\ effects'[k] = effects[k]
          /\ owner[k] \in Requests => /\ pc'[owner[k]] = pc[owner[k]]
                                      /\ reply'[owner[k]] = reply[owner[k]]
      BY <1>14, <2>2, <3>1, DeliverFailsDoes DEF TypeOK
    <3>3. QED BY <2>1, <3>2 DEF KeyOk, CallsGmail, TypeOK
  <2>3. CASE k = KeyOf[r]
    BY <1>14, <2>1, <2>3, DeliverFailsDoes
    DEF TypeOK, KeyOk, PlaceOk, OwnsClaim, IsSecond, CallsGmail, Writing, Second
  <2>4. QED BY <2>2, <2>3
<1>15. ASSUME NEW r \in Requests, Fail(r), NEW k \in Keys
      PROVE  KeyOk(k)'
  BY <1>15, FailDoes DEF TypeOK, OwnsClaim, CallsGmail, Writing, KeyOk, PlaceInv, PlaceOk, IsSecond, Second
<1>16. ASSUME NEW r \in Requests, Timeout(r), NEW k \in Keys
      PROVE  KeyOk(k)'
  <2>1. KeyOk(k) /\ PlaceOk(r)
    BY DEF PlaceInv
  <2>2. CASE owner[k] # r
    <3>1. owner'[k] = owner[k] /\ receipt'[k] = receipt[k] /\ effects'[k] = effects[k]
      BY <1>16, <2>2, TimeoutDoes DEF OwnsClaim
    <3>2. owner[k] \in Requests => /\ pc'[owner[k]] = pc[owner[k]]
                                  /\ reply'[owner[k]] = reply[owner[k]]
      BY <1>16, <2>2, TimeoutDoes
    <3>3. QED BY <2>1, <3>1, <3>2 DEF KeyOk, CallsGmail, TypeOK
  <2>3. CASE owner[k] = r
    <3>1. KeyOf[r] = k /\ receipt'[k] = receipt[k] /\ effects'[k] = effects[k]
          /\ pc'[r] = "done" /\ reply'[r] = "error"
      BY <1>16, <2>1, <2>3, TimeoutDoes DEF KeyOk
    <3>2. CASE receipt[k] = "none"
      <4>1. owner'[k] = Nobody
        BY <1>16, <2>3, <3>1, <3>2, TimeoutDoes DEF OwnsClaim
      <4>2. QED BY <2>1, <3>1, <3>2, <4>1 DEF KeyOk
    <3>3. CASE receipt[k] # "none"
      <4>1. owner'[k] = r
        BY <1>16, <2>3, <3>1, <3>3, TimeoutDoes DEF OwnsClaim
      <4>2. QED BY <2>1, <2>3, <3>1, <3>3, <4>1 DEF KeyOk, CallsGmail
    <3>4. QED BY <3>2, <3>3
  <2>4. QED BY <2>2, <2>3
<1>17. ASSUME NEW r \in Requests, Crash(r), NEW k \in Keys
      PROVE  KeyOk(k)'
  <2>1. KeyOk(k) /\ PlaceOk(r)
    BY DEF PlaceInv
  <2>2. CASE owner[k] # r
    <3>1. owner'[k] = owner[k] /\ receipt'[k] = receipt[k] /\ effects'[k] = effects[k]
      BY <1>17, <2>2, CrashDoes DEF OwnsClaim
    <3>2. owner[k] \in Requests => /\ pc'[owner[k]] = pc[owner[k]]
                                  /\ reply'[owner[k]] = reply[owner[k]]
      BY <1>17, <2>2, CrashDoes
    <3>3. QED BY <2>1, <3>1, <3>2 DEF KeyOk, CallsGmail, TypeOK
  <2>3. CASE owner[k] = r
    <3>1. KeyOf[r] = k /\ receipt'[k] = receipt[k] /\ effects'[k] = effects[k]
          /\ pc'[r] = "done" /\ reply'[r] = "error"
      BY <1>17, <2>1, <2>3, CrashDoes DEF KeyOk
    <3>2. CASE receipt[k] = "none"
      <4>1. owner'[k] = Nobody
        BY <1>17, <2>3, <3>1, <3>2, CrashDoes DEF OwnsClaim
      <4>2. QED BY <2>1, <3>1, <3>2, <4>1 DEF KeyOk
    <3>3. CASE receipt[k] # "none"
      <4>1. owner'[k] = r
        BY <1>17, <2>3, <3>1, <3>3, CrashDoes DEF OwnsClaim
      <4>2. QED BY <2>1, <2>3, <3>1, <3>3, <4>1 DEF KeyOk, CallsGmail
    <3>4. QED BY <3>2, <3>3
  <2>4. QED BY <2>2, <2>3
<1>18. ASSUME NEW l \in Keys, Age(l), NEW k \in Keys
      PROVE  KeyOk(k)'
  BY <1>18 DEF Age, store, TypeOK, OwnsClaim, CallsGmail, Writing, KeyOk, PlaceInv, PlaceOk, IsSecond, Second
<1>19. ASSUME UNCHANGED vars
      PROVE  KeyInv'
  BY <1>19 DEF vars, store, TypeOK, OwnsClaim, CallsGmail, Writing, KeyOk, PlaceInv, PlaceOk, IsSecond, Second
<1>20. QED
  BY <1>1, <1>2, <1>3, <1>4, <1>5, <1>6, <1>7, <1>8, <1>9, <1>10, <1>11, <1>12, <1>13, <1>14, <1>15, <1>16, <1>17, <1>18, <1>19 DEF Next, Step

\* A request is where its receipt says.
LEMMA PlaceStep ==
  ASSUME TypeOK, KeyInv, PlaceInv, [Next]_vars
  PROVE  PlaceInv'
<1> USE RequestAssumption DEF PlaceInv
<1>1. ASSUME NEW r \in Requests, Claim(r), NEW p \in Requests
      PROVE  PlaceOk(p)'
  BY <1>1, ClaimDoes DEF TypeOK, OwnsClaim, CallsGmail, Writing, KeyInv, KeyOk, PlaceOk, IsSecond
<1>2. ASSUME NEW r \in Requests, Replay(r), NEW p \in Requests
      PROVE  PlaceOk(p)'
  BY <1>2, ReplayDoes DEF TypeOK, OwnsClaim, CallsGmail, Writing, KeyInv, KeyOk, PlaceOk, IsSecond
<1>3. ASSUME NEW r \in Requests, Conflict(r), NEW p \in Requests
      PROVE  PlaceOk(p)'
  BY <1>3, ConflictDoes DEF TypeOK, OwnsClaim, CallsGmail, Writing, KeyInv, KeyOk, PlaceOk, IsSecond
<1>4. ASSUME NEW r \in Requests, Lock(r), NEW p \in Requests
      PROVE  PlaceOk(p)'
  BY <1>4, LockDoes DEF TypeOK, OwnsClaim, CallsGmail, Writing, KeyInv, KeyOk, PlaceOk, IsSecond
<1>5. ASSUME NEW r \in Requests, Proceed(r), NEW p \in Requests
      PROVE  PlaceOk(p)'
  BY <1>5, ProceedDoes DEF TypeOK, OwnsClaim, CallsGmail, Writing, KeyInv, KeyOk, PlaceOk, IsSecond
<1>6. ASSUME NEW r \in Requests, Refuse(r), NEW p \in Requests
      PROVE  PlaceOk(p)'
  <2>1. CASE p = r
    BY <1>6, <2>1, RefuseDoes
    DEF TypeOK, KeyInv, KeyOk, PlaceOk, OwnsClaim, IsSecond, CallsGmail, Writing
  <2>2. CASE p # r
    <3>1. pc'[p] = pc[p] /\ reply'[p] = reply[p] /\ PlaceOk(p) /\ owner[KeyOf[r]] = r
      BY <1>6, <2>2, RefuseDoes DEF PlaceOk, Writing, OwnsClaim, IsSecond
    <3>2. KeyOf[p] # KeyOf[r] => /\ receipt'[KeyOf[p]] = receipt[KeyOf[p]]
                                /\ owner'[KeyOf[p]] = owner[KeyOf[p]]
                                /\ effects'[KeyOf[p]] = effects[KeyOf[p]]
      BY <1>6, <2>2, RefuseDoes DEF TypeOK
    <3>3. KeyOf[p] = KeyOf[r] => owner'[KeyOf[p]] # p /\ owner[KeyOf[p]] # p
      BY <1>6, <2>2, <3>1, RefuseDoes DEF TypeOK
    <3>4. QED BY <3>1, <3>2, <3>3 DEF PlaceOk, OwnsClaim, IsSecond, CallsGmail, Writing
  <2>3. QED BY <2>1, <2>2
<1>7. ASSUME NEW r \in Requests, Number(r), NEW p \in Requests
      PROVE  PlaceOk(p)'
  BY <1>7, NumberDoes DEF TypeOK, OwnsClaim, CallsGmail, Writing, KeyInv, KeyOk, PlaceOk, IsSecond
<1>8. ASSUME NEW r \in Requests, AppendEvent(r), NEW p \in Requests
      PROVE  PlaceOk(p)'
  BY <1>8, AppendEventDoes DEF TypeOK, OwnsClaim, CallsGmail, Writing, KeyInv, KeyOk, PlaceOk, IsSecond
<1>9. ASSUME NEW r \in Requests, Collide(r), NEW p \in Requests
      PROVE  PlaceOk(p)'
  BY <1>9, CollideDoes DEF TypeOK, OwnsClaim, CallsGmail, Writing, KeyInv, KeyOk, PlaceOk, IsSecond
<1>10. ASSUME NEW r \in Requests, CommitWhole(r), NEW p \in Requests
      PROVE  PlaceOk(p)'
  <2>1. CASE p = r
    <3>1. pc'[p] = "done" /\ reply'[p] # "none"
      BY <1>10, <2>1, CommitWholeDoes
    <3>2. QED BY <3>1 DEF PlaceOk, Writing
  <2>2. CASE p # r
    <3>1. pc'[p] = pc[p] /\ reply'[p] = reply[p] /\ PlaceOk(p) /\ owner[KeyOf[r]] = r
      BY <1>10, <2>2, CommitWholeDoes DEF PlaceOk, Writing, OwnsClaim, IsSecond
    <3>2. KeyOf[p] # KeyOf[r] => /\ receipt'[KeyOf[p]] = receipt[KeyOf[p]]
                                /\ owner'[KeyOf[p]] = owner[KeyOf[p]]
                                /\ effects'[KeyOf[p]] = effects[KeyOf[p]]
      BY <1>10, <2>2, CommitWholeDoes DEF TypeOK
    <3>3. KeyOf[p] = KeyOf[r] => owner'[KeyOf[p]] # p /\ owner[KeyOf[p]] # p
      BY <1>10, <2>2, <3>1, CommitWholeDoes DEF TypeOK
    <3>4. QED BY <3>1, <3>2, <3>3 DEF PlaceOk, OwnsClaim, IsSecond, CallsGmail, Writing
  <2>3. QED BY <2>1, <2>2
<1>11. ASSUME NEW r \in Requests, CommitAttempt(r), NEW p \in Requests
      PROVE  PlaceOk(p)'
  <2>1. CASE p = r
    BY <1>11, <2>1, CommitAttemptDoes
    DEF TypeOK, KeyInv, KeyOk, PlaceOk, OwnsClaim, IsSecond, CallsGmail, Writing
  <2>2. CASE p # r
    <3>1. pc'[p] = pc[p] /\ reply'[p] = reply[p] /\ PlaceOk(p) /\ owner[KeyOf[r]] = r
      BY <1>11, <2>2, CommitAttemptDoes DEF PlaceOk, Writing, OwnsClaim, IsSecond
    <3>2. KeyOf[p] # KeyOf[r] => /\ receipt'[KeyOf[p]] = receipt[KeyOf[p]]
                                /\ owner'[KeyOf[p]] = owner[KeyOf[p]]
                                /\ effects'[KeyOf[p]] = effects[KeyOf[p]]
      BY <1>11, <2>2, CommitAttemptDoes DEF TypeOK
    <3>3. KeyOf[p] = KeyOf[r] => owner'[KeyOf[p]] # p /\ owner[KeyOf[p]] # p
      BY <1>11, <2>2, <3>1, CommitAttemptDoes DEF TypeOK
    <3>4. QED BY <3>1, <3>2, <3>3 DEF PlaceOk, OwnsClaim, IsSecond, CallsGmail, Writing
  <2>3. QED BY <2>1, <2>2
<1>12. ASSUME NEW r \in Requests, CommitResult(r), NEW p \in Requests
      PROVE  PlaceOk(p)'
  <2>1. CASE p = r
    <3>1. pc'[p] = "done" /\ reply'[p] # "none"
      BY <1>12, <2>1, CommitResultDoes
    <3>2. QED BY <3>1 DEF PlaceOk, Writing
  <2>2. CASE p # r
    <3>1. pc'[p] = pc[p] /\ reply'[p] = reply[p] /\ PlaceOk(p) /\ owner[KeyOf[r]] = r
      BY <1>12, <2>2, CommitResultDoes DEF PlaceOk, Writing, OwnsClaim, IsSecond
    <3>2. KeyOf[p] # KeyOf[r] => /\ receipt'[KeyOf[p]] = receipt[KeyOf[p]]
                                /\ owner'[KeyOf[p]] = owner[KeyOf[p]]
                                /\ effects'[KeyOf[p]] = effects[KeyOf[p]]
      BY <1>12, <2>2, CommitResultDoes DEF TypeOK
    <3>3. KeyOf[p] = KeyOf[r] => owner'[KeyOf[p]] # p /\ owner[KeyOf[p]] # p
      BY <1>12, <2>2, <3>1, CommitResultDoes DEF TypeOK
    <3>4. QED BY <3>1, <3>2, <3>3 DEF PlaceOk, OwnsClaim, IsSecond, CallsGmail, Writing
  <2>3. QED BY <2>1, <2>2
<1>13. ASSUME NEW r \in Requests, Deliver(r), NEW p \in Requests
      PROVE  PlaceOk(p)'
  <2>1. CASE p = r
    <3>1. effects'[KeyOf[r]] = Append(effects[KeyOf[r]], ContentOf[r])
          /\ effects[KeyOf[r]] = <<>>
      BY <1>13, DeliverDoes DEF PlaceOk
    <3>2. effects'[KeyOf[r]] = <<ContentOf[r]>>
      BY <3>1, AppendToEmpty
    <3>3. owner[KeyOf[r]] = r /\ receipt[KeyOf[r]] = "in_progress" /\ CallsGmail(r)
      BY <1>13, DeliverDoes DEF PlaceOk, KeyInv, KeyOk
    <3>4. IsSecond(r)' /\ pc'[r] \in {"writing", "written"}
      BY <1>13, <3>2, <3>3, DeliverDoes DEF IsSecond, CallsGmail
    <3>5. reply'[r] = "none"
      BY <1>13, DeliverDoes DEF PlaceOk
    <3>6. QED BY <2>1, <3>4, <3>5 DEF PlaceOk, Writing
  <2>2. CASE p # r
    <3>1. pc'[p] = pc[p] /\ reply'[p] = reply[p] /\ PlaceOk(p) /\ owner[KeyOf[r]] = r
      BY <1>13, <2>2, DeliverDoes DEF PlaceOk, Writing, OwnsClaim, IsSecond
    <3>2. KeyOf[p] # KeyOf[r] => /\ receipt'[KeyOf[p]] = receipt[KeyOf[p]]
                                /\ owner'[KeyOf[p]] = owner[KeyOf[p]]
                                /\ effects'[KeyOf[p]] = effects[KeyOf[p]]
      BY <1>13, <2>2, DeliverDoes DEF TypeOK
    <3>3. KeyOf[p] = KeyOf[r] => owner'[KeyOf[p]] # p /\ owner[KeyOf[p]] # p
      BY <1>13, <2>2, <3>1, DeliverDoes DEF TypeOK
    <3>4. QED BY <3>1, <3>2, <3>3 DEF PlaceOk, OwnsClaim, IsSecond, CallsGmail, Writing
  <2>3. QED BY <2>1, <2>2
<1>14. ASSUME NEW r \in Requests, DeliverFails(r), NEW p \in Requests
      PROVE  PlaceOk(p)'
  <2>1. CASE p = r
    BY <1>14, <2>1, DeliverFailsDoes
    DEF TypeOK, KeyInv, KeyOk, PlaceOk, OwnsClaim, IsSecond, CallsGmail, Writing
  <2>2. CASE p # r
    <3>1. pc'[p] = pc[p] /\ reply'[p] = reply[p] /\ PlaceOk(p) /\ owner[KeyOf[r]] = r
      BY <1>14, <2>2, DeliverFailsDoes DEF PlaceOk, Writing, OwnsClaim, IsSecond
    <3>2. KeyOf[p] # KeyOf[r] => /\ receipt'[KeyOf[p]] = receipt[KeyOf[p]]
                                /\ owner'[KeyOf[p]] = owner[KeyOf[p]]
                                /\ effects'[KeyOf[p]] = effects[KeyOf[p]]
      BY <1>14, <2>2, DeliverFailsDoes DEF TypeOK
    <3>3. KeyOf[p] = KeyOf[r] => owner'[KeyOf[p]] # p /\ owner[KeyOf[p]] # p
      BY <1>14, <2>2, <3>1, DeliverFailsDoes DEF TypeOK
    <3>4. QED BY <3>1, <3>2, <3>3 DEF PlaceOk, OwnsClaim, IsSecond, CallsGmail, Writing
  <2>3. QED BY <2>1, <2>2
<1>15. ASSUME NEW r \in Requests, Fail(r), NEW p \in Requests
      PROVE  PlaceOk(p)'
  BY <1>15, FailDoes DEF TypeOK, OwnsClaim, CallsGmail, Writing, KeyInv, KeyOk, PlaceOk, IsSecond
<1>16. ASSUME NEW r \in Requests, Timeout(r), NEW p \in Requests
      PROVE  PlaceOk(p)'
  BY <1>16, TimeoutDoes DEF TypeOK, OwnsClaim, CallsGmail, Writing, KeyInv, KeyOk, PlaceOk, IsSecond
<1>17. ASSUME NEW r \in Requests, Crash(r), NEW p \in Requests
      PROVE  PlaceOk(p)'
  BY <1>17, CrashDoes DEF TypeOK, OwnsClaim, CallsGmail, Writing, KeyInv, KeyOk, PlaceOk, IsSecond
<1>18. ASSUME NEW l \in Keys, Age(l), NEW p \in Requests
      PROVE  PlaceOk(p)'
  BY <1>18 DEF Age, store, TypeOK, OwnsClaim, CallsGmail, Writing, KeyInv, KeyOk, PlaceOk, IsSecond
<1>19. ASSUME UNCHANGED vars
      PROVE  PlaceInv'
  BY <1>19 DEF vars, store, TypeOK, OwnsClaim, CallsGmail, Writing, KeyInv, KeyOk, PlaceOk, IsSecond
<1>20. QED
  BY <1>1, <1>2, <1>3, <1>4, <1>5, <1>6, <1>7, <1>8, <1>9, <1>10, <1>11, <1>12, <1>13, <1>14, <1>15, <1>16, <1>17, <1>18, <1>19 DEF Next, Step

\* From the check to the commit the lock is held.
LEMMA LockStep ==
  ASSUME TypeOK, KeyInv, PlaceInv, LockInv, [Next]_vars
  PROVE  LockInv'
<1> USE RequestAssumption DEF LockInv
<1>1. ASSUME NEW r \in Requests, Claim(r), NEW p \in Requests
      PROVE  LockOk(p)'
  BY <1>1, ClaimDoes DEF TypeOK, OwnsClaim, CallsGmail, Writing, KeyInv, KeyOk, PlaceInv, PlaceOk, LockOk, Scope, WritesEvent, IsSecond
<1>2. ASSUME NEW r \in Requests, Replay(r), NEW p \in Requests
      PROVE  LockOk(p)'
  <2>1. LockOk(p) /\ PlaceOk(p) /\ PlaceOk(r)
    BY DEF PlaceInv
  <2>2. OwnsClaim(p)' => OwnsClaim(p)
    BY <1>2, ReplayDoes DEF OwnsClaim, TypeOK
  <2>3. CASE p = r
    BY <1>2, <2>1, <2>2, <2>3, ReplayDoes
    DEF TypeOK, LockOk, PlaceOk, OwnsClaim, IsSecond, CallsGmail, Writing, Scope
  <2>4. CASE p # r
    <3>1. pc'[p] = pc[p]
      BY <1>2, <2>4, ReplayDoes
    <3>2. Scope(p) \in Findings \cup {Tests}
      BY DEF Scope
    <3>3. lock[Scope(p)] = p => lock'[Scope(p)] = p
      BY <1>2, <2>4, <3>2, ReplayDoes
    <3>4. QED BY <2>1, <2>2, <3>1, <3>3 DEF LockOk, Scope
  <2>5. QED BY <2>3, <2>4
<1>3. ASSUME NEW r \in Requests, Conflict(r), NEW p \in Requests
      PROVE  LockOk(p)'
  <2>1. LockOk(p) /\ PlaceOk(p) /\ PlaceOk(r)
    BY DEF PlaceInv
  <2>2. OwnsClaim(p)' => OwnsClaim(p)
    BY <1>3, ConflictDoes DEF OwnsClaim, TypeOK
  <2>3. CASE p = r
    BY <1>3, <2>1, <2>2, <2>3, ConflictDoes
    DEF TypeOK, LockOk, PlaceOk, OwnsClaim, IsSecond, CallsGmail, Writing, Scope
  <2>4. CASE p # r
    <3>1. pc'[p] = pc[p]
      BY <1>3, <2>4, ConflictDoes
    <3>2. Scope(p) \in Findings \cup {Tests}
      BY DEF Scope
    <3>3. lock[Scope(p)] = p => lock'[Scope(p)] = p
      BY <1>3, <2>4, <3>2, ConflictDoes
    <3>4. QED BY <2>1, <2>2, <3>1, <3>3 DEF LockOk, Scope
  <2>5. QED BY <2>3, <2>4
<1>4. ASSUME NEW r \in Requests, Lock(r), NEW p \in Requests
      PROVE  LockOk(p)'
  <2>1. LockOk(p) /\ PlaceOk(p) /\ PlaceOk(r)
    BY DEF PlaceInv
  <2>2. OwnsClaim(p)' => OwnsClaim(p)
    BY <1>4, LockDoes DEF OwnsClaim, TypeOK
  <2>3. CASE p = r
    BY <1>4, <2>1, <2>2, <2>3, LockDoes
    DEF TypeOK, LockOk, PlaceOk, OwnsClaim, IsSecond, CallsGmail, Writing, Scope
  <2>4. CASE p # r
    <3>1. pc'[p] = pc[p]
      BY <1>4, <2>4, LockDoes
    <3>2. Scope(p) \in Findings \cup {Tests}
      BY DEF Scope
    <3>3. lock[Scope(p)] = p => lock'[Scope(p)] = p
      BY <1>4, <2>4, <3>2, LockDoes
    <3>4. QED BY <2>1, <2>2, <3>1, <3>3 DEF LockOk, Scope
  <2>5. QED BY <2>3, <2>4
<1>5. ASSUME NEW r \in Requests, Proceed(r), NEW p \in Requests
      PROVE  LockOk(p)'
  <2>1. LockOk(p) /\ PlaceOk(p) /\ PlaceOk(r)
    BY DEF PlaceInv
  <2>2. OwnsClaim(p)' => OwnsClaim(p)
    BY <1>5, ProceedDoes DEF OwnsClaim, TypeOK
  <2>3. CASE p = r
    BY <1>5, <2>1, <2>2, <2>3, ProceedDoes
    DEF TypeOK, LockOk, PlaceOk, OwnsClaim, IsSecond, CallsGmail, Writing, Scope
  <2>4. CASE p # r
    <3>1. pc'[p] = pc[p]
      BY <1>5, <2>4, ProceedDoes
    <3>2. Scope(p) \in Findings \cup {Tests}
      BY DEF Scope
    <3>3. lock[Scope(p)] = p => lock'[Scope(p)] = p
      BY <1>5, <2>4, <3>2, ProceedDoes
    <3>4. QED BY <2>1, <2>2, <3>1, <3>3 DEF LockOk, Scope
  <2>5. QED BY <2>3, <2>4
<1>6. ASSUME NEW r \in Requests, Refuse(r), NEW p \in Requests
      PROVE  LockOk(p)'
  <2>1. LockOk(p) /\ PlaceOk(p) /\ PlaceOk(r)
    BY DEF PlaceInv
  <2>2. OwnsClaim(p)' => OwnsClaim(p)
    BY <1>6, RefuseDoes DEF OwnsClaim, TypeOK
  <2>3. CASE p = r
    BY <1>6, <2>1, <2>2, <2>3, RefuseDoes
    DEF TypeOK, LockOk, PlaceOk, OwnsClaim, IsSecond, CallsGmail, Writing, Scope
  <2>4. CASE p # r
    <3>1. pc'[p] = pc[p]
      BY <1>6, <2>4, RefuseDoes
    <3>2. Scope(p) \in Findings \cup {Tests}
      BY DEF Scope
    <3>3. lock[Scope(p)] = p => lock'[Scope(p)] = p
      BY <1>6, <2>4, <3>2, RefuseDoes
    <3>4. QED BY <2>1, <2>2, <3>1, <3>3 DEF LockOk, Scope
  <2>5. QED BY <2>3, <2>4
<1>7. ASSUME NEW r \in Requests, Number(r), NEW p \in Requests
      PROVE  LockOk(p)'
  <2>1. LockOk(p) /\ PlaceOk(p) /\ PlaceOk(r)
    BY DEF PlaceInv
  <2>2. OwnsClaim(p)' => OwnsClaim(p)
    BY <1>7, NumberDoes DEF OwnsClaim, TypeOK
  <2>3. CASE p = r
    BY <1>7, <2>1, <2>2, <2>3, NumberDoes
    DEF TypeOK, LockOk, PlaceOk, OwnsClaim, IsSecond, CallsGmail, Writing, Scope
  <2>4. CASE p # r
    <3>1. pc'[p] = pc[p]
      BY <1>7, <2>4, NumberDoes
    <3>2. Scope(p) \in Findings \cup {Tests}
      BY DEF Scope
    <3>3. lock[Scope(p)] = p => lock'[Scope(p)] = p
      BY <1>7, <2>4, <3>2, NumberDoes
    <3>4. QED BY <2>1, <2>2, <3>1, <3>3 DEF LockOk, Scope
  <2>5. QED BY <2>3, <2>4
<1>8. ASSUME NEW r \in Requests, AppendEvent(r), NEW p \in Requests
      PROVE  LockOk(p)'
  <2>1. LockOk(p) /\ PlaceOk(p) /\ PlaceOk(r)
    BY DEF PlaceInv
  <2>2. OwnsClaim(p)' => OwnsClaim(p)
    BY <1>8, AppendEventDoes DEF OwnsClaim, TypeOK
  <2>3. CASE p = r
    BY <1>8, <2>1, <2>2, <2>3, AppendEventDoes
    DEF TypeOK, LockOk, PlaceOk, OwnsClaim, IsSecond, CallsGmail, Writing, Scope
  <2>4. CASE p # r
    <3>1. pc'[p] = pc[p]
      BY <1>8, <2>4, AppendEventDoes
    <3>2. Scope(p) \in Findings \cup {Tests}
      BY DEF Scope
    <3>3. lock[Scope(p)] = p => lock'[Scope(p)] = p
      BY <1>8, <2>4, <3>2, AppendEventDoes
    <3>4. QED BY <2>1, <2>2, <3>1, <3>3 DEF LockOk, Scope
  <2>5. QED BY <2>3, <2>4
<1>9. ASSUME NEW r \in Requests, Collide(r), NEW p \in Requests
      PROVE  LockOk(p)'
  <2>1. LockOk(p) /\ PlaceOk(p) /\ PlaceOk(r)
    BY DEF PlaceInv
  <2>2. OwnsClaim(p)' => OwnsClaim(p)
    BY <1>9, CollideDoes DEF OwnsClaim, TypeOK
  <2>3. CASE p = r
    BY <1>9, <2>1, <2>2, <2>3, CollideDoes
    DEF TypeOK, LockOk, PlaceOk, OwnsClaim, IsSecond, CallsGmail, Writing, Scope
  <2>4. CASE p # r
    <3>1. pc'[p] = pc[p]
      BY <1>9, <2>4, CollideDoes
    <3>2. Scope(p) \in Findings \cup {Tests}
      BY DEF Scope
    <3>3. lock[Scope(p)] = p => lock'[Scope(p)] = p
      BY <1>9, <2>4, <3>2, CollideDoes
    <3>4. QED BY <2>1, <2>2, <3>1, <3>3 DEF LockOk, Scope
  <2>5. QED BY <2>3, <2>4
<1>10. ASSUME NEW r \in Requests, CommitWhole(r), NEW p \in Requests
      PROVE  LockOk(p)'
  <2>1. LockOk(p) /\ PlaceOk(p) /\ PlaceOk(r)
    BY DEF PlaceInv
  <2>2. OwnsClaim(p)' => OwnsClaim(p)
    BY <1>10, CommitWholeDoes DEF OwnsClaim, TypeOK
  <2>3. CASE p = r
    BY <1>10, <2>1, <2>2, <2>3, CommitWholeDoes
    DEF TypeOK, LockOk, PlaceOk, OwnsClaim, IsSecond, CallsGmail, Writing, Scope
  <2>4. CASE p # r
    <3>1. pc'[p] = pc[p]
      BY <1>10, <2>4, CommitWholeDoes
    <3>2. Scope(p) \in Findings \cup {Tests}
      BY DEF Scope
    <3>3. lock[Scope(p)] = p => lock'[Scope(p)] = p
      BY <1>10, <2>4, <3>2, CommitWholeDoes
    <3>4. QED BY <2>1, <2>2, <3>1, <3>3 DEF LockOk, Scope
  <2>5. QED BY <2>3, <2>4
<1>11. ASSUME NEW r \in Requests, CommitAttempt(r), NEW p \in Requests
      PROVE  LockOk(p)'
  <2>1. LockOk(p) /\ PlaceOk(p) /\ PlaceOk(r)
    BY DEF PlaceInv
  <2>2. OwnsClaim(p)' => OwnsClaim(p)
    BY <1>11, CommitAttemptDoes DEF OwnsClaim, TypeOK
  <2>3. CASE p = r
    BY <1>11, <2>1, <2>2, <2>3, CommitAttemptDoes
    DEF TypeOK, LockOk, PlaceOk, OwnsClaim, IsSecond, CallsGmail, Writing, Scope
  <2>4. CASE p # r
    <3>1. pc'[p] = pc[p]
      BY <1>11, <2>4, CommitAttemptDoes
    <3>2. Scope(p) \in Findings \cup {Tests}
      BY DEF Scope
    <3>3. lock[Scope(p)] = p => lock'[Scope(p)] = p
      BY <1>11, <2>4, <3>2, CommitAttemptDoes
    <3>4. QED BY <2>1, <2>2, <3>1, <3>3 DEF LockOk, Scope
  <2>5. QED BY <2>3, <2>4
<1>12. ASSUME NEW r \in Requests, CommitResult(r), NEW p \in Requests
      PROVE  LockOk(p)'
  <2>1. LockOk(p) /\ PlaceOk(p) /\ PlaceOk(r)
    BY DEF PlaceInv
  <2>2. OwnsClaim(p)' => OwnsClaim(p)
    BY <1>12, CommitResultDoes DEF OwnsClaim, TypeOK
  <2>3. CASE p = r
    BY <1>12, <2>1, <2>2, <2>3, CommitResultDoes
    DEF TypeOK, LockOk, PlaceOk, OwnsClaim, IsSecond, CallsGmail, Writing, Scope
  <2>4. CASE p # r
    <3>1. pc'[p] = pc[p]
      BY <1>12, <2>4, CommitResultDoes
    <3>2. Scope(p) \in Findings \cup {Tests}
      BY DEF Scope
    <3>3. lock[Scope(p)] = p => lock'[Scope(p)] = p
      BY <1>12, <2>4, <3>2, CommitResultDoes
    <3>4. QED BY <2>1, <2>2, <3>1, <3>3 DEF LockOk, Scope
  <2>5. QED BY <2>3, <2>4
<1>13. ASSUME NEW r \in Requests, Deliver(r), NEW p \in Requests
      PROVE  LockOk(p)'
  <2>1. LockOk(p) /\ PlaceOk(p) /\ PlaceOk(r)
    BY DEF PlaceInv
  <2>2. OwnsClaim(p)' => OwnsClaim(p)
    BY <1>13, DeliverDoes DEF OwnsClaim, TypeOK
  <2>3. CASE p = r
    BY <1>13, <2>1, <2>2, <2>3, DeliverDoes
    DEF TypeOK, LockOk, PlaceOk, OwnsClaim, IsSecond, CallsGmail, Writing, Scope
  <2>4. CASE p # r
    <3>1. pc'[p] = pc[p]
      BY <1>13, <2>4, DeliverDoes
    <3>2. Scope(p) \in Findings \cup {Tests}
      BY DEF Scope
    <3>3. lock[Scope(p)] = p => lock'[Scope(p)] = p
      BY <1>13, <2>4, <3>2, DeliverDoes
    <3>4. QED BY <2>1, <2>2, <3>1, <3>3 DEF LockOk, Scope
  <2>5. QED BY <2>3, <2>4
<1>14. ASSUME NEW r \in Requests, DeliverFails(r), NEW p \in Requests
      PROVE  LockOk(p)'
  <2>1. LockOk(p) /\ PlaceOk(p) /\ PlaceOk(r)
    BY DEF PlaceInv
  <2>2. OwnsClaim(p)' => OwnsClaim(p)
    BY <1>14, DeliverFailsDoes DEF OwnsClaim, TypeOK
  <2>3. CASE p = r
    BY <1>14, <2>1, <2>2, <2>3, DeliverFailsDoes
    DEF TypeOK, LockOk, PlaceOk, OwnsClaim, IsSecond, CallsGmail, Writing, Scope
  <2>4. CASE p # r
    <3>1. pc'[p] = pc[p]
      BY <1>14, <2>4, DeliverFailsDoes
    <3>2. Scope(p) \in Findings \cup {Tests}
      BY DEF Scope
    <3>3. lock[Scope(p)] = p => lock'[Scope(p)] = p
      BY <1>14, <2>4, <3>2, DeliverFailsDoes
    <3>4. QED BY <2>1, <2>2, <3>1, <3>3 DEF LockOk, Scope
  <2>5. QED BY <2>3, <2>4
<1>15. ASSUME NEW r \in Requests, Fail(r), NEW p \in Requests
      PROVE  LockOk(p)'
  <2>1. LockOk(p) /\ PlaceOk(p) /\ PlaceOk(r)
    BY DEF PlaceInv
  <2>2. OwnsClaim(p)' => OwnsClaim(p)
    BY <1>15, FailDoes DEF OwnsClaim, TypeOK
  <2>3. CASE p = r
    BY <1>15, <2>1, <2>2, <2>3, FailDoes
    DEF TypeOK, LockOk, PlaceOk, OwnsClaim, IsSecond, CallsGmail, Writing, Scope
  <2>4. CASE p # r
    <3>1. pc'[p] = pc[p]
      BY <1>15, <2>4, FailDoes
    <3>2. Scope(p) \in Findings \cup {Tests}
      BY DEF Scope
    <3>3. lock[Scope(p)] = p => lock'[Scope(p)] = p
      BY <1>15, <2>4, <3>2, FailDoes
    <3>4. QED BY <2>1, <2>2, <3>1, <3>3 DEF LockOk, Scope
  <2>5. QED BY <2>3, <2>4
<1>16. ASSUME NEW r \in Requests, Timeout(r), NEW p \in Requests
      PROVE  LockOk(p)'
  <2>1. LockOk(p) /\ PlaceOk(p) /\ PlaceOk(r)
    BY DEF PlaceInv
  <2>2. OwnsClaim(p)' => OwnsClaim(p)
    BY <1>16, TimeoutDoes DEF OwnsClaim, TypeOK
  <2>3. CASE p = r
    BY <1>16, <2>1, <2>2, <2>3, TimeoutDoes
    DEF TypeOK, LockOk, PlaceOk, OwnsClaim, IsSecond, CallsGmail, Writing, Scope
  <2>4. CASE p # r
    <3>1. pc'[p] = pc[p]
      BY <1>16, <2>4, TimeoutDoes
    <3>2. Scope(p) \in Findings \cup {Tests}
      BY DEF Scope
    <3>3. lock[Scope(p)] = p => lock'[Scope(p)] = p
      BY <1>16, <2>4, <3>2, TimeoutDoes
    <3>4. QED BY <2>1, <2>2, <3>1, <3>3 DEF LockOk, Scope
  <2>5. QED BY <2>3, <2>4
<1>17. ASSUME NEW r \in Requests, Crash(r), NEW p \in Requests
      PROVE  LockOk(p)'
  <2>1. LockOk(p) /\ PlaceOk(p) /\ PlaceOk(r)
    BY DEF PlaceInv
  <2>2. OwnsClaim(p)' => OwnsClaim(p)
    BY <1>17, CrashDoes DEF OwnsClaim, TypeOK
  <2>3. CASE p = r
    BY <1>17, <2>1, <2>2, <2>3, CrashDoes
    DEF TypeOK, LockOk, PlaceOk, OwnsClaim, IsSecond, CallsGmail, Writing, Scope
  <2>4. CASE p # r
    <3>1. pc'[p] = pc[p]
      BY <1>17, <2>4, CrashDoes
    <3>2. Scope(p) \in Findings \cup {Tests}
      BY DEF Scope
    <3>3. lock[Scope(p)] = p => lock'[Scope(p)] = p
      BY <1>17, <2>4, <3>2, CrashDoes
    <3>4. QED BY <2>1, <2>2, <3>1, <3>3 DEF LockOk, Scope
  <2>5. QED BY <2>3, <2>4
<1>18. ASSUME NEW l \in Keys, Age(l), NEW p \in Requests
      PROVE  LockOk(p)'
  BY <1>18 DEF Age, store, TypeOK, OwnsClaim, CallsGmail, Writing, KeyInv, KeyOk, PlaceInv, PlaceOk, LockOk, Scope, WritesEvent, IsSecond
<1>19. ASSUME UNCHANGED vars
      PROVE  LockInv'
  BY <1>19 DEF vars, store, TypeOK, OwnsClaim, CallsGmail, Writing, KeyInv, KeyOk, PlaceInv, PlaceOk, LockOk, Scope, WritesEvent, IsSecond
<1>20. QED
  BY <1>1, <1>2, <1>3, <1>4, <1>5, <1>6, <1>7, <1>8, <1>9, <1>10, <1>11, <1>12, <1>13, <1>14, <1>15, <1>16, <1>17, <1>18, <1>19 DEF Next, Step

\* Only a committed attempt of a test fills the window.
LEMMA UsedSame ==
  ASSUME aged' = aged,
         \A k \in Keys :
           \/ receipt'[k] = receipt[k]
                /\ (receipt[k] # "none" => owner'[k] = owner[k])
           \/ /\ owner'[k] = owner[k]
              /\ \/ KindOf[owner[k]] # "test"
                 \/ /\ receipt[k] = "in_progress" /\ receipt'[k] = "completed"
  PROVE  Used' = Used
  BY DEF Used

LEMMA UsedFinite == IsFiniteSet(Used) /\ Cardinality(Used) \in Nat
<1>1. Used \subseteq Keys
  BY DEF Used
<1>2. QED BY <1>1, FS_Subset, FS_CardinalityType, BoundAssumption

\* Tests that ask at once do not pass the quota together.
LEMMA QuotaStep ==
  ASSUME TypeOK, KeyInv, PlaceInv, LockInv, QuotaInv, [Next]_vars
  PROVE  QuotaInv'
<1> USE RequestAssumption
<1>1. ASSUME NEW r \in Requests, Claim(r)
      PROVE  QuotaInv'
  <2>1. Used' = Used
    BY <1>1, ClaimDoes, UsedSame 
  <2>2. ASSUME NEW p \in Requests, KindOf[p] = "test", OwnsClaim(p)',
               pc'[p] = "written"
        PROVE  Cardinality(Used) < Quota
    <3>1. pc[p] = "written" /\ OwnsClaim(p)
      BY <1>1, <2>2, ClaimDoes DEF OwnsClaim
    <3>2. QED BY <2>2, <3>1 DEF QuotaInv
  <2>3. QED BY <2>1, <2>2 DEF QuotaInv
<1>2. ASSUME NEW r \in Requests, Replay(r)
      PROVE  QuotaInv'
  <2>1. Used' = Used
    BY <1>2, ReplayDoes, UsedSame DEF OwnsClaim
  <2>2. ASSUME NEW p \in Requests, KindOf[p] = "test", OwnsClaim(p)',
               pc'[p] = "written"
        PROVE  Cardinality(Used) < Quota
    <3>1. pc[p] = "written" /\ OwnsClaim(p)
      BY <1>2, <2>2, ReplayDoes DEF OwnsClaim
    <3>2. QED BY <2>2, <3>1 DEF QuotaInv
  <2>3. QED BY <2>1, <2>2 DEF QuotaInv
<1>3. ASSUME NEW r \in Requests, Conflict(r)
      PROVE  QuotaInv'
  <2>1. Used' = Used
    BY <1>3, ConflictDoes, UsedSame DEF OwnsClaim
  <2>2. ASSUME NEW p \in Requests, KindOf[p] = "test", OwnsClaim(p)',
               pc'[p] = "written"
        PROVE  Cardinality(Used) < Quota
    <3>1. pc[p] = "written" /\ OwnsClaim(p)
      BY <1>3, <2>2, ConflictDoes DEF OwnsClaim
    <3>2. QED BY <2>2, <3>1 DEF QuotaInv
  <2>3. QED BY <2>1, <2>2 DEF QuotaInv
<1>4. ASSUME NEW r \in Requests, Lock(r)
      PROVE  QuotaInv'
  <2>1. Used' = Used
    BY <1>4, LockDoes, UsedSame DEF OwnsClaim
  <2>2. ASSUME NEW p \in Requests, KindOf[p] = "test", OwnsClaim(p)',
               pc'[p] = "written"
        PROVE  Cardinality(Used) < Quota
    <3>1. pc[p] = "written" /\ OwnsClaim(p)
      BY <1>4, <2>2, LockDoes DEF OwnsClaim
    <3>2. QED BY <2>2, <3>1 DEF QuotaInv
  <2>3. QED BY <2>1, <2>2 DEF QuotaInv
<1>5. ASSUME NEW r \in Requests, Proceed(r)
      PROVE  QuotaInv'
  <2>1. Used' = Used
    BY <1>5, ProceedDoes, UsedSame DEF OwnsClaim
  <2>2. ASSUME NEW p \in Requests, KindOf[p] = "test", OwnsClaim(p)',
               pc'[p] = "written"
        PROVE  Cardinality(Used) < Quota
    <3>1. CASE p = r
      BY <1>5, <2>2, <3>1, ProceedDoes DEF MayProceed
    <3>2. CASE p # r
      <4>1. pc[p] = "written" /\ OwnsClaim(p)
        BY <1>5, <2>2, <3>2, ProceedDoes DEF OwnsClaim
      <4>2. QED BY <2>2, <4>1 DEF QuotaInv
    <3>3. QED BY <3>1, <3>2
  <2>3. QED BY <2>1, <2>2 DEF QuotaInv
<1>6. ASSUME NEW r \in Requests, Refuse(r)
      PROVE  QuotaInv'
  <2>1. Used' = Used
    BY <1>6, RefuseDoes, UsedSame DEF OwnsClaim
  <2>2. ASSUME NEW p \in Requests, KindOf[p] = "test", OwnsClaim(p)',
               pc'[p] = "written"
        PROVE  Cardinality(Used) < Quota
    <3>1. pc[p] = "written" /\ OwnsClaim(p)
      BY <1>6, <2>2, RefuseDoes DEF OwnsClaim
    <3>2. QED BY <2>2, <3>1 DEF QuotaInv
  <2>3. QED BY <2>1, <2>2 DEF QuotaInv
<1>7. ASSUME NEW r \in Requests, Number(r)
      PROVE  QuotaInv'
  <2>1. Used' = Used
    BY <1>7, NumberDoes, UsedSame DEF OwnsClaim
  <2>2. ASSUME NEW p \in Requests, KindOf[p] = "test", OwnsClaim(p)',
               pc'[p] = "written"
        PROVE  Cardinality(Used) < Quota
    <3>1. pc[p] = "written" /\ OwnsClaim(p)
      BY <1>7, <2>2, NumberDoes DEF OwnsClaim
    <3>2. QED BY <2>2, <3>1 DEF QuotaInv
  <2>3. QED BY <2>1, <2>2 DEF QuotaInv
<1>8. ASSUME NEW r \in Requests, AppendEvent(r)
      PROVE  QuotaInv'
  <2>1. Used' = Used
    BY <1>8, AppendEventDoes, UsedSame DEF OwnsClaim
  <2>2. ASSUME NEW p \in Requests, KindOf[p] = "test", OwnsClaim(p)',
               pc'[p] = "written"
        PROVE  Cardinality(Used) < Quota
    <3>1. pc[p] = "written" /\ OwnsClaim(p)
      BY <1>8, <2>2, AppendEventDoes DEF OwnsClaim, LockInv, LockOk
    <3>2. QED BY <2>2, <3>1 DEF QuotaInv
  <2>3. QED BY <2>1, <2>2 DEF QuotaInv
<1>9. ASSUME NEW r \in Requests, Collide(r)
      PROVE  QuotaInv'
  <2>1. Used' = Used
    BY <1>9, CollideDoes, UsedSame DEF OwnsClaim
  <2>2. ASSUME NEW p \in Requests, KindOf[p] = "test", OwnsClaim(p)',
               pc'[p] = "written"
        PROVE  Cardinality(Used) < Quota
    <3>1. pc[p] = "written" /\ OwnsClaim(p)
      BY <1>9, <2>2, CollideDoes DEF OwnsClaim
    <3>2. QED BY <2>2, <3>1 DEF QuotaInv
  <2>3. QED BY <2>1, <2>2 DEF QuotaInv
<1>10. ASSUME NEW r \in Requests, CommitWhole(r)
      PROVE  QuotaInv'
  <2>1. Used' = Used
    BY <1>10, CommitWholeDoes, UsedSame DEF PlaceInv, PlaceOk, OwnsClaim, IsSecond, CallsGmail, Writing
  <2>2. ASSUME NEW p \in Requests, KindOf[p] = "test", OwnsClaim(p)',
               pc'[p] = "written"
        PROVE  Cardinality(Used) < Quota
    <3>1. pc[p] = "written" /\ OwnsClaim(p)
      BY <1>10, <2>2, CommitWholeDoes DEF OwnsClaim
    <3>2. QED BY <2>2, <3>1 DEF QuotaInv
  <2>3. QED BY <2>1, <2>2 DEF QuotaInv
<1>11. ASSUME NEW r \in Requests, CommitAttempt(r)
      PROVE  QuotaInv'
  <2>1. CASE KindOf[r] # "test"
    <3>1. Used' = Used
      BY <1>11, <2>1, CommitAttemptDoes, UsedSame DEF OwnsClaim
    <3>2. ASSUME NEW p \in Requests, KindOf[p] = "test", OwnsClaim(p)',
                 pc'[p] = "written"
          PROVE  Cardinality(Used) < Quota
      <4>1. p # r /\ pc[p] = "written" /\ OwnsClaim(p)
        BY <1>11, <2>1, <3>2, CommitAttemptDoes DEF OwnsClaim
      <4>2. QED BY <3>2, <4>1 DEF QuotaInv
    <3>3. QED BY <3>1, <3>2 DEF QuotaInv
  <2>2. CASE KindOf[r] = "test"
    <3>1. Cardinality(Used) < Quota
      BY <1>11, <2>2, CommitAttemptDoes DEF QuotaInv
    <3>2. Used' \subseteq Used \cup {KeyOf[r]}
      BY <1>11, CommitAttemptDoes DEF Used
    <3>3. IsFiniteSet(Used \cup {KeyOf[r]})
          /\ Cardinality(Used \cup {KeyOf[r]}) <= Cardinality(Used) + 1
      <4>1. IsFiniteSet(Used) /\ Cardinality(Used) \in Nat
        BY UsedFinite
      <4>2. /\ IsFiniteSet(Used \cup {KeyOf[r]})
            /\ \/ Cardinality(Used \cup {KeyOf[r]}) = Cardinality(Used)
               \/ Cardinality(Used \cup {KeyOf[r]}) = Cardinality(Used) + 1
        BY <4>1, FS_AddElement
      <4>3. QED BY <4>1, <4>2
    <3>4. Cardinality(Used') <= Cardinality(Used) + 1 /\ Cardinality(Used') \in Nat
      <4>1. /\ Cardinality(Used') \in Nat
            /\ Cardinality(Used \cup {KeyOf[r]}) \in Nat
            /\ Cardinality(Used') <= Cardinality(Used \cup {KeyOf[r]})
        BY <3>2, <3>3, FS_Subset, FS_CardinalityType
      <4>2. QED BY <3>3, <4>1, UsedFinite
    <3>5. Cardinality(Used') <= Quota
      BY <3>1, <3>4, UsedFinite, BoundAssumption
    <3>6. ASSUME NEW p \in Requests, KindOf[p] = "test", OwnsClaim(p)',
                 pc'[p] = "written"
          PROVE  FALSE
      <4>1. p # r /\ pc[p] = "written" /\ OwnsClaim(p) /\ OwnsClaim(r)
            /\ pc[r] = "written"
        BY <1>11, <3>6, CommitAttemptDoes DEF OwnsClaim
      <4>2. lock[Tests] = p /\ lock[Tests] = r
        BY <2>2, <3>6, <4>1 DEF LockInv, LockOk, Scope, Writing
      <4>3. QED BY <4>1, <4>2
    <3>7. QED BY <3>5, <3>6 DEF QuotaInv
  <2>3. QED BY <2>1, <2>2
<1>12. ASSUME NEW r \in Requests, CommitResult(r)
      PROVE  QuotaInv'
  <2>1. Used' = Used
    BY <1>12, CommitResultDoes, UsedSame DEF PlaceInv, PlaceOk, OwnsClaim, IsSecond, Writing
  <2>2. ASSUME NEW p \in Requests, KindOf[p] = "test", OwnsClaim(p)',
               pc'[p] = "written"
        PROVE  Cardinality(Used) < Quota
    <3>1. pc[p] = "written" /\ OwnsClaim(p)
      BY <1>12, <2>2, CommitResultDoes DEF OwnsClaim
    <3>2. QED BY <2>2, <3>1 DEF QuotaInv
  <2>3. QED BY <2>1, <2>2 DEF QuotaInv
<1>13. ASSUME NEW r \in Requests, Deliver(r)
      PROVE  QuotaInv'
  <2>1. Used' = Used
    BY <1>13, DeliverDoes, UsedSame DEF OwnsClaim
  <2>2. ASSUME NEW p \in Requests, KindOf[p] = "test", OwnsClaim(p)',
               pc'[p] = "written"
        PROVE  Cardinality(Used) < Quota
    <3>1. pc[p] = "written" /\ OwnsClaim(p)
      BY <1>13, <2>2, DeliverDoes DEF OwnsClaim, PlaceInv, PlaceOk
    <3>2. QED BY <2>2, <3>1 DEF QuotaInv
  <2>3. QED BY <2>1, <2>2 DEF QuotaInv
<1>14. ASSUME NEW r \in Requests, DeliverFails(r)
      PROVE  QuotaInv'
  <2>1. Used' = Used
    BY <1>14, DeliverFailsDoes, UsedSame DEF OwnsClaim
  <2>2. ASSUME NEW p \in Requests, KindOf[p] = "test", OwnsClaim(p)',
               pc'[p] = "written"
        PROVE  Cardinality(Used) < Quota
    <3>1. pc[p] = "written" /\ OwnsClaim(p)
      BY <1>14, <2>2, DeliverFailsDoes DEF OwnsClaim
    <3>2. QED BY <2>2, <3>1 DEF QuotaInv
  <2>3. QED BY <2>1, <2>2 DEF QuotaInv
<1>15. ASSUME NEW r \in Requests, Fail(r)
      PROVE  QuotaInv'
  <2>1. Used' \subseteq Used
    BY <1>15, FailDoes DEF Used
  <2>2. Cardinality(Used') <= Cardinality(Used) /\ Cardinality(Used') \in Nat
    BY <2>1, UsedFinite, FS_Subset, FS_CardinalityType
  <2>3. ASSUME NEW p \in Requests, KindOf[p] = "test", OwnsClaim(p)',
               pc'[p] = "written"
        PROVE  Cardinality(Used) < Quota
    <3>1. pc[p] = "written" /\ OwnsClaim(p)
      BY <1>15, <2>3, FailDoes DEF OwnsClaim
    <3>2. QED BY <2>3, <3>1 DEF QuotaInv
  <2>4. QED BY <2>2, <2>3, UsedFinite, BoundAssumption DEF QuotaInv
<1>16. ASSUME NEW r \in Requests, Timeout(r)
      PROVE  QuotaInv'
  <2>1. Used' = Used
    BY <1>16, TimeoutDoes, UsedSame DEF OwnsClaim
  <2>2. ASSUME NEW p \in Requests, KindOf[p] = "test", OwnsClaim(p)',
               pc'[p] = "written"
        PROVE  Cardinality(Used) < Quota
    <3>1. pc[p] = "written" /\ OwnsClaim(p)
      BY <1>16, <2>2, TimeoutDoes DEF OwnsClaim
    <3>2. QED BY <2>2, <3>1 DEF QuotaInv
  <2>3. QED BY <2>1, <2>2 DEF QuotaInv
<1>17. ASSUME NEW r \in Requests, Crash(r)
      PROVE  QuotaInv'
  <2>1. Used' = Used
    BY <1>17, CrashDoes, UsedSame DEF OwnsClaim
  <2>2. ASSUME NEW p \in Requests, KindOf[p] = "test", OwnsClaim(p)',
               pc'[p] = "written"
        PROVE  Cardinality(Used) < Quota
    <3>1. pc[p] = "written" /\ OwnsClaim(p)
      BY <1>17, <2>2, CrashDoes DEF OwnsClaim
    <3>2. QED BY <2>2, <3>1 DEF QuotaInv
  <2>3. QED BY <2>1, <2>2 DEF QuotaInv
<1>18. ASSUME NEW k \in Keys, Age(k)
       PROVE  QuotaInv'
  <2>1. Used' \subseteq Used
    BY <1>18 DEF Age, Used, store
  <2>2. Cardinality(Used') <= Cardinality(Used) /\ Cardinality(Used') \in Nat
    BY <2>1, UsedFinite, FS_Subset, FS_CardinalityType
  <2>3. \A p \in Requests : OwnsClaim(p)' = OwnsClaim(p) /\ pc'[p] = pc[p]
    BY <1>18 DEF Age, OwnsClaim, store
  <2>4. QED BY <2>2, <2>3, UsedFinite, BoundAssumption DEF QuotaInv
<1>19. ASSUME UNCHANGED vars
       PROVE  QuotaInv'
  BY <1>19 DEF vars, store, QuotaInv, Used, OwnsClaim
<1>20. QED
  BY <1>1, <1>2, <1>3, <1>4, <1>5, <1>6, <1>7, <1>8, <1>9, <1>10, <1>11, <1>12, <1>13, <1>14, <1>15, <1>16, <1>17, <1>18, <1>19 DEF Next, Step

\* In an ordered trail the next position is one past the last.
LEMMA LastSeqIs ==
  ASSUME TypeOK, TrailInOrder, NEW f \in Findings
  PROVE  LastSeq(f) = Len(trail[f]) /\ Len(trail[f]) \in Nat
<1>1. trail[f] \in Seq(Events) /\ Len(trail[f]) \in Nat
  BY DEF TypeOK
<1>2. CASE trail[f] = <<>>
  BY <1>1, <1>2 DEF LastSeq
<1>3. CASE trail[f] # <<>>
  <2>1. Len(trail[f]) \in DOMAIN trail[f]
    BY <1>1, <1>3
  <2>2. trail[f][Len(trail[f])].seq = Len(trail[f])
    BY <2>1 DEF TrailInOrder
  <2>3. QED BY <1>1, <1>3, <2>2 DEF LastSeq
<1>4. QED BY <1>2, <1>3

\* A committed event takes the next position of its own trail.
LEMMA PublishKeepsOrder ==
  ASSUME TypeOK, TrailInv, NEW r \in Requests, pc[r] = "written",
         CommitWhole(r) \/ CommitAttempt(r) \/ CommitResult(r)
  PROVE  /\ TrailInOrder'
         /\ \A f \in Findings :
              Len(trail'[f]) = IF seq[r] # 0 /\ f = FindingOf[r]
                                 THEN Len(trail[f]) + 1 ELSE Len(trail[f])
<1> DEFINE event == [seq |-> seq[r], key |-> KeyOf[r], what |-> What(r)]
<1>1. trail' = IF seq[r] = 0 THEN trail
               ELSE [trail EXCEPT ![FindingOf[r]] = Append(@, event)]
  BY CommitPublishes
<1>2. event.seq = seq[r]
  OBVIOUS
<1> HIDE DEF event
<1>3. \A f \in Findings : trail[f] \in Seq(Events) /\ Len(trail[f]) \in Nat
  BY DEF TypeOK
<1>4. trail \in [Findings -> Seq(Events)] /\ FindingOf[r] \in Findings
  BY RequestAssumption DEF TypeOK
<1>5. CASE seq[r] = 0
  BY <1>1, <1>5 DEF TrailInv, TrailInOrder
<1>6. CASE seq[r] # 0
  <2>1. seq[r] = Len(trail[FindingOf[r]]) + 1
    BY <1>6 DEF TrailInv, SeqOk, Last
  <2>2. /\ trail'[FindingOf[r]] = Append(trail[FindingOf[r]], event)
        /\ \A f \in Findings : f # FindingOf[r] => trail'[f] = trail[f]
    BY <1>1, <1>4, <1>6
  <2>3. \A s \in Seq(Events) : \A x :
          /\ Len(Append(s, x)) = Len(s) + 1
          /\ DOMAIN Append(s, x) = 1..(Len(s) + 1)
          /\ \A i \in 1..Len(s) : Append(s, x)[i] = s[i]
          /\ Append(s, x)[Len(s) + 1] = x
    OBVIOUS
  <2>4. ASSUME NEW i \in DOMAIN trail'[FindingOf[r]]
        PROVE  trail'[FindingOf[r]][i].seq = i
    <3>1. i \in 1..Len(trail[FindingOf[r]]) \/ i = Len(trail[FindingOf[r]]) + 1
      BY <1>3, <1>4, <2>2, <2>3
    <3>2. CASE i \in 1..Len(trail[FindingOf[r]])
      <4>1. trail'[FindingOf[r]][i] = trail[FindingOf[r]][i]
            /\ i \in DOMAIN trail[FindingOf[r]]
        BY <1>3, <1>4, <2>2, <2>3, <3>2
      <4>2. QED BY <1>4, <4>1 DEF TrailInv, TrailInOrder
    <3>3. CASE i = Len(trail[FindingOf[r]]) + 1
      BY <1>2, <1>3, <1>4, <2>1, <2>2, <2>3, <3>3
    <3>4. QED BY <3>1, <3>2, <3>3
  <2>5. TrailInOrder'
    <3>1. SUFFICES ASSUME NEW f \in Findings, NEW i \in DOMAIN trail'[f]
                   PROVE  trail'[f][i].seq = i
      BY DEF TrailInOrder
    <3>2. CASE f = FindingOf[r]
      BY <2>4, <3>2
    <3>3. CASE f # FindingOf[r]
      BY <2>2, <3>3 DEF TrailInv, TrailInOrder
    <3>4. QED BY <3>2, <3>3
  <2>6. QED BY <1>3, <1>4, <1>6, <2>2, <2>3, <2>5
<1>7. QED BY <1>5, <1>6

\* The audit stream keeps its order, and its next position one taker.
LEMMA TrailStep ==
  ASSUME TypeOK, TypeOK', TrailInv, [Next]_vars
  PROVE  TrailInv'
<1> USE RequestAssumption
<1>0. /\ \A r \in Requests : SeqOk(r) /\ seq[r] \in Nat /\ Last(r) \in Nat
      /\ \A q, r \in Requests : Apart(q, r)
  BY DEF TrailInv, TypeOK, Last
<1>1. ASSUME NEW r \in Requests, Claim(r)
      PROVE  TrailInv'
  <2>1. trail' = trail
    BY <1>1, ClaimDoes
  <2>2. TrailInOrder' /\ \A q \in Requests : Last(q)' = Last(q)
    BY <2>1 DEF TrailInv, TrailInOrder, Last
  <2>4. ASSUME NEW q \in Requests
        PROVE  SeqOk(q)'
    BY <1>0, <1>1, <2>2, ClaimDoes DEF SeqOk
  <2>5. ASSUME NEW p \in Requests, NEW q \in Requests
        PROVE  Apart(p, q)'
    BY <1>0, <1>1, <2>4, ClaimDoes DEF Apart, SeqOk
  <2>6. QED BY <2>2, <2>4, <2>5 DEF TrailInv
<1>2. ASSUME NEW r \in Requests, Replay(r)
      PROVE  TrailInv'
  <2>1. trail' = trail
    BY <1>2, ReplayDoes
  <2>2. TrailInOrder' /\ \A q \in Requests : Last(q)' = Last(q)
    BY <2>1 DEF TrailInv, TrailInOrder, Last
  <2>4. ASSUME NEW q \in Requests
        PROVE  SeqOk(q)'
    BY <1>0, <1>2, <2>2, ReplayDoes DEF SeqOk
  <2>5. ASSUME NEW p \in Requests, NEW q \in Requests
        PROVE  Apart(p, q)'
    BY <1>0, <1>2, <2>4, ReplayDoes DEF Apart, SeqOk
  <2>6. QED BY <2>2, <2>4, <2>5 DEF TrailInv
<1>3. ASSUME NEW r \in Requests, Conflict(r)
      PROVE  TrailInv'
  <2>1. trail' = trail
    BY <1>3, ConflictDoes
  <2>2. TrailInOrder' /\ \A q \in Requests : Last(q)' = Last(q)
    BY <2>1 DEF TrailInv, TrailInOrder, Last
  <2>4. ASSUME NEW q \in Requests
        PROVE  SeqOk(q)'
    BY <1>0, <1>3, <2>2, ConflictDoes DEF SeqOk
  <2>5. ASSUME NEW p \in Requests, NEW q \in Requests
        PROVE  Apart(p, q)'
    BY <1>0, <1>3, <2>4, ConflictDoes DEF Apart, SeqOk
  <2>6. QED BY <2>2, <2>4, <2>5 DEF TrailInv
<1>4. ASSUME NEW r \in Requests, Lock(r)
      PROVE  TrailInv'
  <2>1. trail' = trail
    BY <1>4, LockDoes
  <2>2. TrailInOrder' /\ \A q \in Requests : Last(q)' = Last(q)
    BY <2>1 DEF TrailInv, TrailInOrder, Last
  <2>4. ASSUME NEW q \in Requests
        PROVE  SeqOk(q)'
    BY <1>0, <1>4, <2>2, LockDoes DEF SeqOk
  <2>5. ASSUME NEW p \in Requests, NEW q \in Requests
        PROVE  Apart(p, q)'
    BY <1>0, <1>4, <2>4, LockDoes DEF Apart, SeqOk
  <2>6. QED BY <2>2, <2>4, <2>5 DEF TrailInv
<1>5. ASSUME NEW r \in Requests, Proceed(r)
      PROVE  TrailInv'
  <2>1. trail' = trail
    BY <1>5, ProceedDoes
  <2>2. TrailInOrder' /\ \A q \in Requests : Last(q)' = Last(q)
    BY <2>1 DEF TrailInv, TrailInOrder, Last
  <2>4. ASSUME NEW q \in Requests
        PROVE  SeqOk(q)'
    BY <1>0, <1>5, <2>2, ProceedDoes DEF SeqOk
  <2>5. ASSUME NEW p \in Requests, NEW q \in Requests
        PROVE  Apart(p, q)'
    BY <1>0, <1>5, <2>4, ProceedDoes DEF Apart, SeqOk
  <2>6. QED BY <2>2, <2>4, <2>5 DEF TrailInv
<1>6. ASSUME NEW r \in Requests, Refuse(r)
      PROVE  TrailInv'
  <2>1. trail' = trail
    BY <1>6, RefuseDoes
  <2>2. TrailInOrder' /\ \A q \in Requests : Last(q)' = Last(q)
    BY <2>1 DEF TrailInv, TrailInOrder, Last
  <2>4. ASSUME NEW q \in Requests
        PROVE  SeqOk(q)'
    BY <1>0, <1>6, <2>2, RefuseDoes DEF SeqOk
  <2>5. ASSUME NEW p \in Requests, NEW q \in Requests
        PROVE  Apart(p, q)'
    BY <1>0, <1>6, <2>4, RefuseDoes DEF Apart, SeqOk
  <2>6. QED BY <2>2, <2>4, <2>5 DEF TrailInv
<1>7. ASSUME NEW r \in Requests, Number(r)
      PROVE  TrailInv'
  <2>1. trail' = trail
    BY <1>7, NumberDoes
  <2>2. TrailInOrder' /\ \A q \in Requests : Last(q)' = Last(q)
    BY <2>1 DEF TrailInv, TrailInOrder, Last
  <2>3. LastSeq(FindingOf[r]) = Last(r)
    BY LastSeqIs DEF TrailInv, Last
  <2>4. ASSUME NEW q \in Requests
        PROVE  SeqOk(q)'
    BY <1>0, <1>7, <2>2, <2>3, NumberDoes DEF SeqOk
  <2>5. ASSUME NEW p \in Requests, NEW q \in Requests
        PROVE  Apart(p, q)'
    BY <1>0, <1>7, <2>4, NumberDoes DEF Apart, SeqOk
  <2>6. QED BY <2>2, <2>4, <2>5 DEF TrailInv
<1>8. ASSUME NEW r \in Requests, AppendEvent(r)
      PROVE  TrailInv'
  <2>1. trail' = trail
    BY <1>8, AppendEventDoes
  <2>2. TrailInOrder' /\ \A q \in Requests : Last(q)' = Last(q)
    BY <2>1 DEF TrailInv, TrailInOrder, Last
  <2>3. LastSeq(FindingOf[r]) = Last(r)
    BY LastSeqIs DEF TrailInv, Last
  <2>4. ASSUME NEW q \in Requests
        PROVE  SeqOk(q)'
    BY <1>0, <1>8, <2>2, <2>3, AppendEventDoes DEF SeqOk, PositionFree
  <2>5. ASSUME NEW p \in Requests, NEW q \in Requests
        PROVE  Apart(p, q)'
    BY <1>0, <1>8, <2>4, AppendEventDoes DEF Apart, SeqOk, PositionFree, PositionHeld
  <2>6. QED BY <2>2, <2>4, <2>5 DEF TrailInv
<1>9. ASSUME NEW r \in Requests, Collide(r)
      PROVE  TrailInv'
  <2>1. trail' = trail
    BY <1>9, CollideDoes
  <2>2. TrailInOrder' /\ \A q \in Requests : Last(q)' = Last(q)
    BY <2>1 DEF TrailInv, TrailInOrder, Last
  <2>4. ASSUME NEW q \in Requests
        PROVE  SeqOk(q)'
    BY <1>0, <1>9, <2>2, CollideDoes DEF SeqOk
  <2>5. ASSUME NEW p \in Requests, NEW q \in Requests
        PROVE  Apart(p, q)'
    BY <1>0, <1>9, <2>4, CollideDoes DEF Apart, SeqOk
  <2>6. QED BY <2>2, <2>4, <2>5 DEF TrailInv
<1>10. ASSUME NEW r \in Requests, CommitWhole(r)
      PROVE  TrailInv'
  <2>1. pc[r] = "written"
    BY <1>10, CommitWholeDoes
  <2>2. TrailInOrder' /\ \A q \in Requests :
          Last(q)' = IF seq[r] # 0 /\ FindingOf[q] = FindingOf[r]
                       THEN Last(q) + 1 ELSE Last(q)
    BY <1>10, <2>1, PublishKeepsOrder DEF Last
  <2>3. ASSUME NEW q \in Requests
        PROVE  SeqOk(q)'
    <3>1. CASE q = r
      BY <1>10, <3>1, CommitWholeDoes DEF SeqOk
    <3>2. CASE q # r
      <4>1. pc'[q] = pc[q] /\ seq'[q] = seq[q]
        BY <1>10, <3>2, CommitWholeDoes
      <4>2. seq[r] # 0 /\ FindingOf[q] = FindingOf[r] /\ pc[q] = "written"
              => seq[q] = 0
        BY <1>0, <2>1, <3>2 DEF SeqOk, Apart, Last
      <4>3. QED BY <1>0, <2>2, <4>1, <4>2 DEF SeqOk
    <3>3. QED BY <3>1, <3>2
  <2>4. ASSUME NEW p \in Requests, NEW q \in Requests
        PROVE  Apart(p, q)'
    <3>1. p = r \/ q = r => Apart(p, q)'
      BY <1>10, CommitWholeDoes DEF Apart
    <3>2. p # r /\ q # r => Apart(p, q)'
      BY <1>0, <1>10, CommitWholeDoes DEF Apart
    <3>3. QED BY <3>1, <3>2
  <2>5. QED BY <2>2, <2>3, <2>4 DEF TrailInv
<1>11. ASSUME NEW r \in Requests, CommitAttempt(r)
      PROVE  TrailInv'
  <2>1. pc[r] = "written"
    BY <1>11, CommitAttemptDoes
  <2>2. TrailInOrder' /\ \A q \in Requests :
          Last(q)' = IF seq[r] # 0 /\ FindingOf[q] = FindingOf[r]
                       THEN Last(q) + 1 ELSE Last(q)
    BY <1>11, <2>1, PublishKeepsOrder DEF Last
  <2>3. ASSUME NEW q \in Requests
        PROVE  SeqOk(q)'
    <3>1. CASE q = r
      BY <1>11, <3>1, CommitAttemptDoes DEF SeqOk
    <3>2. CASE q # r
      <4>1. pc'[q] = pc[q] /\ seq'[q] = seq[q]
        BY <1>11, <3>2, CommitAttemptDoes
      <4>2. seq[r] # 0 /\ FindingOf[q] = FindingOf[r] /\ pc[q] = "written"
              => seq[q] = 0
        BY <1>0, <2>1, <3>2 DEF SeqOk, Apart, Last
      <4>3. QED BY <1>0, <2>2, <4>1, <4>2 DEF SeqOk
    <3>3. QED BY <3>1, <3>2
  <2>4. ASSUME NEW p \in Requests, NEW q \in Requests
        PROVE  Apart(p, q)'
    <3>1. p = r \/ q = r => Apart(p, q)'
      BY <1>11, CommitAttemptDoes DEF Apart
    <3>2. p # r /\ q # r => Apart(p, q)'
      BY <1>0, <1>11, CommitAttemptDoes DEF Apart
    <3>3. QED BY <3>1, <3>2
  <2>5. QED BY <2>2, <2>3, <2>4 DEF TrailInv
<1>12. ASSUME NEW r \in Requests, CommitResult(r)
      PROVE  TrailInv'
  <2>1. pc[r] = "written"
    BY <1>12, CommitResultDoes
  <2>2. TrailInOrder' /\ \A q \in Requests :
          Last(q)' = IF seq[r] # 0 /\ FindingOf[q] = FindingOf[r]
                       THEN Last(q) + 1 ELSE Last(q)
    BY <1>12, <2>1, PublishKeepsOrder DEF Last
  <2>3. ASSUME NEW q \in Requests
        PROVE  SeqOk(q)'
    <3>1. CASE q = r
      BY <1>12, <3>1, CommitResultDoes DEF SeqOk
    <3>2. CASE q # r
      <4>1. pc'[q] = pc[q] /\ seq'[q] = seq[q]
        BY <1>12, <3>2, CommitResultDoes
      <4>2. seq[r] # 0 /\ FindingOf[q] = FindingOf[r] /\ pc[q] = "written"
              => seq[q] = 0
        BY <1>0, <2>1, <3>2 DEF SeqOk, Apart, Last
      <4>3. QED BY <1>0, <2>2, <4>1, <4>2 DEF SeqOk
    <3>3. QED BY <3>1, <3>2
  <2>4. ASSUME NEW p \in Requests, NEW q \in Requests
        PROVE  Apart(p, q)'
    <3>1. p = r \/ q = r => Apart(p, q)'
      BY <1>12, CommitResultDoes DEF Apart
    <3>2. p # r /\ q # r => Apart(p, q)'
      BY <1>0, <1>12, CommitResultDoes DEF Apart
    <3>3. QED BY <3>1, <3>2
  <2>5. QED BY <2>2, <2>3, <2>4 DEF TrailInv
<1>13. ASSUME NEW r \in Requests, Deliver(r)
      PROVE  TrailInv'
  <2>1. trail' = trail
    BY <1>13, DeliverDoes
  <2>2. TrailInOrder' /\ \A q \in Requests : Last(q)' = Last(q)
    BY <2>1 DEF TrailInv, TrailInOrder, Last
  <2>4. ASSUME NEW q \in Requests
        PROVE  SeqOk(q)'
    BY <1>0, <1>13, <2>2, DeliverDoes DEF SeqOk
  <2>5. ASSUME NEW p \in Requests, NEW q \in Requests
        PROVE  Apart(p, q)'
    BY <1>0, <1>13, <2>4, DeliverDoes DEF Apart, SeqOk
  <2>6. QED BY <2>2, <2>4, <2>5 DEF TrailInv
<1>14. ASSUME NEW r \in Requests, DeliverFails(r)
      PROVE  TrailInv'
  <2>1. trail' = trail
    BY <1>14, DeliverFailsDoes
  <2>2. TrailInOrder' /\ \A q \in Requests : Last(q)' = Last(q)
    BY <2>1 DEF TrailInv, TrailInOrder, Last
  <2>4. ASSUME NEW q \in Requests
        PROVE  SeqOk(q)'
    BY <1>0, <1>14, <2>2, DeliverFailsDoes DEF SeqOk
  <2>5. ASSUME NEW p \in Requests, NEW q \in Requests
        PROVE  Apart(p, q)'
    BY <1>0, <1>14, <2>4, DeliverFailsDoes DEF Apart, SeqOk
  <2>6. QED BY <2>2, <2>4, <2>5 DEF TrailInv
<1>15. ASSUME NEW r \in Requests, Fail(r)
      PROVE  TrailInv'
  <2>1. trail' = trail
    BY <1>15, FailDoes
  <2>2. TrailInOrder' /\ \A q \in Requests : Last(q)' = Last(q)
    BY <2>1 DEF TrailInv, TrailInOrder, Last
  <2>4. ASSUME NEW q \in Requests
        PROVE  SeqOk(q)'
    BY <1>0, <1>15, <2>2, FailDoes DEF SeqOk
  <2>5. ASSUME NEW p \in Requests, NEW q \in Requests
        PROVE  Apart(p, q)'
    BY <1>0, <1>15, <2>4, FailDoes DEF Apart, SeqOk
  <2>6. QED BY <2>2, <2>4, <2>5 DEF TrailInv
<1>16. ASSUME NEW r \in Requests, Timeout(r)
      PROVE  TrailInv'
  <2>1. trail' = trail
    BY <1>16, TimeoutDoes
  <2>2. TrailInOrder' /\ \A q \in Requests : Last(q)' = Last(q)
    BY <2>1 DEF TrailInv, TrailInOrder, Last
  <2>4. ASSUME NEW q \in Requests
        PROVE  SeqOk(q)'
    BY <1>0, <1>16, <2>2, TimeoutDoes DEF SeqOk
  <2>5. ASSUME NEW p \in Requests, NEW q \in Requests
        PROVE  Apart(p, q)'
    BY <1>0, <1>16, <2>4, TimeoutDoes DEF Apart, SeqOk
  <2>6. QED BY <2>2, <2>4, <2>5 DEF TrailInv
<1>17. ASSUME NEW r \in Requests, Crash(r)
      PROVE  TrailInv'
  <2>1. trail' = trail
    BY <1>17, CrashDoes
  <2>2. TrailInOrder' /\ \A q \in Requests : Last(q)' = Last(q)
    BY <2>1 DEF TrailInv, TrailInOrder, Last
  <2>4. ASSUME NEW q \in Requests
        PROVE  SeqOk(q)'
    BY <1>0, <1>17, <2>2, CrashDoes DEF SeqOk
  <2>5. ASSUME NEW p \in Requests, NEW q \in Requests
        PROVE  Apart(p, q)'
    BY <1>0, <1>17, <2>4, CrashDoes DEF Apart, SeqOk
  <2>6. QED BY <2>2, <2>4, <2>5 DEF TrailInv
<1>18. ASSUME NEW k \in Keys, Age(k)
       PROVE  TrailInv'
  BY <1>18 DEF Age, store, TrailInv, TrailInOrder, SeqOk, Apart, Last
<1>19. ASSUME UNCHANGED vars
       PROVE  TrailInv'
  BY <1>19 DEF vars, store, TrailInv, TrailInOrder, SeqOk, Apart, Last
<1>20. QED
  BY <1>1, <1>2, <1>3, <1>4, <1>5, <1>6, <1>7, <1>8, <1>9, <1>10, <1>11, <1>12, <1>13, <1>14, <1>15, <1>16, <1>17, <1>18, <1>19 DEF Next, Step

\* Who holds a lock is on its way to a commit.
LEMMA HolderStep ==
  ASSUME TypeOK, TypeOK', HolderInv, [Next]_vars
  PROVE  HolderInv'
<1> USE RequestAssumption DEF HolderInv, Writing
<1>1. ASSUME NEW r \in Requests, Claim(r), NEW s \in Findings \cup {Tests}
      PROVE  HolderOk(s)'
  <2>1. lock[s] # Nobody => lock[s] \in Requests /\ HolderOk(s)
    BY DEF TypeOK
  <2>2. QED BY <1>1, <2>1, ClaimDoes DEF HolderOk
<1>2. ASSUME NEW r \in Requests, Replay(r), NEW s \in Findings \cup {Tests}
      PROVE  HolderOk(s)'
  <2>1. lock[s] # Nobody => lock[s] \in Requests /\ HolderOk(s)
    BY DEF TypeOK
  <2>2. QED BY <1>2, <2>1, ReplayDoes DEF HolderOk
<1>3. ASSUME NEW r \in Requests, Conflict(r), NEW s \in Findings \cup {Tests}
      PROVE  HolderOk(s)'
  <2>1. lock[s] # Nobody => lock[s] \in Requests /\ HolderOk(s)
    BY DEF TypeOK
  <2>2. QED BY <1>3, <2>1, ConflictDoes DEF HolderOk
<1>4. ASSUME NEW r \in Requests, Lock(r), NEW s \in Findings \cup {Tests}
      PROVE  HolderOk(s)'
  <2>1. lock[s] # Nobody => lock[s] \in Requests /\ HolderOk(s)
    BY DEF TypeOK
  <2>2. QED BY <1>4, <2>1, LockDoes DEF HolderOk, Scope
<1>5. ASSUME NEW r \in Requests, Proceed(r), NEW s \in Findings \cup {Tests}
      PROVE  HolderOk(s)'
  <2>1. lock[s] # Nobody => lock[s] \in Requests /\ HolderOk(s)
    BY DEF TypeOK
  <2>2. QED BY <1>5, <2>1, ProceedDoes DEF HolderOk
<1>6. ASSUME NEW r \in Requests, Refuse(r), NEW s \in Findings \cup {Tests}
      PROVE  HolderOk(s)'
  <2>1. lock[s] # Nobody => lock[s] \in Requests /\ HolderOk(s)
    BY DEF TypeOK
  <2>2. QED BY <1>6, <2>1, RefuseDoes DEF HolderOk
<1>7. ASSUME NEW r \in Requests, Number(r), NEW s \in Findings \cup {Tests}
      PROVE  HolderOk(s)'
  <2>1. lock[s] # Nobody => lock[s] \in Requests /\ HolderOk(s)
    BY DEF TypeOK
  <2>2. QED BY <1>7, <2>1, NumberDoes DEF HolderOk
<1>8. ASSUME NEW r \in Requests, AppendEvent(r), NEW s \in Findings \cup {Tests}
      PROVE  HolderOk(s)'
  <2>1. lock[s] # Nobody => lock[s] \in Requests /\ HolderOk(s)
    BY DEF TypeOK
  <2>2. QED BY <1>8, <2>1, AppendEventDoes DEF HolderOk
<1>9. ASSUME NEW r \in Requests, Collide(r), NEW s \in Findings \cup {Tests}
      PROVE  HolderOk(s)'
  <2>1. lock[s] # Nobody => lock[s] \in Requests /\ HolderOk(s)
    BY DEF TypeOK
  <2>2. QED BY <1>9, <2>1, CollideDoes DEF HolderOk
<1>10. ASSUME NEW r \in Requests, CommitWhole(r), NEW s \in Findings \cup {Tests}
      PROVE  HolderOk(s)'
  <2>1. lock[s] # Nobody => lock[s] \in Requests /\ HolderOk(s)
    BY DEF TypeOK
  <2>2. QED BY <1>10, <2>1, CommitWholeDoes DEF HolderOk
<1>11. ASSUME NEW r \in Requests, CommitAttempt(r), NEW s \in Findings \cup {Tests}
      PROVE  HolderOk(s)'
  <2>1. lock[s] # Nobody => lock[s] \in Requests /\ HolderOk(s)
    BY DEF TypeOK
  <2>2. QED BY <1>11, <2>1, CommitAttemptDoes DEF HolderOk
<1>12. ASSUME NEW r \in Requests, CommitResult(r), NEW s \in Findings \cup {Tests}
      PROVE  HolderOk(s)'
  <2>1. lock[s] # Nobody => lock[s] \in Requests /\ HolderOk(s)
    BY DEF TypeOK
  <2>2. QED BY <1>12, <2>1, CommitResultDoes DEF HolderOk
<1>13. ASSUME NEW r \in Requests, Deliver(r), NEW s \in Findings \cup {Tests}
      PROVE  HolderOk(s)'
  <2>1. lock[s] # Nobody => lock[s] \in Requests /\ HolderOk(s)
    BY DEF TypeOK
  <2>2. QED BY <1>13, <2>1, DeliverDoes DEF HolderOk
<1>14. ASSUME NEW r \in Requests, DeliverFails(r), NEW s \in Findings \cup {Tests}
      PROVE  HolderOk(s)'
  <2>1. lock[s] # Nobody => lock[s] \in Requests /\ HolderOk(s)
    BY DEF TypeOK
  <2>2. QED BY <1>14, <2>1, DeliverFailsDoes DEF HolderOk
<1>15. ASSUME NEW r \in Requests, Fail(r), NEW s \in Findings \cup {Tests}
      PROVE  HolderOk(s)'
  <2>1. lock[s] # Nobody => lock[s] \in Requests /\ HolderOk(s)
    BY DEF TypeOK
  <2>2. QED BY <1>15, <2>1, FailDoes DEF HolderOk
<1>16. ASSUME NEW r \in Requests, Timeout(r), NEW s \in Findings \cup {Tests}
      PROVE  HolderOk(s)'
  <2>1. lock[s] # Nobody => lock[s] \in Requests /\ HolderOk(s)
    BY DEF TypeOK
  <2>2. QED BY <1>16, <2>1, TimeoutDoes DEF HolderOk
<1>17. ASSUME NEW r \in Requests, Crash(r), NEW s \in Findings \cup {Tests}
      PROVE  HolderOk(s)'
  <2>1. lock[s] # Nobody => lock[s] \in Requests /\ HolderOk(s)
    BY DEF TypeOK
  <2>2. QED BY <1>17, <2>1, CrashDoes DEF HolderOk
<1>18. ASSUME NEW k \in Keys, Age(k)
       PROVE  HolderInv'
  BY <1>18 DEF Age, HolderOk
<1>19. ASSUME UNCHANGED vars
       PROVE  HolderInv'
  BY <1>19 DEF vars, HolderOk
<1>20. QED
  BY <1>1, <1>2, <1>3, <1>4, <1>5, <1>6, <1>7, <1>8, <1>9, <1>10, <1>11, <1>12, <1>13, <1>14, <1>15, <1>16, <1>17, <1>18, <1>19 DEF Next, Step

\* An event is published under the number its request inserted.
LEMMA NumberedStep ==
  ASSUME TypeOK, KeyInv, PlaceInv, TrailInv, NumberedInv, [Next]_vars
  PROVE  NumberedInv'
<1> USE RequestAssumption DEF NumberedInv
<1>0. \A q \in Requests : pc[q] = "written" => owner[KeyOf[q]] = q
  BY DEF PlaceInv, PlaceOk, OwnsClaim, IsSecond, Writing
<1>1. ASSUME NEW r \in Requests, Claim(r), NEW q \in Requests
      PROVE  Numbered(q)'
  BY <1>0, <1>1, ClaimDoes DEF TypeOK, Numbered
<1>2. ASSUME NEW r \in Requests, Replay(r), NEW q \in Requests
      PROVE  Numbered(q)'
  BY <1>0, <1>2, ReplayDoes DEF TypeOK, Numbered
<1>3. ASSUME NEW r \in Requests, Conflict(r), NEW q \in Requests
      PROVE  Numbered(q)'
  BY <1>0, <1>3, ConflictDoes DEF TypeOK, Numbered
<1>4. ASSUME NEW r \in Requests, Lock(r), NEW q \in Requests
      PROVE  Numbered(q)'
  BY <1>0, <1>4, LockDoes DEF TypeOK, Numbered
<1>5. ASSUME NEW r \in Requests, Proceed(r), NEW q \in Requests
      PROVE  Numbered(q)'
  BY <1>0, <1>5, ProceedDoes DEF TypeOK, Numbered, Proceed, Goto, WritesEvent, PlaceInv, PlaceOk, OwnsClaim
<1>6. ASSUME NEW r \in Requests, Refuse(r), NEW q \in Requests
      PROVE  Numbered(q)'
  BY <1>0, <1>6, RefuseDoes DEF TypeOK, Numbered
<1>7. ASSUME NEW r \in Requests, Number(r), NEW q \in Requests
      PROVE  Numbered(q)'
  BY <1>0, <1>7, NumberDoes DEF TypeOK, Numbered
<1>8. ASSUME NEW r \in Requests, AppendEvent(r), NEW q \in Requests
      PROVE  Numbered(q)'
  BY <1>0, <1>8, AppendEventDoes DEF TypeOK, Numbered, TrailInv, SeqOk
<1>9. ASSUME NEW r \in Requests, Collide(r), NEW q \in Requests
      PROVE  Numbered(q)'
  BY <1>0, <1>9, CollideDoes DEF TypeOK, Numbered
<1>10. ASSUME NEW r \in Requests, CommitWhole(r), NEW q \in Requests
      PROVE  Numbered(q)'
  <2>1. owner[KeyOf[r]] = r
    BY <1>0, <1>10, CommitWholeDoes DEF PlaceInv, PlaceOk
  <2>2. CASE q = r
    BY <1>10, <2>2, CommitWholeDoes DEF Numbered
  <2>3. CASE q # r
    <3>1. pc'[q] = pc[q] /\ seq'[q] = seq[q]
      BY <1>10, <2>3, CommitWholeDoes
    <3>2. pc[q] = "written" => receipt'[KeyOf[q]] = receipt[KeyOf[q]]
      BY <1>0, <1>10, <2>1, <2>3, CommitWholeDoes
    <3>3. QED BY <3>1, <3>2 DEF Numbered
  <2>4. QED BY <2>2, <2>3
<1>11. ASSUME NEW r \in Requests, CommitAttempt(r), NEW q \in Requests
      PROVE  Numbered(q)'
  <2>1. owner[KeyOf[r]] = r
    BY <1>0, <1>11, CommitAttemptDoes DEF PlaceInv, PlaceOk
  <2>2. CASE q = r
    BY <1>11, <2>2, CommitAttemptDoes DEF Numbered
  <2>3. CASE q # r
    <3>1. pc'[q] = pc[q] /\ seq'[q] = seq[q]
      BY <1>11, <2>3, CommitAttemptDoes
    <3>2. pc[q] = "written" => receipt'[KeyOf[q]] = receipt[KeyOf[q]]
      BY <1>0, <1>11, <2>1, <2>3, CommitAttemptDoes
    <3>3. QED BY <3>1, <3>2 DEF Numbered
  <2>4. QED BY <2>2, <2>3
<1>12. ASSUME NEW r \in Requests, CommitResult(r), NEW q \in Requests
      PROVE  Numbered(q)'
  <2>1. owner[KeyOf[r]] = r
    BY <1>0, <1>12, CommitResultDoes DEF PlaceInv, PlaceOk
  <2>2. CASE q = r
    BY <1>12, <2>2, CommitResultDoes DEF Numbered
  <2>3. CASE q # r
    <3>1. pc'[q] = pc[q] /\ seq'[q] = seq[q]
      BY <1>12, <2>3, CommitResultDoes
    <3>2. pc[q] = "written" => receipt'[KeyOf[q]] = receipt[KeyOf[q]]
      BY <1>0, <1>12, <2>1, <2>3, CommitResultDoes
    <3>3. QED BY <3>1, <3>2 DEF Numbered
  <2>4. QED BY <2>2, <2>3
<1>13. ASSUME NEW r \in Requests, Deliver(r), NEW q \in Requests
      PROVE  Numbered(q)'
  BY <1>0, <1>13, DeliverDoes DEF TypeOK, Numbered, PlaceInv, PlaceOk, KeyInv, KeyOk, CallsGmail
<1>14. ASSUME NEW r \in Requests, DeliverFails(r), NEW q \in Requests
      PROVE  Numbered(q)'
  BY <1>0, <1>14, DeliverFailsDoes DEF TypeOK, Numbered
<1>15. ASSUME NEW r \in Requests, Fail(r), NEW q \in Requests
      PROVE  Numbered(q)'
  <2>1. owner[KeyOf[r]] = r
    BY <1>0, <1>15, FailDoes DEF PlaceInv, PlaceOk
  <2>2. CASE q = r
    BY <1>15, <2>2, FailDoes DEF Numbered
  <2>3. CASE q # r
    <3>1. pc'[q] = pc[q] /\ seq'[q] = seq[q]
      BY <1>15, <2>3, FailDoes
    <3>2. pc[q] = "written" => receipt'[KeyOf[q]] = receipt[KeyOf[q]]
      BY <1>0, <1>15, <2>1, <2>3, FailDoes
    <3>3. QED BY <3>1, <3>2 DEF Numbered
  <2>4. QED BY <2>2, <2>3
<1>16. ASSUME NEW r \in Requests, Timeout(r), NEW q \in Requests
      PROVE  Numbered(q)'
  BY <1>0, <1>16, TimeoutDoes DEF TypeOK, Numbered
<1>17. ASSUME NEW r \in Requests, Crash(r), NEW q \in Requests
      PROVE  Numbered(q)'
  BY <1>0, <1>17, CrashDoes DEF TypeOK, Numbered
<1>18. ASSUME NEW k \in Keys, Age(k)
       PROVE  NumberedInv'
  BY <1>18 DEF Age, store, Numbered
<1>19. ASSUME UNCHANGED vars
       PROVE  NumberedInv'
  BY <1>19 DEF vars, store, Numbered
<1>20. QED
  BY <1>1, <1>2, <1>3, <1>4, <1>5, <1>6, <1>7, <1>8, <1>9, <1>10, <1>11, <1>12, <1>13, <1>14, <1>15, <1>16, <1>17, <1>18, <1>19 DEF Next, Step

\* Without a new event, and with no answer taken back, the events are right.
LEMMA EventsStay ==
  ASSUME EventInv, trail' = trail,
         \A k \in Keys :
           \/ receipt'[k] = receipt[k]
                /\ (receipt[k] = "completed" => owner'[k] = owner[k])
           \/ receipt[k] = "in_progress" /\ receipt'[k] = "failed",
         \A f \in Findings : \A i \in DOMAIN trail[f] : trail[f][i].key \in Keys
  PROVE  EventInv'
<1>1. ASSUME NEW f \in Findings, NEW i \in DOMAIN trail[f]
      PROVE  EventOk(trail[f][i])'
  BY DEF EventInv, EventOk
<1>2. ASSUME NEW k \in Keys, (receipt[k] = "completed" /\ KindOf[owner[k]] # "test")'
      PROVE  Sole(k)'
  <2>1. receipt[k] = "completed" /\ owner'[k] = owner[k] /\ Sole(k)
    BY <1>2 DEF EventInv
  <2>2. QED BY <2>1 DEF Sole
<1>3. QED BY <1>1, <1>2 DEF EventInv

\* A commit publishes at most one event, the first its key has of its kind.
LEMMA EventsPublished ==
  ASSUME TypeOK, KeyInv, PlaceInv, TrailInv, NumberedInv, EventInv,
         NEW r \in Requests, CommitWhole(r) \/ CommitAttempt(r) \/ CommitResult(r)
  PROVE  EventInv'
<1> DEFINE k == KeyOf[r]
           f == FindingOf[r]
           event == [seq |-> seq[r], key |-> KeyOf[r], what |-> What(r)]
           Stays(e) == receipt'[e.key] # "none"
                       /\ (e.what = "draft" => receipt'[e.key] = "completed")
<1> USE RequestAssumption
<1>1. /\ trail' = IF seq[r] = 0 THEN trail
                  ELSE [trail EXCEPT ![FindingOf[r]] = Append(@, event)]
      /\ event.key = k /\ event.what = What(r)
  BY CommitPublishes
<1> HIDE DEF event
<1>2. k \in Keys /\ f \in Findings /\ trail[f] \in Seq(Events)
      /\ \A g \in Findings : trail[g] \in Seq(Events)
  BY DEF TypeOK
<1>3. /\ \A q \in Keys : q # k => receipt'[q] = receipt[q]
      /\ owner' = owner /\ owner[k] = r /\ pc[r] = "written"
      /\ receipt[k] \in {"none", "in_progress"}
      /\ OwnsClaim(r) <=> receipt[k] = "none"
      /\ receipt[k] = "in_progress" => CallsGmail(r)
  BY CommitWholeDoes, CommitAttemptDoes, CommitResultDoes
     DEF PlaceInv, PlaceOk, Writing, OwnsClaim, IsSecond
<1>4. \/ CommitAttempt(r) /\ receipt'[k] = "in_progress" /\ OwnsClaim(r)
      \/ CommitWhole(r) /\ receipt'[k] = "completed" /\ ~CallsGmail(r)
      \/ CommitResult(r) /\ receipt'[k] = "completed" /\ CallsGmail(r) /\ ~OwnsClaim(r)
  BY <1>2, CommitWholeDoes, CommitAttemptDoes, CommitResultDoes
<1>5. What(r) = IF KindOf[r] = "draft" /\ OwnsClaim(r) THEN "contact" ELSE KindOf[r]
  BY DEF What
<1>6. \A e \in Events : EventOk(e) => Stays(e)
  <2>1. SUFFICES ASSUME NEW e \in Events, EventOk(e)
                 PROVE  Stays(e)
    OBVIOUS
  <2>2. CASE e.key = k
    BY <1>3, <1>4, <2>1, <2>2 DEF EventOk
  <2>3. CASE e.key # k
    <3>1. e.key \in Keys
      BY DEF Events
    <3>2. QED BY <1>3, <2>1, <2>3, <3>1 DEF EventOk
  <2>4. QED BY <2>2, <2>3
<1>7. Stays(event)
  <2>1. event.what = "draft" => receipt'[k] = "completed"
    BY <1>1, <1>4, <1>5 DEF CallsGmail
  <2>2. QED BY <1>1, <1>4, <2>1
<1>8. \A g \in Findings : \A i \in DOMAIN trail'[g] :
        \/ i \in DOMAIN trail[g] /\ trail'[g][i] = trail[g][i]
        \/ g = f /\ i = Len(trail[f]) + 1 /\ trail'[g][i] = event /\ seq[r] # 0
  BY <1>1, <1>2 DEF TypeOK
<1>9. \A g \in Findings : \A i \in DOMAIN trail[g] :
        i \in DOMAIN trail'[g] /\ trail'[g][i] = trail[g][i]
  BY <1>1, <1>2 DEF TypeOK
<1>10. \A g \in Findings : \A i \in DOMAIN trail'[g] : Stays(trail'[g][i])
  <2> TAKE g \in Findings
  <2> TAKE i \in DOMAIN trail'[g]
  <2>2. CASE i \in DOMAIN trail[g] /\ trail'[g][i] = trail[g][i]
    <3>1. trail[g][i] \in Events /\ EventOk(trail[g][i])
      BY <1>2, <2>2 DEF EventInv
    <3>2. QED BY <1>6, <2>2, <3>1
  <2>3. CASE trail'[g][i] = event
    BY <1>7, <2>3
  <2>4. QED BY <1>8, <2>2, <2>3
<1>11. ASSUME NEW q \in Keys, q # k, receipt'[q] = "completed", KindOf[owner[q]] # "test"
       PROVE  Sole(q)'
  <2>1. Sole(q) /\ receipt[q] = "completed"
    BY <1>3, <1>11 DEF EventInv
  <2> DEFINE g == FindingOf[owner[q]]
  <2>2. g \in Findings
    BY <2>1 DEF TypeOK, KeyInv, KeyOk
  <2>3. PICK i \in DOMAIN trail[g] :
          \A j \in DOMAIN trail[g] :
            trail[g][j].key = q /\ trail[g][j].what = KindOf[owner[q]] <=> j = i
    BY <2>1 DEF Sole
  <2>4. i \in DOMAIN trail'[g]
    BY <1>9, <2>2
  <2>5. ASSUME NEW j \in DOMAIN trail'[g]
        PROVE  trail'[g][j].key = q /\ trail'[g][j].what = KindOf[owner[q]] <=> j = i
    <3>1. CASE j \in DOMAIN trail[g] /\ trail'[g][j] = trail[g][j]
      BY <2>3, <3>1
    <3>2. CASE g = f /\ j = Len(trail[f]) + 1 /\ trail'[g][j] = event
      <4>1. trail'[g][j].key # q
        BY <1>1, <1>11, <3>2
      <4>2. i \in 1..Len(trail[f])
        BY <1>2, <3>2
      <4>3. i # j
        BY <1>2, <3>2, <4>2
      <4>4. QED BY <4>1, <4>3
    <3>3. QED BY <1>8, <2>2, <3>1, <3>2
  <2>6. QED BY <1>3, <2>4, <2>5 DEF Sole
<1>12. ASSUME receipt'[k] = "completed", KindOf[r] # "test"
       PROVE  Sole(k)'
  <2>1. CommitAttempt(r) => receipt'[k] = "in_progress"
    BY <1>2, CommitAttemptDoes
  <2>2. seq[r] # 0 /\ What(r) = KindOf[r]
    <3>1. KindOf[r] = "draft" => receipt[k] # "none"
      BY <1>3, <1>4, <1>12 DEF CallsGmail
    <3>2. QED BY <1>3, <1>5, <1>12, <3>1 DEF NumberedInv, Numbered
  <2>3. \A j \in DOMAIN trail[f] : ~(trail[f][j].key = k /\ trail[f][j].what = KindOf[r])
    <3>1. TAKE j \in DOMAIN trail[f]
    <3>2. EventOk(trail[f][j])
      BY <1>2 DEF EventInv
    <3>3. QED
      BY <1>3, <1>4, <1>12, <3>2 DEF EventOk, CallsGmail
  <2> DEFINE i == Len(trail[f]) + 1
  <2>4. i \in DOMAIN trail'[f] /\ trail'[f][i] = event
    BY <1>1, <1>2, <2>2 DEF TypeOK
  <2>5. ASSUME NEW j \in DOMAIN trail'[f]
        PROVE  trail'[f][j].key = k /\ trail'[f][j].what = KindOf[r] <=> j = i
    <3>1. CASE j \in DOMAIN trail[f] /\ trail'[f][j] = trail[f][j]
      <4>1. j # i
        BY <1>2, <3>1
      <4>2. QED BY <2>3, <3>1, <4>1
    <3>2. CASE j = i /\ trail'[f][j] = event
      BY <1>1, <2>2, <3>2
    <3>3. QED BY <1>2, <1>8, <3>1, <3>2
  <2>6. QED BY <1>3, <2>4, <2>5 DEF Sole
<1>13. ASSUME NEW q \in Keys, (receipt[q] = "completed" /\ KindOf[owner[q]] # "test")'
       PROVE  Sole(q)'
  BY <1>3, <1>11, <1>12, <1>13
<1>14. QED BY <1>10, <1>13 DEF EventInv, EventOk

\* The audit stream tells what was committed.
LEMMA EventStep ==
  ASSUME TypeOK, KeyInv, PlaceInv, TrailInv, NumberedInv, EventInv, [Next]_vars
  PROVE  EventInv'
<1> USE RequestAssumption
<1>0. \A f \in Findings : \A i \in DOMAIN trail[f] : trail[f][i].key \in Keys
  <2> TAKE f \in Findings
  <2> TAKE i \in DOMAIN trail[f]
  <2>2. trail[f] \in Seq(Events) /\ trail[f][i] \in Events
    BY DEF TypeOK
  <2>3. QED BY <2>2 DEF Events
<1>1. ASSUME NEW r \in Requests, Claim(r)
      PROVE  EventInv'
  BY <1>0, <1>1, EventsStay, ClaimDoes DEF OwnsClaim
<1>2. ASSUME NEW r \in Requests, Replay(r)
      PROVE  EventInv'
  BY <1>0, <1>2, EventsStay, ReplayDoes
<1>3. ASSUME NEW r \in Requests, Conflict(r)
      PROVE  EventInv'
  BY <1>0, <1>3, EventsStay, ConflictDoes
<1>4. ASSUME NEW r \in Requests, Lock(r)
      PROVE  EventInv'
  BY <1>0, <1>4, EventsStay, LockDoes
<1>5. ASSUME NEW r \in Requests, Proceed(r)
      PROVE  EventInv'
  BY <1>0, <1>5, EventsStay, ProceedDoes
<1>6. ASSUME NEW r \in Requests, Refuse(r)
      PROVE  EventInv'
  BY <1>0, <1>6, EventsStay, RefuseDoes DEF OwnsClaim
<1>7. ASSUME NEW r \in Requests, Number(r)
      PROVE  EventInv'
  BY <1>0, <1>7, EventsStay, NumberDoes
<1>8. ASSUME NEW r \in Requests, AppendEvent(r)
      PROVE  EventInv'
  BY <1>0, <1>8, EventsStay, AppendEventDoes
<1>9. ASSUME NEW r \in Requests, Collide(r)
      PROVE  EventInv'
  BY <1>0, <1>9, EventsStay, CollideDoes DEF OwnsClaim
<1>10. ASSUME NEW r \in Requests, CommitWhole(r)
       PROVE  EventInv'
  BY <1>10, EventsPublished
<1>11. ASSUME NEW r \in Requests, CommitAttempt(r)
       PROVE  EventInv'
  BY <1>11, EventsPublished
<1>12. ASSUME NEW r \in Requests, CommitResult(r)
       PROVE  EventInv'
  BY <1>12, EventsPublished
<1>13. ASSUME NEW r \in Requests, Deliver(r)
       PROVE  EventInv'
  BY <1>0, <1>13, EventsStay, DeliverDoes
<1>14. ASSUME NEW r \in Requests, DeliverFails(r)
       PROVE  EventInv'
  BY <1>0, <1>14, EventsStay, DeliverFailsDoes
<1>15. ASSUME NEW r \in Requests, Fail(r)
       PROVE  EventInv'
  BY <1>0, <1>15, EventsStay, FailDoes DEF PlaceInv, PlaceOk
<1>16. ASSUME NEW r \in Requests, Timeout(r)
       PROVE  EventInv'
  BY <1>0, <1>16, EventsStay, TimeoutDoes DEF OwnsClaim
<1>17. ASSUME NEW r \in Requests, Crash(r)
       PROVE  EventInv'
  BY <1>0, <1>17, EventsStay, CrashDoes DEF OwnsClaim
<1>18. ASSUME NEW k \in Keys, Age(k)
       PROVE  EventInv'
  BY <1>0, <1>18, EventsStay DEF Age, store
<1>19. ASSUME UNCHANGED vars
       PROVE  EventInv'
  BY <1>0, <1>19, EventsStay DEF vars, store
<1>20. QED
  BY <1>1, <1>2, <1>3, <1>4, <1>5, <1>6, <1>7, <1>8, <1>9, <1>10, <1>11, <1>12, <1>13, <1>14, <1>15, <1>16, <1>17, <1>18, <1>19 DEF Next, Step

LEMMA InitOk == Init => IInv
<1> SUFFICES ASSUME Init PROVE IInv
  OBVIOUS
<1> USE RequestAssumption, BoundAssumption
<1>1. TypeOK
  BY DEF Init, TypeOK, Places, Receipts, Words
<1>2. KeyInv /\ PlaceInv /\ LockInv
  BY DEF Init, KeyInv, KeyOk, PlaceInv, PlaceOk, LockInv, LockOk, Writing, OwnsClaim
<1>3. QuotaInv
  <2>1. Used = {}
    BY DEF Init, Used
  <2>2. QED BY <2>1, FS_EmptySet DEF Init, QuotaInv
<1>4. TrailInv
  BY DEF Init, TrailInv, TrailInOrder, SeqOk, Apart, Last
<1>5. HolderInv /\ NumberedInv /\ EventInv
  BY DEF Init, HolderInv, HolderOk, NumberedInv, Numbered, EventInv
<1>6. QED BY <1>1, <1>2, <1>3, <1>4, <1>5 DEF IInv

LEMMA IInvStep == IInv /\ [Next]_vars => IInv'
  BY TypeStep, KeyStep, PlaceStep, LockStep, QuotaStep, TrailStep, HolderStep,
     NumberedStep, EventStep DEF IInv

LEMMA IInvAlways == Spec => []IInv
  BY InitOk, IInvStep, PTL DEF Spec

\* The variables keep their types.
THEOREM Types == Spec => []TypeOK
<1>1. IInv => TypeOK
  BY DEF IInv
<1>2. QED BY <1>1, IInvAlways, PTL

\* However many tests are asked for at once, no window holds more than the
\* quota of tests that did not fail.
THEOREM QuotaAlways == Spec => []QuotaHolds
<1>1. TypeOK => Attempts = Used
  BY DEF TypeOK, Receipts, Attempts, Used
<1>2. IInv => QuotaHolds
  BY <1>1 DEF IInv, QuotaInv, QuotaHolds
<1>3. QED BY <1>2, IInvAlways, PTL

\* The audit stream of a finding has one event at each position, in order.
THEOREM TrailInOrderAlways == Spec => []TrailInOrder
<1>1. IInv => TrailInOrder
  BY DEF IInv, TrailInv
<1>2. QED BY <1>1, IInvAlways, PTL

\* A key is busy for ever only after a death of its request's second part.
THEOREM BusyExcused == Spec => []BusyIsExcused
<1>1. IInv => BusyIsExcused
  BY DEF IInv, KeyInv, KeyOk, BusyIsExcused, Second, Writing
<1>2. QED BY <1>1, IInvAlways, PTL

\* A completed command has its one event in the audit stream, a refused or
\* dead one none, a failed «Preparar correo» none of a draft.
THEOREM TrailAlwaysMatches == Spec => []TrailMatches
<1>1. ASSUME IInv, NEW k \in Keys, NEW f \in Findings, receipt[k] = "none"
      PROVE  effects[k] = <<>> /\ \A what \in Kinds : EventsOf(k, what, f) = {}
  BY <1>1 DEF IInv, KeyInv, KeyOk, EventInv, EventOk, EventsOf
<1>2. ASSUME IInv, NEW k \in Keys, receipt[k] = "completed", KindOf[owner[k]] # "test"
      PROVE  Cardinality(EventsOf(k, KindOf[owner[k]], FindingOf[owner[k]])) = 1
  <2>1. Sole(k)
    BY <1>2 DEF IInv, EventInv
  <2>2. PICK i \in DOMAIN trail[FindingOf[owner[k]]] :
          \A j \in DOMAIN trail[FindingOf[owner[k]]] :
            LET e == trail[FindingOf[owner[k]]][j] IN
            e.key = k /\ e.what = KindOf[owner[k]] <=> j = i
    BY <2>1 DEF Sole
  <2>3. EventsOf(k, KindOf[owner[k]], FindingOf[owner[k]]) = {i}
    BY <2>2 DEF EventsOf
  <2>4. QED BY <2>3, FS_Singleton
<1>3. ASSUME IInv, NEW k \in Keys, NEW f \in Findings, receipt[k] = "failed"
      PROVE  EventsOf(k, "draft", f) = {}
  BY <1>3 DEF IInv, EventInv, EventOk, EventsOf
<1>4. IInv => TrailMatches
  BY <1>1, <1>2, <1>3 DEF TrailMatches
<1>5. QED BY <1>4, IInvAlways, PTL

\* For a key a request waits for one past its claim, for a lock for one past
\* its check, for a position for one about to commit, which waits for nobody.
THEOREM SomeoneAlwaysRuns == Spec => []SomeoneRuns
<1>1. ASSUME IInv, NEW r \in Requests, pc[r] # "done",
             \A q \in Requests : pc[q] # "done" => Waits(q)
      PROVE  FALSE
  <2>1. \A q \in Requests : pc[q] \in {"new", "claimed", "numbered", "done"}
    BY <1>1 DEF Waits
  <2>2. \A q \in Requests : pc[q] # "numbered"
    BY <1>1, <2>1 DEF Waits, PositionHeld
  <2>3. \A q \in Requests : pc[q] # "claimed"
    <3>1. SUFFICES ASSUME NEW q \in Requests, pc[q] = "claimed" PROVE FALSE
      OBVIOUS
    <3>2. Scope(q) \in Findings \cup {Tests} /\ lock[Scope(q)] # Nobody
      BY <1>1, <3>1, RequestAssumption DEF Waits, Scope
    <3>3. lock[Scope(q)] \in Requests
          /\ pc[lock[Scope(q)]] \in {"locked"} \cup Writing
      BY <1>1, <3>2 DEF IInv, TypeOK, HolderInv, HolderOk
    <3>4. QED BY <2>1, <2>2, <3>3 DEF Writing
  <2>4. pc[r] = "new"
    BY <1>1, <2>1, <2>2, <2>3
  <2>5. KeyOf[r] \in Keys /\ receipt[KeyOf[r]] = "none" /\ owner[KeyOf[r]] # Nobody
    BY <1>1, <2>4, RequestAssumption DEF Waits
  <2>6. owner[KeyOf[r]] \in Requests
        /\ pc[owner[KeyOf[r]]] \in {"claimed", "locked"} \cup Writing
    BY <1>1, <2>5 DEF IInv, TypeOK, KeyInv, KeyOk
  <2>7. QED BY <2>1, <2>2, <2>3, <2>6 DEF Writing
<1>2. IInv => SomeoneRuns
  BY <1>1 DEF SomeoneRuns
<1>3. QED BY <1>2, IInvAlways, PTL

-----------------------------------------------------------------------------
(* The receipts keep the promise.                                          *)

\* What a reply tells, and what a receipt settles.
LEMMA Telling ==
  ASSUME IInv, NEW r \in Requests, NEW word \in {"ok", "refused", "failed", "error"},
         pc[r] # "done",
         \A q \in Requests : reply'[q] = IF q = r THEN word ELSE reply[q]
  PROVE  Promise!Say(r, IF word = "ok" THEN "ok" ELSE "no")
<1>1. reply[r] = "none"
  BY DEF IInv, PlaceInv, PlaceOk
<1>2. Told[r] = "waiting"
  BY <1>1 DEF Told
<1>3. Told' = [Told EXCEPT ![r] = IF word = "ok" THEN "ok" ELSE "no"]
  BY DEF Told
<1>4. QED BY <1>2, <1>3 DEF Promise!Say

LEMMA TellingNo ==
  ASSUME IInv, NEW r \in Requests, pc[r] # "done",
         \A q \in Requests : reply'[q] = IF q = r THEN reply'[r] ELSE reply[q],
         reply'[r] \in {"refused", "error"}, UNCHANGED <<receipt, effects>>
  PROVE  Promise!SayNo(r)
<1>1. Promise!Say(r, "no")
  BY Telling
<1>2. QED BY <1>1 DEF Promise!SayNo, Verdict

\* Every step is one of the promise's, or changes nothing it speaks of.
LEMMA PromiseStep ==
  ASSUME IInv, [Next]_vars
  PROVE  [Promise!Next]_<<effects, Verdict, Told>>
<1> USE RequestAssumption
<1>0. TypeOK /\ KeyInv /\ PlaceInv
  BY DEF IInv
<1>1. ASSUME NEW r \in Requests, Claim(r)
      PROVE  [Promise!Next]_<<effects, Verdict, Told>>
  <2>1. UNCHANGED <<effects, receipt, reply>>
    BY <1>0, <1>1, ClaimDoes
  <2>2. QED BY <2>1 DEF Verdict, Told
<1>2. ASSUME NEW r \in Requests, Replay(r)
      PROVE  [Promise!Next]_<<effects, Verdict, Told>>
  <2>1. Promise!Say(r, "ok")
    BY <1>0, <1>2, ReplayDoes, Telling
  <2>2. Verdict[KeyOf[r]] = "completed" /\ Verdict' = Verdict
    BY <1>0, <1>2, ReplayDoes DEF Verdict
  <2>3. effects[KeyOf[r]] = <<ContentOf[r]>> /\ UNCHANGED effects
    BY <1>0, <1>2, ReplayDoes DEF KeyInv, KeyOk
  <2>4. QED BY <2>1, <2>2, <2>3 DEF Promise!SayOk, Promise!Next
<1>3. ASSUME NEW r \in Requests, Conflict(r)
      PROVE  [Promise!Next]_<<effects, Verdict, Told>>
  <2>1. Promise!SayNo(r)
    BY <1>0, <1>3, ConflictDoes, TellingNo
  <2>2. QED BY <2>1 DEF Promise!Next
<1>4. ASSUME NEW r \in Requests, Lock(r)
      PROVE  [Promise!Next]_<<effects, Verdict, Told>>
  <2>1. UNCHANGED <<effects, receipt, reply>>
    BY <1>0, <1>4, LockDoes
  <2>2. QED BY <2>1 DEF Verdict, Told
<1>5. ASSUME NEW r \in Requests, Proceed(r)
      PROVE  [Promise!Next]_<<effects, Verdict, Told>>
  <2>1. UNCHANGED <<effects, receipt, reply>>
    BY <1>0, <1>5, ProceedDoes
  <2>2. QED BY <2>1 DEF Verdict, Told
<1>6. ASSUME NEW r \in Requests, Refuse(r)
      PROVE  [Promise!Next]_<<effects, Verdict, Told>>
  <2>1. Promise!SayNo(r)
    BY <1>0, <1>6, RefuseDoes, TellingNo
  <2>2. QED BY <2>1 DEF Promise!Next
<1>7. ASSUME NEW r \in Requests, Number(r)
      PROVE  [Promise!Next]_<<effects, Verdict, Told>>
  <2>1. UNCHANGED <<effects, receipt, reply>>
    BY <1>0, <1>7, NumberDoes
  <2>2. QED BY <2>1 DEF Verdict, Told
<1>8. ASSUME NEW r \in Requests, AppendEvent(r)
      PROVE  [Promise!Next]_<<effects, Verdict, Told>>
  <2>1. UNCHANGED <<effects, receipt, reply>>
    BY <1>0, <1>8, AppendEventDoes
  <2>2. QED BY <2>1 DEF Verdict, Told
<1>9. ASSUME NEW r \in Requests, Collide(r)
      PROVE  [Promise!Next]_<<effects, Verdict, Told>>
  <2>1. Promise!SayNo(r)
    BY <1>0, <1>9, CollideDoes, TellingNo
  <2>2. QED BY <2>1 DEF Promise!Next
<1>10. ASSUME NEW r \in Requests, CommitWhole(r)
      PROVE  [Promise!Next]_<<effects, Verdict, Told>>
  <2>1. Promise!Say(r, "ok") \/ Promise!Say(r, "no")
    <3>1. reply'[r] \in {"ok", "error"} /\ pc[r] # "done"
          /\ \A q \in Requests : reply'[q] = IF q = r THEN reply'[r] ELSE reply[q]
      BY <1>0, <1>10, CommitWholeDoes
    <3>2. QED BY <3>1, Telling
  <2>2. receipt[KeyOf[r]] = "none"
    BY <1>0, <1>10, CommitWholeDoes DEF PlaceInv, PlaceOk, Writing, OwnsClaim, IsSecond, CallsGmail
  <2>3. Promise!Settle(KeyOf[r], "completed")
    <3>1. Verdict[KeyOf[r]] = "none"
      BY <2>2 DEF Verdict
    <3>2. Verdict' = [Verdict EXCEPT ![KeyOf[r]] = "completed"]
      <4>1. receipt' = [receipt EXCEPT ![KeyOf[r]] = "completed"]
        BY <1>10 DEF CommitWhole
      <4>2. KeyOf[r] \in Keys /\ DOMAIN receipt = Keys
        BY <1>0 DEF TypeOK
      <4>3. QED BY <4>1, <4>2 DEF Verdict
    <3>3. QED BY <3>1, <3>2 DEF Promise!Settle
  <2>4. effects[KeyOf[r]] = <<>>
    BY <1>0, <2>2 DEF KeyInv, KeyOk
  <2>5. effects' = [effects EXCEPT ![KeyOf[r]] = <<ContentOf[r]>>]
    BY <1>10, <2>4, AppendToEmpty DEF CommitWhole, Done
  <2>6. Promise!Perform(r)
    BY <2>2, <2>4, <2>5 DEF Promise!Perform, Verdict
  <2>7. QED BY <2>1, <2>3, <2>6 DEF Promise!PerformAndComplete, Promise!Next
<1>11. ASSUME NEW r \in Requests, CommitAttempt(r)
      PROVE  [Promise!Next]_<<effects, Verdict, Told>>
  <2>1. UNCHANGED <<effects, reply>>
    BY <1>0, <1>11, CommitAttemptDoes
  <2>2. Verdict' = Verdict
    BY <1>0, <1>11, CommitAttemptDoes DEF Verdict, OwnsClaim
  <2>3. QED BY <2>1, <2>2 DEF Told
<1>12. ASSUME NEW r \in Requests, CommitResult(r)
      PROVE  [Promise!Next]_<<effects, Verdict, Told>>
  <2>1. Promise!Say(r, "ok") \/ Promise!Say(r, "no")
    <3>1. reply'[r] \in {"ok", "error"} /\ pc[r] # "done"
          /\ \A q \in Requests : reply'[q] = IF q = r THEN reply'[r] ELSE reply[q]
      BY <1>0, <1>12, CommitResultDoes
    <3>2. QED BY <3>1, Telling
  <2>2. receipt[KeyOf[r]] = "in_progress"
    BY <1>0, <1>12, CommitResultDoes DEF PlaceInv, PlaceOk, Writing, OwnsClaim, IsSecond, CallsGmail
  <2>3. Promise!Settle(KeyOf[r], "completed")
    <3>1. Verdict[KeyOf[r]] = "none"
      BY <2>2 DEF Verdict
    <3>2. Verdict' = [Verdict EXCEPT ![KeyOf[r]] = "completed"]
      <4>1. receipt' = [receipt EXCEPT ![KeyOf[r]] = "completed"]
        BY <1>12 DEF CommitResult
      <4>2. KeyOf[r] \in Keys /\ DOMAIN receipt = Keys
        BY <1>0 DEF TypeOK
      <4>3. QED BY <4>1, <4>2 DEF Verdict
    <3>3. QED BY <3>1, <3>2 DEF Promise!Settle
  <2>4. effects[KeyOf[r]] = <<ContentOf[r]>> /\ UNCHANGED effects
    BY <1>0, <1>12, <2>2, CommitResultDoes DEF PlaceInv, PlaceOk, Writing, OwnsClaim, IsSecond
  <2>5. QED BY <2>1, <2>3, <2>4 DEF Promise!Complete, Promise!Next
<1>13. ASSUME NEW r \in Requests, Deliver(r)
      PROVE  [Promise!Next]_<<effects, Verdict, Told>>
  <2>1. receipt[KeyOf[r]] = "in_progress" /\ effects[KeyOf[r]] = <<>>
        /\ UNCHANGED <<receipt, reply>>
    BY <1>0, <1>13, DeliverDoes DEF PlaceInv, PlaceOk
  <2>2. ASSUME Done(r)
        PROVE  Promise!Begin(r)
    <3>1. effects' = [effects EXCEPT ![KeyOf[r]] = <<ContentOf[r]>>]
      BY <2>1, <2>2, AppendToEmpty DEF Done
    <3>2. Promise!Perform(r)
      BY <2>1, <3>1 DEF Promise!Perform, Verdict
    <3>3. QED BY <2>1, <3>2 DEF Promise!Begin, Verdict, Told
  <2>3. Done(r) \/ UNCHANGED effects
    BY <1>13 DEF Deliver
  <2>4. QED BY <2>1, <2>2, <2>3 DEF Promise!Next, Verdict, Told
<1>14. ASSUME NEW r \in Requests, DeliverFails(r)
      PROVE  [Promise!Next]_<<effects, Verdict, Told>>
  <2>1. receipt[KeyOf[r]] = "in_progress" /\ effects[KeyOf[r]] = <<>>
        /\ UNCHANGED <<receipt, reply>>
    BY <1>0, <1>14, DeliverFailsDoes DEF PlaceInv, PlaceOk
  <2>2. ASSUME Done(r)
        PROVE  Promise!Begin(r)
    <3>1. effects' = [effects EXCEPT ![KeyOf[r]] = <<ContentOf[r]>>]
      BY <2>1, <2>2, AppendToEmpty DEF Done
    <3>2. Promise!Perform(r)
      BY <2>1, <3>1 DEF Promise!Perform, Verdict
    <3>3. QED BY <2>1, <3>2 DEF Promise!Begin, Verdict, Told
  <2>3. Done(r) \/ UNCHANGED effects
    BY <1>14 DEF DeliverFails
  <2>4. QED BY <2>1, <2>2, <2>3 DEF Promise!Next, Verdict, Told
<1>15. ASSUME NEW r \in Requests, Fail(r)
      PROVE  [Promise!Next]_<<effects, Verdict, Told>>
  <2>1. Promise!Say(r, "no")
    BY <1>0, <1>15, FailDoes, Telling
  <2>2. Promise!Settle(KeyOf[r], "failed") /\ UNCHANGED effects
    <3>1. Verdict[KeyOf[r]] = "none" /\ UNCHANGED effects
      BY <1>0, <1>15, FailDoes DEF PlaceInv, PlaceOk, Verdict
    <3>2. Verdict' = [Verdict EXCEPT ![KeyOf[r]] = "failed"]
      <4>1. receipt' = [receipt EXCEPT ![KeyOf[r]] = "failed"]
        BY <1>15 DEF Fail, FailedAs
      <4>2. KeyOf[r] \in Keys /\ DOMAIN receipt = Keys
        BY <1>0 DEF TypeOK
      <4>3. QED BY <4>1, <4>2 DEF Verdict
    <3>3. QED BY <3>1, <3>2 DEF Promise!Settle
  <2>3. QED BY <2>1, <2>2 DEF Promise!GiveUp, Promise!Next
<1>16. ASSUME NEW r \in Requests, Timeout(r)
      PROVE  [Promise!Next]_<<effects, Verdict, Told>>
  <2>1. Promise!SayNo(r)
    BY <1>0, <1>16, TimeoutDoes, TellingNo
  <2>2. QED BY <2>1 DEF Promise!Next
<1>17. ASSUME NEW r \in Requests, Crash(r)
      PROVE  [Promise!Next]_<<effects, Verdict, Told>>
  <2>1. Promise!SayNo(r)
    BY <1>0, <1>17, CrashDoes, TellingNo
  <2>2. QED BY <2>1 DEF Promise!Next
<1>18. ASSUME NEW k \in Keys, Age(k)
       PROVE  [Promise!Next]_<<effects, Verdict, Told>>
  BY <1>18 DEF Age, store, Verdict, Told
<1>19. ASSUME UNCHANGED vars
       PROVE  [Promise!Next]_<<effects, Verdict, Told>>
  BY <1>19 DEF vars, store, Verdict, Told
<1>20. QED
  BY <1>1, <1>2, <1>3, <1>4, <1>5, <1>6, <1>7, <1>8, <1>9, <1>10, <1>11, <1>12, <1>13, <1>14, <1>15, <1>16, <1>17, <1>18, <1>19 DEF Next, Step

\* The receipts implement the promise: whatever requests share a key, and
\* whatever dies in between, a key's effect happens once, is settled once,
\* and is answered to nobody who asked for something else.
THEOREM ReceiptsKeepThePromise == Spec => KeepsPromise
<1>1. Init => Promise!Init
  BY DEF Init, Promise!Init, Verdict, Told
<1>2. IInv /\ [Next]_vars => [Promise!Next]_<<effects, Verdict, Told>>
  BY PromiseStep
<1>3. QED BY <1>1, <1>2, IInvAlways, PTL DEF Spec, KeepsPromise, Promise!Spec, Promise!promise
=============================================================================
