---------------------------- MODULE QuoteRevisions ----------------------------
(***************************************************************************)
(* The commands of QuoteBook as they run: each one a transaction that      *)
(* locks rows one after the other, checks each row once it has it, and     *)
(* writes when it holds all of them.  The locks that foreign keys take are *)
(* left out.                                                               *)
(***************************************************************************)
EXTENDS QuoteBook

VARIABLE holds   \* the row locks of a request's transaction

vars == <<rev, case, pc, saw, holds>>

Ask(r) == AskOf(r) /\ UNCHANGED holds

-----------------------------------------------------------------------------
(* The row locks, in the order the handler takes them *)

CaseLock(q, mode) == [on |-> <<"case", CaseOf[q], 0>>, mode |-> mode]
QuoteLock(q, mode) == [on |-> <<"quote", q, 0>>, mode |-> mode]
RevLock(q, n) == [on |-> <<"revision", q, n>>, mode |-> "update"]

\* Mutated form: «Aprobar» only reads its case.
ApproveReadsCase(q, n) ==
  <<CaseLock(q, "read"), QuoteLock(q, "update"), RevLock(q, n)>>
ApproveLocks(q, n) ==
  <<CaseLock(q, "share"), QuoteLock(q, "update"), RevLock(q, n)>>

\* R16: the action's first case, then for each of its cases the revision and
\* the case itself.  Mutated form: without _refresh_case.
MailLocksUnrefreshed(r) ==
  LET a == First(r)
      b == QuotesOf[r][2]
      own == <<RevLock(a, saw[r][a].no), CaseLock(a, "update")>>
  IN  IF Len(QuotesOf[r]) = 1 THEN own
      ELSE own \o <<RevLock(b, saw[r][b].no), CaseLock(b, "update")>>
MailLocks(r) ==
  LET a == First(r)
      b == QuotesOf[r][2]
  IN  IF Len(QuotesOf[r]) = 1
      THEN <<CaseLock(a, "update"), RevLock(a, saw[r][a].no)>>
      ELSE <<CaseLock(a, "update"), RevLock(a, saw[r][a].no),
             RevLock(b, saw[r][b].no), CaseLock(b, "update")>>

Locks(r) ==
  LET q == First(r)
      n == saw[r][q].no
  IN
  CASE KindOf[r] = "save"    ->
         <<CaseLock(q, "share"), QuoteLock(q, "share"), RevLock(q, n)>>
    [] KindOf[r] = "approve" -> ApproveLocks(q, n)
    [] KindOf[r] = "void"    -> <<RevLock(q, n)>>
    [] KindOf[r] = "revise"  -> <<QuoteLock(q, "update")>>
    [] KindOf[r] = "record"  ->
         IF n = 0 THEN <<CaseLock(q, "share"), QuoteLock(q, "update")>>
         ELSE <<CaseLock(q, "share"), QuoteLock(q, "update"), RevLock(q, n)>>
    [] KindOf[r] = "choose"  ->
         <<CaseLock(q, "update"), QuoteLock(q, "update")>>
    [] KindOf[r] = "mail"    -> MailLocks(r)
    [] OTHER                 -> <<CaseLock(q, "update")>>

\* Then, by number: the revisions an approval replaces, all of the quote's
\* for a choice.
Then(r) ==
  LET q == First(r) IN
  CASE KindOf[r] = "approve" -> Earlier(q, saw[r][q].no)
    [] KindOf[r] = "choose"  -> DOMAIN rev[q]
    [] OTHER                 -> {}

Excludes(l, m) ==
  l.on = m.on
    /\ <<l.mode, m.mode>> \in {<<"share", "update">>, <<"update", "share">>,
                               <<"update", "update">>}

Held(r, l) == \E m \in holds[r] : m.on = l.on
HoldsAll(r) ==
  LET locks == Locks(r) IN
  /\ \A i \in DOMAIN locks : Held(r, locks[i])
  /\ \A n \in Then(r) : Held(r, RevLock(First(r), n))

\* The one it takes next, if any.
NextLocks(r) ==
  LET locks == Locks(r)
      missing == {i \in DOMAIN locks : ~Held(r, locks[i])}
      later == {n \in Then(r) : ~Held(r, RevLock(First(r), n))}
      Least(S) == {i \in S : \A j \in S : i <= j}
  IN  IF missing # {} THEN {locks[i] : i \in Least(missing)}
      ELSE {RevLock(First(r), n) : n \in Least(later)}

Blocks(p, r, lock) == p # r /\ \E l \in holds[p] : Excludes(l, lock)
WaitsFor(r) ==
  IF pc[r] # "asked" THEN {}
  ELSE LET next == NextLocks(r) IN
       {p \in Requests : \E lock \in next : Blocks(p, r, lock)}

-----------------------------------------------------------------------------
(* The transaction *)

\* The quote of a mail's two whose case or revision the lock is on.
Passes(r, l) ==
  \A q \in Named(r) :
    /\ l.on = <<"case", CaseOf[q], 0>> => CasePasses(r, q)
    /\ l.on = <<"quote", q, 0>> => QuotePasses(r, q)
    /\ l.on = <<"revision", q, saw[r][q].no>> => RevisionPasses(r, q)

Lock(r) ==
  /\ pc[r] = "asked"
  /\ \E lock \in NextLocks(r) :
       /\ \A p \in Requests : ~Blocks(p, r, lock)
       /\ Passes(r, lock)
       /\ holds' = [holds EXCEPT ![r] = @ \cup {lock}]
  /\ UNCHANGED <<rev, case, pc, saw>>

End(r) == EndOf(r) /\ holds' = [holds EXCEPT ![r] = {}]

\* Under the quote's lock, which has no say in what becomes of the revision.
Find(r) == FindSource(r) /\ HoldsAll(r) /\ UNCHANGED holds

Commit(r) ==
  /\ pc[r] = "asked" /\ HoldsAll(r)
  /\ Writes(r)
  /\ End(r)

\* Refused by a check, ended by Postgres (a deadlock, a wait too long), or dead
\* with its process: nothing stays.
Rollback(r) ==
  /\ pc[r] = "asked"
  /\ End(r)
  /\ UNCHANGED <<rev, case>>

-----------------------------------------------------------------------------
Init == BookInit /\ holds = [r \in Requests |-> {}]

Next ==
  \E r \in Requests :
    Ask(r) \/ Lock(r) \/ Find(r) \/ Commit(r) \/ Rollback(r)

Spec == Init /\ [][Next]_vars

-----------------------------------------------------------------------------
(* Properties *)

Things ==
  ({"case"} \X Cases \X {0}) \cup ({"quote"} \X Quotes \X {0})
    \cup ({"revision"} \X Quotes \X Nat)
Sights ==
  [no : Nat, version : Nat, text : Texts, stage : Stages \cup {"none"},
   caseVersion : Nat]

\* The variables have their types; a case has a won revision exactly when its
\* stage says so.
TypeOK ==
  /\ rev \in [Quotes -> Seq(Revisions)]
  /\ case \in [Cases -> [stage : Stages, version : Nat,
                         won : {<<>>} \cup (Quotes \X Nat)]]
  /\ \A c \in Cases : case[c].won # <<>> <=> case[c].stage = "won"
  /\ pc \in [Requests -> {"idle", "asked", "done"}]
  /\ DOMAIN saw = Requests /\ \A r \in Requests : saw[r] \in [Named(r) -> Sights]
  /\ holds \in [Requests -> SUBSET [on : Things, mode : {"share", "update"}]]

\* A minted quote has at most one revision in force, whatever approvals,
\* voids, sendings and new revisions overlap.
OneInForce ==
  \A q \in Quotes \ Printed : \A n, m \in DOMAIN rev[q] :
    Current(rev[q][n]) /\ Current(rev[q][m]) => n = m

\* A chain of "replaced by" never closes into a circle: two operators who
\* choose different revisions do not each replace the other's.
ChainsEnd ==
  \A q \in Quotes : \A S \in SUBSET DOMAIN rev[q] :
    S # {} => \E n \in S : rev[q][n].by \notin S

\* What was approved is what its approver was shown, and stays: a draft saved
\* meanwhile is not approved unread, an approved one is not saved over.
ApprovedAsShown ==
  \A q \in Quotes \ Printed : \A n \in DOMAIN rev[q] :
    Issued(rev[q][n]) => rev[q][n].text = rev[q][n].approved

\* A case is won against a revision that was sent and is in force, and nothing
\* done at the same time or later takes that away.
WonStands ==
  \A c \in Cases : case[c].stage = "won" =>
    LET v == rev[case[c].won[1]][case[c].won[2]]
    IN  v.status = "sent" /\ v.by = 0

\* People's commands and a mail of one case never wait for each other in a
\* circle ("so approval never deadlocks with them"): every circle has a mail
\* with the quotes of two cases, whose second case is locked after its revision.
Circle(S) == S # {} /\ \A r \in S : WaitsFor(r) \cap S # {}
CirclesNeedTwoCases ==
  \A S \in SUBSET {r \in Requests : WaitsFor(r) # {}} :
    Circle(S) => \E r \in S : KindOf[r] = "mail" /\ Len(QuotesOf[r]) = 2

\* Every command acts as if alone: whatever other transactions run between its
\* locks, all it checked, of a case, a quote and a revision locked one after the
\* other, is so of the rows at the moment it writes.  Of the revision that a
\* revise found without a lock (create-quote-revision) less is so: it may be
\* voided before it is copied, but no later one is issued.
ActsAtOnce == BookSpec

\* mail_rules.py:1541: "A closed case among them, a stage past «Enviada», ...
\* leave the email to a person", checked again by _refresh_case: "if its stage
\* changed since, the reason the rule acted no longer holds and the action is
\* refused".  Only a person reopens a case.
OnlyPeopleReopen ==
  [][\A c \in Cases :
       Closed(c) /\ ~Closed(c)' =>
         \E r \in Requests : KindOf[r] = "move" /\ pc[r] # pc'[r]]_vars
=============================================================================
