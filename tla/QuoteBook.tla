------------------------------ MODULE QuoteBook -------------------------------
(***************************************************************************)
(* The commands on a quote's revisions, each in one step: what a person's  *)
(* command (quotes/commands.py, current_revision.py, case_won.py,          *)
(* case_quotation.py, case_command_repository.py) and the mail rule R16,   *)
(* which marks sent the revisions an email carries (mail_rules.py,         *)
(* mail_rules_repository.py, quote_sent.py), check of the rows and write   *)
(* into them.  A person acts on what a screen showed, the rule on what it  *)
(* read before its transaction.  Lines, amounts and terms are one value,   *)
(* `text`.  BookSpec is the promise that QuoteRevisions keeps with row     *)
(* locks.                                                                  *)
(***************************************************************************)
EXTENDS Integers, Sequences, FiniteSets

CONSTANTS Requests, Quotes, Cases, CaseOf,
          KindOf,     \* the request's command, or "mail" (R16)
          QuotesOf,   \* the quotes it is about, in its order: a mail's may be two
          Linked,     \* the mails already linked to their cases
          Printed,    \* the historical quotes; the others were minted
          StartRev, StartStage,
          MaxAsked    \* bound: the requests made

Kinds == {"save", "approve", "void", "revise", "record", "choose", "won",
          "move", "mail"}
Stages == {"lead", "qualifying", "qualified", "quoting", "negotiating", "won",
           "lost", "abandoned"}

Texts == Requests \cup {"none", "first"}
Revisions ==
  [status : {"draft", "approved", "sent", "void"}, by : Nat, version : Nat,
   text : Texts, approved : Texts]

Issued(v) == v.status \in {"approved", "sent"}
Current(v) == Issued(v) /\ v.by = 0
Open(v) == v.status = "draft"
Awaiting(v) == v.status = "approved" /\ v.by = 0
Voidable(v) == v.status \in {"draft", "approved"} /\ v.by = 0

ASSUME QuoteAssumption ==
  /\ CaseOf \in [Quotes -> Cases] /\ Printed \subseteq Quotes
  /\ KindOf \in [Requests -> Kinds] /\ Linked \subseteq Requests
  /\ StartStage \in [Cases -> Stages \ {"won"}]
\* A mail has one quote, or two of different cases; the code takes any number,
\* several of one case too.
ASSUME MailAssumption ==
  \A r \in Requests :
    /\ QuotesOf[r] \in Seq(Quotes) /\ Len(QuotesOf[r]) \in 1..2
    /\ KindOf[r] # "mail" => Len(QuotesOf[r]) = 1
    /\ Len(QuotesOf[r]) = 2 =>
         CaseOf[QuotesOf[r][1]] # CaseOf[QuotesOf[r][2]]
    /\ KindOf[r] \in {"choose", "record"} => QuotesOf[r][1] \in Printed
    /\ KindOf[r] \in {"save", "approve", "void", "revise", "mail"} =>
         \A i \in DOMAIN QuotesOf[r] : QuotesOf[r][i] \notin Printed
\* At the start nothing was replaced yet, a draft is the last revision, and a
\* minted quote has at most one issued, as its approver saw it.
ASSUME StartAssumption ==
  /\ StartRev \in [Quotes -> Seq(Revisions)]
  /\ \A q \in Quotes : \A n \in DOMAIN StartRev[q] :
       LET v == StartRev[q][n] IN
       /\ v.by = 0
       /\ Open(v) => n = Len(StartRev[q])
       /\ q \in Printed => v.status = "sent"
       /\ q \notin Printed /\ Issued(v) =>
            /\ v.text = v.approved
            /\ \A m \in DOMAIN StartRev[q] : Issued(StartRev[q][m]) => m = n

VARIABLES
  rev,    \* crm.quote_revision of each quote, by revision_no
  case,   \* crm.opportunity: stage, version, won_revision_no
  pc,     \* each request: not asked yet, asked (its transaction), done
  saw     \* what it was shown of each of its quotes

book == <<rev, case, pc, saw>>

Named(r) == {QuotesOf[r][i] : i \in DOMAIN QuotesOf[r]}
First(r) == QuotesOf[r][1]
Closed(c) == case[c].stage \in {"won", "lost", "abandoned"}

Some(q, Is(_)) == \E n \in DOMAIN rev[q] : Is(rev[q][n])

-----------------------------------------------------------------------------
(* What a request names, as the screen or the rule's snapshot had it *)

Nothing == [no |-> 0, version |-> 0, text |-> "none", stage |-> "none",
            caseVersion |-> 0]

Offered(r, q) ==
  LET Those(Is(_)) == {n \in DOMAIN rev[q] : Is(rev[q][n])} IN
  CASE KindOf[r] \in {"save", "approve"} -> Those(Open)
    [] KindOf[r] = "void"   -> Those(Voidable)
    [] KindOf[r] = "record" -> Those(Current) \cup {0}
    [] KindOf[r] \in {"choose", "won"} -> Those(Issued)
    [] KindOf[r] = "mail"   -> IF Closed(CaseOf[q]) THEN {} ELSE Those(Awaiting)
    [] OTHER                -> {0}

Shown(q, n) ==
  [no |-> n,
   version |-> IF n = 0 THEN 0 ELSE rev[q][n].version,
   text |-> IF n = 0 THEN "none" ELSE rev[q][n].text,
   stage |-> case[CaseOf[q]].stage,
   caseVersion |-> case[CaseOf[q]].version]

AskOf(r) ==
  /\ pc[r] = "idle"
  /\ \A q \in Named(r) : Offered(r, q) # {}
  /\ \E no \in [Named(r) -> UNION {Offered(r, q) : q \in Named(r)}] :
       /\ \A q \in Named(r) : no[q] \in Offered(r, q)
       /\ saw' = [saw EXCEPT ![r] = [q \in Named(r) |-> Shown(q, no[q])]]
  /\ pc' = [pc EXCEPT ![r] = "asked"]
  /\ UNCHANGED <<rev, case>>

-----------------------------------------------------------------------------
(* What the handler checks of each row *)

\* _live_case: at the version shown, and not closed.
LiveCase(r, q) ==
  case[CaseOf[q]].version = saw[r][q].caseVersion /\ ~Closed(CaseOf[q])

CasePasses(r, q) ==
  CASE KindOf[r] = "choose" -> LiveCase(r, q)
    [] KindOf[r] = "won"    ->
         LiveCase(r, q) /\ case[CaseOf[q]].stage = "negotiating"
    [] KindOf[r] = "move"   ->
         /\ case[CaseOf[q]].version = saw[r][q].caseVersion
         /\ case[CaseOf[q]].stage # "won"
    [] KindOf[r] = "record" ->
         case[CaseOf[q]].stage \in {"quoting", "negotiating"}
    [] KindOf[r] = "mail"   ->   \* _refresh_case: the first case only
         q = First(r) => case[CaseOf[q]].stage = saw[r][q].stage
    [] OTHER                -> TRUE

QuotePasses(r, q) == KindOf[r] = "revise" => ~Some(q, Open)

\* Mutated form: the version shown is not compared.
DraftAnyVersion(r, q) == Open(rev[q][saw[r][q].no])
DraftAsShown(r, q) ==
  LET v == rev[q][saw[r][q].no] IN Open(v) /\ v.version = saw[r][q].version

RevisionPasses(r, q) ==
  LET v == rev[q][saw[r][q].no] IN
  CASE KindOf[r] = "save"    -> DraftAsShown(r, q)
    [] KindOf[r] = "approve" -> DraftAsShown(r, q) /\ ~Closed(CaseOf[q])
    [] KindOf[r] = "void"    -> Voidable(v) /\ v.version = saw[r][q].version
    [] KindOf[r] = "mail"    -> Awaiting(v) /\ v.version = saw[r][q].version
    [] KindOf[r] = "record"  -> v.status = "sent" /\ v.by = 0
    [] OTHER                 -> TRUE

\* Of the revision a revise found nothing is checked again.  What is promised
\* is that it was issued, if it is not voided since, and none after it is.
SourceStands(r, q) ==
  KindOf[r] = "revise" =>
    LET n == saw[r][q].no IN
    /\ rev[q][n].status \in {"approved", "sent", "void"}
    /\ \A i \in DOMAIN rev[q] : Issued(rev[q][i]) => i <= n

\* All of it at once, of the rows as they are when it writes.
Allowed(r) ==
  \A q \in Named(r) :
    /\ CasePasses(r, q) /\ QuotePasses(r, q)
    /\ saw[r][q].no # 0 => RevisionPasses(r, q) /\ SourceStands(r, q)

-----------------------------------------------------------------------------
(* What it writes *)

\* Those that are superseded when n is approved: _supersede_current.  Mutated
\* form: only the sent ones.
EarlierSent(q, n) ==
  {i \in DOMAIN rev[q] : i < n /\ rev[q][i].status = "sent" /\ rev[q][i].by = 0}
Earlier(q, n) == {i \in DOMAIN rev[q] : i < n /\ Current(rev[q][i])}
Others(q, n) ==
  {i \in DOMAIN rev[q] : i # n /\ rev[q][i].status # "void" /\ rev[q][i].by = 0}

Supersede(q, S, n) ==
  [i \in DOMAIN rev[q] |->
     IF i \in S THEN [rev[q][i] EXCEPT !.by = n, !.version = @ + 1]
                ELSE rev[q][i]]

Fresh(status, text) ==
  [status |-> status, by |-> 0, version |-> 1, text |-> text,
   approved |-> "none"]

SetRev(q, revisions) == rev' = [rev EXCEPT ![q] = revisions]
SetCase(c, stage) ==
  case' = [case EXCEPT ![c].stage = stage, ![c].version = @ + 1]

Save(r, q, n) ==
  /\ KindOf[r] = "save"
  /\ SetRev(q, [rev[q] EXCEPT ![n].text = r, ![n].version = @ + 1])
  /\ UNCHANGED case

Approve(r, q, n) ==
  /\ KindOf[r] = "approve"
  /\ SetRev(q, [Supersede(q, Earlier(q, n), n) EXCEPT
                  ![n].status = "approved", ![n].version = @ + 1,
                  ![n].approved = saw[r][q].text])
  /\ UNCHANGED case

Void(r, q, n) ==
  /\ KindOf[r] = "void"
  /\ SetRev(q, [rev[q] EXCEPT ![n].status = "void", ![n].version = @ + 1])
  /\ UNCHANGED case

\* The newest issued revision, if any, is found by a statement of its own and
\* not locked; the one found is copied into the next draft.
Newest(q) ==
  {n \in DOMAIN rev[q] :
     Issued(rev[q][n]) /\ \A i \in DOMAIN rev[q] : Issued(rev[q][i]) => i <= n}
FindSource(r) ==
  LET q == First(r) IN
  /\ pc[r] = "asked" /\ KindOf[r] = "revise" /\ saw[r][q].no = 0
  /\ \E n \in Newest(q) : saw' = [saw EXCEPT ![r][q].no = n]
  /\ UNCHANGED <<rev, case, pc>>
Revise(r, q, n) ==
  /\ KindOf[r] = "revise" /\ n # 0
  /\ SetRev(q, Append(rev[q], Fresh("draft", rev[q][n].text)))
  /\ UNCHANGED case

\* A sent document becomes a revision; n is the one it replaces, if any.  This
\* is the worker's record_quotation: a person's record_case_quotation does the
\* same under the case's own lock and the version shown, and counts it up.
Record(r, q, n) ==
  /\ KindOf[r] = "record"
  /\ SetRev(q, Append(Supersede(q, {n}, Len(rev[q]) + 1), Fresh("sent", r)))
  /\ UNCHANGED case

\* Mutated form: one already replaced may be chosen.
ChosenAnyway(q, n) == rev[q][n].status = "sent"
MayBeChosen(q, n) == rev[q][n].status = "sent" /\ rev[q][n].by = 0
Choose(r, q, n) ==
  /\ KindOf[r] = "choose"
  /\ MayBeChosen(q, n) /\ Others(q, n) # {}
  /\ SetRev(q, Supersede(q, Others(q, n), n))
  /\ SetCase(CaseOf[q], case[CaseOf[q]].stage)

Win(r, q, n) ==
  /\ KindOf[r] = "won"
  /\ rev[q][n].status = "sent" /\ rev[q][n].by = 0
  /\ case' = [case EXCEPT ![CaseOf[q]] =
                [stage |-> "won", version |-> @.version + 1, won |-> <<q, n>>]]
  /\ UNCHANGED rev

\* STAGE_TRANSITIONS; a lost or abandoned case is reopened.
Transitions(stage) ==
  CASE stage = "lead"        -> {"qualifying", "abandoned", "lost"}
    [] stage = "qualifying"  -> {"qualified", "lead", "abandoned", "lost"}
    [] stage = "qualified"   -> {"quoting", "qualifying", "abandoned", "lost"}
    [] stage = "quoting"     -> {"negotiating", "qualified", "abandoned", "lost"}
    [] stage = "negotiating" -> {"won", "lost", "quoting", "abandoned"}
    [] stage = "won"         -> {}
    [] OTHER -> {"lead", "qualifying", "qualified", "quoting", "negotiating"}

\* A case is moved to "won" by record_case_won only.
AnyMove(stage) == Transitions(stage)
Moves(stage) == Transitions(stage) \ {"won"}

Move(r, q) ==
  /\ KindOf[r] = "move"
  /\ \E stage \in Moves(case[CaseOf[q]].stage) : SetCase(CaseOf[q], stage)
  /\ UNCHANGED rev

\* _TO_QUOTING: the steps planned from the stage the rule read.
ToQuoting(stage) ==
  CASE stage = "lead"       -> <<"qualifying", "qualified", "quoting">>
    [] stage = "qualifying" -> <<"qualified", "quoting">>
    [] stage = "qualified"  -> <<"quoting">>
    [] OTHER                -> <<>>

\* The link of a mail not linked yet refuses a closed case; each step must be
\* one the case's stage allows.
CanWalk(r, q) ==
  LET path == <<case[CaseOf[q]].stage>> \o ToQuoting(saw[r][q].stage) IN
  /\ r \in Linked \/ ~Closed(CaseOf[q])
  /\ \A i \in 1..(Len(path) - 1) : path[i + 1] \in Moves(path[i])

Walked(r, q) ==
  LET steps == ToQuoting(saw[r][q].stage)
      c == case[CaseOf[q]]
  IN  [c EXCEPT !.stage = IF steps = <<>> THEN @ ELSE "quoting",
                !.version = @ + Len(steps)]

MarkSent(r) ==
  /\ KindOf[r] = "mail"
  /\ \A q \in Named(r) : CanWalk(r, q)
  /\ rev' = [q \in Quotes |->
       IF q \in Named(r)
       THEN [rev[q] EXCEPT ![saw[r][q].no].status = "sent",
                           ![saw[r][q].no].version = @ + 1]
       ELSE rev[q]]
  /\ case' = [c \in Cases |->
       IF \E q \in Named(r) : CaseOf[q] = c
       THEN Walked(r, CHOOSE q \in Named(r) : CaseOf[q] = c)
       ELSE case[c]]

Writes(r) ==
  LET q == First(r)
      n == saw[r][q].no
  IN
  \/ Save(r, q, n) \/ Approve(r, q, n) \/ Void(r, q, n)
  \/ Revise(r, q, n) \/ Record(r, q, n)
  \/ Choose(r, q, n) \/ Win(r, q, n) \/ Move(r, q)
  \/ MarkSent(r)

\* The request is answered; the shown rows are gone with it.
EndOf(r) ==
  /\ pc' = [pc EXCEPT ![r] = "done"]
  /\ saw' = [saw EXCEPT ![r] = [q \in Named(r) |-> Nothing]]

-----------------------------------------------------------------------------
(* The promise: a command is allowed and done in one step, or does nothing; *)
(* a revise finds what it copies in a step before.                         *)

DoneAtOnce(r) == pc[r] = "asked" /\ EndOf(r) /\ Allowed(r) /\ Writes(r)
GivenUp(r) == pc[r] = "asked" /\ EndOf(r) /\ UNCHANGED <<rev, case>>

BookInit ==
  /\ rev = StartRev
  /\ case = [c \in Cases |-> [stage |-> StartStage[c], version |-> 1,
                              won |-> <<>>]]
  /\ \E asked \in SUBSET Requests :
       /\ Cardinality(asked) = MaxAsked
       /\ pc = [r \in Requests |-> IF r \in asked THEN "idle" ELSE "done"]
  /\ saw = [r \in Requests |-> [q \in Named(r) |-> Nothing]]

BookNext ==
  \E r \in Requests :
    AskOf(r) \/ FindSource(r) \/ DoneAtOnce(r) \/ GivenUp(r)

BookSpec == BookInit /\ [][BookNext]_book
=============================================================================
