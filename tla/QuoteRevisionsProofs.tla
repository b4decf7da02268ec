------------------------- MODULE QuoteRevisionsProofs -------------------------
(***************************************************************************)
(* The safety properties of QuoteRevisions, for every set of requests,     *)
(* quotes and cases.  The argument: a request writes a row only while it   *)
(* holds that row's lock, so what a handler checked of a row when it       *)
(* locked it (Checked) still holds when it writes.                         *)
(***************************************************************************)
EXTENDS QuoteRevisions, SequenceTheorems, TLAPS

HeldCase(r, q) == Held(r, [on |-> <<"case", CaseOf[q], 0>>])
HeldQuote(r, q) == Held(r, [on |-> <<"quote", q, 0>>])
HeldRev(r, q, n) == Held(r, [on |-> <<"revision", q, n>>])

\* Which locks a kind of request takes for itself alone.
ModeOf(r, l) ==
  l.mode = IF \/ l.on[1] = "case" /\ KindOf[r] \in {"save", "approve", "record"}
              \/ l.on[1] = "quote" /\ KindOf[r] = "save"
           THEN "share" ELSE "update"

LocksOfAsked ==
  \A r \in Requests : \A l \in holds[r] : pc[r] = "asked" /\ ModeOf(r, l)

LocksExclude ==
  \A p, r \in Requests : p # r =>
    \A l \in holds[p], m \in holds[r] : ~Excludes(l, m)

\* What was shown is at most as new as what there is; an equal version is an
\* equal text.  A revise is shown nothing: it finds its source by itself.
SawOK ==
  \A r \in Requests : pc[r] = "asked" =>
    \A q \in Named(r) :
      LET s == saw[r][q] IN
      /\ s.no \in 0..Len(rev[q])
      /\ s.no = 0 => KindOf[r] \in {"revise", "record", "move"}
      /\ s.no # 0 /\ KindOf[r] # "revise" =>
           /\ s.version <= rev[q][s.no].version
           /\ s.version = rev[q][s.no].version => s.text = rev[q][s.no].text

\* The quote is locked from the find on, so that what was found stands.
SourceOf(r, q) ==
  KindOf[r] = "revise" /\ saw[r][q].no # 0 =>
    HeldQuote(r, q) /\ SourceStands(r, q)
SourceOK ==
  \A r \in Requests : pc[r] = "asked" =>
    \A q \in Named(r) : SourceOf(r, q)

RevChecked(r, q) ==
  LET s == saw[r][q] IN
  HeldRev(r, q, s.no) /\ s.no # 0 =>
    LET v == rev[q][s.no] IN
    CASE KindOf[r] = "save"    -> DraftAsShown(r, q)
      [] KindOf[r] = "approve" -> DraftAsShown(r, q) /\ ~Closed(CaseOf[q])
                                    /\ HeldCase(r, q)
      [] KindOf[r] = "void"    -> Voidable(v)
      [] KindOf[r] = "mail"    -> Awaiting(v)
      [] KindOf[r] = "record"  -> v.status = "sent" /\ v.by = 0
      [] OTHER                 -> TRUE
CaseChecked(r, q) ==
  HeldCase(r, q) /\ KindOf[r] \in {"choose", "won", "record"} =>
    ~Closed(CaseOf[q])
QuoteChecked(r, q) ==
  HeldQuote(r, q) /\ KindOf[r] = "revise" => ~Some(q, Open)

Checked ==
  \A r \in Requests : pc[r] = "asked" =>
    \A q \in Named(r) :
      RevChecked(r, q) /\ CaseChecked(r, q) /\ QuoteChecked(r, q)

\* A draft is the last revision and replaced by none; a printed quote has only
\* sent ones.
Drafts ==
  \A q \in Quotes : \A n \in DOMAIN rev[q] :
    LET v == rev[q][n] IN
    /\ Open(v) => n = Len(rev[q]) /\ v.by = 0
    /\ q \in Printed => v.status = "sent"

WonWhere ==
  \A c \in Cases : case[c].stage = "won" =>
    /\ case[c].won[1] \in Quotes /\ CaseOf[case[c].won[1]] = c
    /\ case[c].won[2] \in DOMAIN rev[case[c].won[1]]

IInv ==
  /\ TypeOK /\ OneInForce /\ ChainsEnd /\ ApprovedAsShown /\ WonStands
  /\ LocksOfAsked /\ LocksExclude /\ SawOK /\ SourceOK /\ Checked /\ Drafts
  /\ WonWhere

-----------------------------------------------------------------------------
(* What a commit does, in the terms the invariant needs *)

\* A revision the request changed: saved, approved, voided, sent or replaced.
Became(r, q, i) ==
  LET v == rev[q][i]
      w == rev'[q][i]
  IN
  /\ w.version = v.version + 1
  /\ HeldRev(r, q, i)
  /\ \/ Open(v) /\ Open(w) /\ w.by = 0
     \/ /\ Open(v) /\ w.status = "approved" /\ w.by = 0 /\ w.text = w.approved
        /\ \A j \in DOMAIN rev[q] :
             j < i /\ Current(rev[q][j]) => rev'[q][j].by # 0
     \/ Voidable(v) /\ w.status = "void" /\ w.by = 0
     \/ /\ Awaiting(v) /\ w.status = "sent" /\ w.by = 0
        /\ w.text = v.text /\ w.approved = v.approved
     \/ /\ Current(v) /\ case[CaseOf[q]].stage # "won"
        /\ w.status = v.status /\ w.text = v.text /\ w.approved = v.approved
        /\ w.by \in DOMAIN rev'[q] /\ rev'[q][w.by].by = 0

Added(r, q, w) ==
  /\ w.by = 0
  /\ \/ /\ q \notin Printed /\ Open(w) /\ ~Some(q, Open)
        /\ HeldQuote(r, q) /\ KindOf[r] = "revise"
     \/ q \in Printed /\ w.status = "sent"

RevStep(r) ==
  /\ rev' \in [Quotes -> Seq(Revisions)]
  /\ \A q \in Quotes :
       /\ \/ Len(rev'[q]) = Len(rev[q])
          \/ /\ Len(rev'[q]) = Len(rev[q]) + 1
             /\ Added(r, q, rev'[q][Len(rev[q]) + 1])
       /\ \A i \in DOMAIN rev[q] :
            rev'[q][i] = rev[q][i] \/ Became(r, q, i)

Won(c) ==
  LET q == case'[c].won[1]
      n == case'[c].won[2]
  IN  /\ q \in Quotes /\ CaseOf[q] = c /\ n \in DOMAIN rev[q]
      /\ rev[q][n].status = "sent" /\ rev[q][n].by = 0 /\ rev' = rev

CaseRows ==
  [stage : Stages, version : Nat, won : {<<>>} \cup (Quotes \X Nat)]
CaseType ==
  /\ case \in [Cases -> CaseRows]
  /\ \A c \in Cases : case[c].won # <<>> <=> case[c].stage = "won"

CaseStep(r) ==
  /\ CaseType'
  /\ \A c \in Cases : case'[c] # case[c] =>
       /\ KindOf[r] \notin {"save", "approve", "record"}
       /\ \E q \in Named(r) : CaseOf[q] = c /\ HeldCase(r, q)
       /\ case[c].stage = "won" =>
            case'[c].stage = "won" /\ case'[c].won = case[c].won
       /\ case'[c].stage = "won" => case[c].stage = "won" \/ Won(c)

-----------------------------------------------------------------------------
(* The requests and their locks *)

LEMMA NamedFacts ==
  ASSUME NEW r \in Requests
  PROVE  /\ First(r) \in Named(r) /\ Named(r) \subseteq Quotes
         /\ KindOf[r] # "mail" => Named(r) = {First(r)}
         /\ \A q \in Named(r) : q = First(r) \/ q = QuotesOf[r][2]
         /\ \A p, q \in Named(r) : CaseOf[p] = CaseOf[q] => p = q
         /\ Len(QuotesOf[r]) = 1 => Named(r) = {First(r)}
         /\ Len(QuotesOf[r]) # 1 =>
              Len(QuotesOf[r]) = 2 /\ Named(r) = {First(r), QuotesOf[r][2]}
<1> DEFINE s == QuotesOf[r]
<1>1. s \in Seq(Quotes) /\ Len(s) \in 1..2 /\ DOMAIN s = 1..Len(s)
  BY MailAssumption
<1>2. CASE Len(s) = 1
  <2>1. Named(r) = {s[1]} /\ s[1] \in Quotes
    BY <1>1, <1>2 DEF Named
  <2> QED  BY <2>1, <1>2 DEF First
<1>3. CASE Len(s) = 2
  <2>1. Named(r) = {s[1], s[2]} /\ s[1] \in Quotes /\ s[2] \in Quotes
    BY <1>1, <1>3 DEF Named
  <2>2. CaseOf[s[1]] # CaseOf[s[2]] /\ KindOf[r] = "mail"
    BY <1>3, MailAssumption
  <2> QED  BY <2>1, <2>2, <1>3 DEF First
<1> QED  BY <1>1, <1>2, <1>3

LEMMA LocksHeld ==
  ASSUME NEW r \in Requests, HoldsAll(r), NEW q, q = First(r),
         NEW n, n = saw[r][q].no
  PROVE  /\ KindOf[r] \in {"save", "approve", "void"} => HeldRev(r, q, n)
         /\ KindOf[r] = "record" /\ n # 0 => HeldRev(r, q, n)
         /\ KindOf[r] \in {"choose", "won", "move", "record"} => HeldCase(r, q)
         /\ KindOf[r] = "revise" => HeldQuote(r, q)
         /\ KindOf[r] = "approve" =>
              \A i \in Earlier(q, n) : HeldRev(r, q, i)
         /\ KindOf[r] = "choose" => \A i \in DOMAIN rev[q] : HeldRev(r, q, i)
<1>1. \A i \in DOMAIN Locks(r) : Held(r, Locks(r)[i])
  BY DEF HoldsAll
<1>2. \A i \in Then(r) : HeldRev(r, q, i)
  BY DEF HoldsAll, Held, HeldRev, RevLock
<1>3. KindOf[r] = "save" => HeldRev(r, q, n)
  <2> SUFFICES ASSUME KindOf[r] = "save" PROVE HeldRev(r, q, n)
    OBVIOUS
  <2>1. Locks(r) = <<CaseLock(q, "share"), QuoteLock(q, "share"), RevLock(q, n)>>
    BY DEF Locks
  <2> QED  BY <1>1, <2>1 DEF Held, HeldRev, RevLock
<1>4. KindOf[r] = "approve" => HeldRev(r, q, n)
  <2> SUFFICES ASSUME KindOf[r] = "approve" PROVE HeldRev(r, q, n)
    OBVIOUS
  <2>1. Locks(r) = <<CaseLock(q, "share"), QuoteLock(q, "update"), RevLock(q, n)>>
    BY DEF Locks, ApproveLocks
  <2> QED  BY <1>1, <2>1 DEF Held, HeldRev, RevLock
<1>5. KindOf[r] = "void" => HeldRev(r, q, n)
  <2> SUFFICES ASSUME KindOf[r] = "void" PROVE HeldRev(r, q, n)
    OBVIOUS
  <2>1. Locks(r) = <<RevLock(q, n)>>
    BY DEF Locks
  <2> QED  BY <1>1, <2>1 DEF Held, HeldRev, RevLock
<1>6. KindOf[r] = "record" => HeldCase(r, q) /\ (n # 0 => HeldRev(r, q, n))
  <2> SUFFICES ASSUME KindOf[r] = "record"
               PROVE  HeldCase(r, q) /\ (n # 0 => HeldRev(r, q, n))
    OBVIOUS
  <2>1. CASE n = 0
    <3>1. Locks(r) = <<CaseLock(q, "share"), QuoteLock(q, "update")>>
      BY <2>1 DEF Locks
    <3> QED  BY <1>1, <2>1, <3>1 DEF Held, HeldCase, CaseLock
  <2>2. CASE n # 0
    <3>1. Locks(r) = <<CaseLock(q, "share"), QuoteLock(q, "update"),
                       RevLock(q, n)>>
      BY <2>2 DEF Locks
    <3> QED  BY <1>1, <3>1 DEF Held, HeldCase, CaseLock, HeldRev, RevLock
  <2> QED  BY <2>1, <2>2
<1>7. KindOf[r] = "choose" => HeldCase(r, q)
  <2> SUFFICES ASSUME KindOf[r] = "choose" PROVE HeldCase(r, q)
    OBVIOUS
  <2>1. Locks(r) = <<CaseLock(q, "update"), QuoteLock(q, "update")>>
    BY DEF Locks
  <2> QED  BY <1>1, <2>1 DEF Held, HeldCase, CaseLock
<1>8. KindOf[r] \in {"won", "move"} => HeldCase(r, q)
  <2> SUFFICES ASSUME KindOf[r] \in {"won", "move"} PROVE HeldCase(r, q)
    OBVIOUS
  <2>1. Locks(r) = <<CaseLock(q, "update")>>
    BY DEF Locks
  <2> QED  BY <1>1, <2>1 DEF Held, HeldCase, CaseLock
<1>9. KindOf[r] = "revise" => HeldQuote(r, q)
  <2> SUFFICES ASSUME KindOf[r] = "revise" PROVE HeldQuote(r, q)
    OBVIOUS
  <2>1. Locks(r) = <<QuoteLock(q, "update")>>
    BY DEF Locks
  <2> QED  BY <1>1, <2>1 DEF Held, HeldQuote, QuoteLock
<1>10. KindOf[r] = "approve" => \A i \in Earlier(q, n) : HeldRev(r, q, i)
  BY <1>2 DEF Then
<1>11. KindOf[r] = "choose" => \A i \in DOMAIN rev[q] : HeldRev(r, q, i)
  BY <1>2 DEF Then
<1> QED  BY <1>3, <1>4, <1>5, <1>6, <1>7, <1>8, <1>9, <1>10, <1>11

LEMMA MailLocksHeld ==
  ASSUME NEW r \in Requests, HoldsAll(r), KindOf[r] = "mail"
  PROVE  \A q \in Named(r) : HeldCase(r, q) /\ HeldRev(r, q, saw[r][q].no)
<1> DEFINE a == First(r)
           b == QuotesOf[r][2]
<1>1. \A i \in DOMAIN MailLocks(r) : Held(r, MailLocks(r)[i])
  BY DEF HoldsAll, Locks
<1>2. CASE Len(QuotesOf[r]) = 1
  <2>1. MailLocks(r) = <<CaseLock(a, "update"), RevLock(a, saw[r][a].no)>>
    BY <1>2 DEF MailLocks
  <2>2. Named(r) = {a}
    BY <1>2, NamedFacts
  <2> QED
    BY <1>1, <2>1, <2>2 DEF Held, HeldRev, HeldCase, RevLock, CaseLock
<1>3. CASE Len(QuotesOf[r]) # 1
  <2>1. MailLocks(r) = <<CaseLock(a, "update"), RevLock(a, saw[r][a].no),
                         RevLock(b, saw[r][b].no), CaseLock(b, "update")>>
    BY <1>3 DEF MailLocks
  <2>2. Named(r) = {a, b}
    BY <1>3, NamedFacts
  <2> QED
    BY <1>1, <2>1, <2>2 DEF Held, HeldRev, HeldCase, RevLock, CaseLock
<1> QED  BY <1>2, <1>3

-----------------------------------------------------------------------------
(* Each kind of commit *)

LEMMA CommitFacts ==
  ASSUME IInv, NEW r \in Requests, pc[r] = "asked",
         NEW q, q = First(r), NEW n, n = saw[r][q].no
  PROVE  /\ q \in Quotes /\ Named(r) \subseteq Quotes /\ q \in Named(r)
         /\ CaseOf[q] \in Cases
         /\ rev \in [Quotes -> Seq(Revisions)] /\ rev[q] \in Seq(Revisions)
         /\ DOMAIN rev[q] = 1..Len(rev[q]) /\ Len(rev[q]) \in Nat
         /\ \A i \in DOMAIN rev[q] : rev[q][i] \in Revisions
         /\ n \in 0..Len(rev[q])
         /\ n = 0 => KindOf[r] \in {"revise", "record", "move"}
         /\ RevChecked(r, q) /\ CaseChecked(r, q) /\ QuoteChecked(r, q)
         /\ saw[r][q] \in Sights
         /\ CaseType
<1>1. q \in Named(r) /\ Named(r) \subseteq Quotes
  BY NamedFacts
<1>2. rev \in [Quotes -> Seq(Revisions)] /\ rev[q] \in Seq(Revisions)
  BY <1>1 DEF IInv, TypeOK
<1>3. /\ DOMAIN rev[q] = 1..Len(rev[q]) /\ Len(rev[q]) \in Nat
      /\ \A i \in DOMAIN rev[q] : rev[q][i] \in Revisions
  BY <1>2
<1>4. CaseOf[q] \in Cases
  BY <1>1, QuoteAssumption
<1>5. saw[r][q] \in Sights
  BY <1>1 DEF IInv, TypeOK
<1>6. /\ n \in 0..Len(rev[q])
      /\ n = 0 => KindOf[r] \in {"revise", "record", "move"}
  BY <1>1 DEF IInv, SawOK
<1>7. RevChecked(r, q) /\ CaseChecked(r, q) /\ QuoteChecked(r, q)
  BY <1>1 DEF IInv, Checked
<1>8. CaseType
  BY DEF IInv, TypeOK, CaseType, CaseRows
<1> QED  BY <1>1, <1>2, <1>3, <1>4, <1>5, <1>6, <1>7, <1>8

LEMMA OneQuote ==
  ASSUME rev \in [Quotes -> Seq(Revisions)], NEW q \in Quotes, NEW r,
         NEW s \in Seq(Revisions), SetRev(q, s),
         \/ Len(s) = Len(rev[q])
         \/ Len(s) = Len(rev[q]) + 1 /\ Added(r, q, s[Len(rev[q]) + 1]),
         \A i \in DOMAIN rev[q] : s[i] = rev[q][i] \/ Became(r, q, i)
  PROVE  RevStep(r)
<1>1. rev' = [rev EXCEPT ![q] = s]
  BY DEF SetRev
<1>2. rev' \in [Quotes -> Seq(Revisions)] /\ rev'[q] = s
  BY <1>1
<1>3. \A p \in Quotes : p # q => rev'[p] = rev[p]
  BY <1>1
<1> QED  BY <1>2, <1>3 DEF RevStep

LEMMA SameRevs ==
  ASSUME rev \in [Quotes -> Seq(Revisions)], UNCHANGED rev, NEW r
  PROVE  RevStep(r)
BY DEF RevStep

LEMMA SameCases ==
  ASSUME CaseType, UNCHANGED case, NEW r
  PROVE  CaseStep(r)
BY DEF CaseStep, CaseType

LEMMA CaseMoved ==
  ASSUME NEW v \in CaseRows, NEW stage \in Stages
  PROVE  LET w == [v EXCEPT !.stage = stage, !.version = @ + 1] IN
         w \in CaseRows /\ w.stage = stage /\ w.won = v.won
<1>1. v.version + 1 \in Nat
  BY DEF CaseRows
<1>2. [v EXCEPT !.stage = stage, !.version = v.version + 1] \in CaseRows
  BY <1>1 DEF CaseRows
<1> QED  BY <1>2 DEF CaseRows

\* A sequence of the same length with one function over its places.
LEMMA MapIsSeq ==
  ASSUME NEW s \in Seq(Revisions), NEW t,
         t = [i \in DOMAIN s |-> t[i]],
         \A i \in DOMAIN s : t[i] \in Revisions
  PROVE  t \in Seq(Revisions) /\ Len(t) = Len(s) /\ DOMAIN t = DOMAIN s
<1>1. DOMAIN s = 1..Len(s) /\ Len(s) \in Nat
  BY LenProperties
<1>2. t \in [1..Len(s) -> Revisions]
  BY <1>1
<1>3. t \in Seq(Revisions)
  BY <1>1, <1>2, SeqDef
<1>4. DOMAIN t = 1..Len(t) /\ Len(t) \in Nat
  BY <1>3, LenProperties
<1> QED  BY <1>1, <1>2, <1>3, <1>4

\* What the handlers write into a revision.
LEMMA Replaced ==
  ASSUME NEW v \in Revisions, NEW n \in Nat
  PROVE  LET w == [v EXCEPT !.by = n, !.version = @ + 1] IN
         /\ w \in Revisions /\ w.by = n /\ w.version = v.version + 1
         /\ w.status = v.status /\ w.text = v.text /\ w.approved = v.approved
<1>1. v.version + 1 \in Nat
  BY DEF Revisions
<1>2. [v EXCEPT !.by = n, !.version = v.version + 1] \in Revisions
  BY <1>1 DEF Revisions
<1> QED  BY <1>2 DEF Revisions

LEMMA Edited ==
  ASSUME NEW v \in Revisions, NEW x \in Texts
  PROVE  LET w == [v EXCEPT !.text = x, !.version = @ + 1] IN
         /\ w \in Revisions /\ w.version = v.version + 1
         /\ w.status = v.status /\ w.by = v.by
<1>1. v.version + 1 \in Nat
  BY DEF Revisions
<1>2. [v EXCEPT !.text = x, !.version = v.version + 1] \in Revisions
  BY <1>1 DEF Revisions
<1> QED  BY <1>2 DEF Revisions

LEMMA Moved ==
  ASSUME NEW v \in Revisions, NEW status \in {"draft", "approved", "sent", "void"}
  PROVE  LET w == [v EXCEPT !.status = status, !.version = @ + 1] IN
         /\ w \in Revisions /\ w.version = v.version + 1 /\ w.status = status
         /\ w.by = v.by /\ w.text = v.text /\ w.approved = v.approved
<1>1. v.version + 1 \in Nat
  BY DEF Revisions
<1>2. [v EXCEPT !.status = status, !.version = v.version + 1] \in Revisions
  BY <1>1 DEF Revisions
<1> QED  BY <1>2 DEF Revisions

LEMMA SignedOff ==
  ASSUME NEW v \in Revisions, NEW x \in Texts
  PROVE  LET w == [v EXCEPT !.status = "approved", !.version = @ + 1,
                            !.approved = x] IN
         /\ w \in Revisions /\ w.version = v.version + 1
         /\ w.status = "approved" /\ w.by = v.by /\ w.text = v.text
         /\ w.approved = x
<1>1. v.version + 1 \in Nat
  BY DEF Revisions
<1>2. [v EXCEPT !.status = "approved", !.version = v.version + 1,
                  !.approved = x] \in Revisions
  BY <1>1 DEF Revisions
<1> QED  BY <1>2 DEF Revisions

LEMMA ChangeOne ==
  ASSUME NEW t \in Seq(Revisions), NEW n \in DOMAIN t, NEW w \in Revisions
  PROVE  LET s == [t EXCEPT ![n] = w] IN
         /\ s \in Seq(Revisions) /\ Len(s) = Len(t) /\ s[n] = w
         /\ \A i \in DOMAIN t : i # n => s[i] = t[i]
<1>1. DOMAIN t = 1..Len(t)
  OBVIOUS
<1> QED  BY <1>1, ExceptSeq

LEMMA SupersedeIsSeq ==
  ASSUME NEW q \in Quotes, rev[q] \in Seq(Revisions), NEW S, NEW n \in Nat
  PROVE  LET t == Supersede(q, S, n) IN
         /\ t \in Seq(Revisions) /\ Len(t) = Len(rev[q])
         /\ DOMAIN t = DOMAIN rev[q]
         /\ \A i \in DOMAIN rev[q] :
              /\ i \notin S => t[i] = rev[q][i]
              /\ i \in S =>
                   /\ t[i].by = n /\ t[i].version = rev[q][i].version + 1
                   /\ t[i].status = rev[q][i].status
                   /\ t[i].text = rev[q][i].text
                   /\ t[i].approved = rev[q][i].approved
<1> DEFINE t == Supersede(q, S, n)
<1>1. \A i \in DOMAIN rev[q] : rev[q][i] \in Revisions
  OBVIOUS
<1>2. \A i \in DOMAIN rev[q] :
        t[i] = IF i \in S THEN [rev[q][i] EXCEPT !.by = n,
                                                 !.version = @ + 1]
                          ELSE rev[q][i]
  BY DEF Supersede
<1>3. \A i \in DOMAIN rev[q] : t[i] \in Revisions
  <2> TAKE i \in DOMAIN rev[q]
  <2>1. rev[q][i] \in Revisions
    BY <1>1
  <2>2. CASE i \in S
    <3>1. [rev[q][i] EXCEPT !.by = n, !.version = @ + 1] \in Revisions
      BY <2>1, Replaced
    <3> QED  BY <1>2, <2>2, <3>1
  <2> QED  BY <1>2, <2>1, <2>2
<1>4. t = [i \in DOMAIN rev[q] |-> t[i]]
  BY DEF Supersede
<1>5. t \in Seq(Revisions) /\ Len(t) = Len(rev[q]) /\ DOMAIN t = DOMAIN rev[q]
  BY <1>3, <1>4, MapIsSeq
<1>6. ASSUME NEW i \in DOMAIN rev[q], i \in S
      PROVE  /\ t[i].by = n /\ t[i].version = rev[q][i].version + 1
             /\ t[i].status = rev[q][i].status
             /\ t[i].text = rev[q][i].text
             /\ t[i].approved = rev[q][i].approved
  <2>1. rev[q][i] \in Revisions
    BY <1>1
  <2>2. t[i] = [rev[q][i] EXCEPT !.by = n, !.version = @ + 1]
    BY <1>2, <1>6
  <2> DEFINE v == rev[q][i]
             w == [v EXCEPT !.by = n, !.version = @ + 1]
  <2>3. /\ w.by = n /\ w.version = v.version + 1
        /\ w.status = v.status /\ w.text = v.text /\ w.approved = v.approved
    <3>1. v \in Revisions
      BY <2>1
    <3> HIDE DEF v
    <3> QED  BY <3>1, Replaced
  <2>4. t[i] = w
    BY <2>2
  <2> HIDE DEF t, w
  <2> QED  BY <2>3, <2>4
<1> QED  BY <1>2, <1>5, <1>6

LEMMA SaveStep ==
  ASSUME IInv, NEW r \in Requests, pc[r] = "asked", HoldsAll(r),
         NEW q, q = First(r), NEW n, n = saw[r][q].no, Save(r, q, n)
  PROVE  RevStep(r) /\ CaseStep(r)
<1> DEFINE w == [rev[q][n] EXCEPT !.text = r, !.version = @ + 1]
           s == [rev[q] EXCEPT ![n].text = r, ![n].version = @ + 1]
<1> KindOf[r] = "save"
  BY DEF Save
<1>1. q \in Quotes /\ rev \in [Quotes -> Seq(Revisions)]
        /\ rev[q] \in Seq(Revisions) /\ n \in 0..Len(rev[q]) /\ CaseType
        /\ DOMAIN rev[q] = 1..Len(rev[q])
        /\ \A i \in DOMAIN rev[q] : rev[q][i] \in Revisions
  BY CommitFacts
<1>2. HeldRev(r, q, n) /\ n # 0 /\ n \in DOMAIN rev[q]
  <2>1. HeldRev(r, q, n)
    BY LocksHeld
  <2>2. n # 0
    BY CommitFacts
  <2> QED  BY <1>1, <2>1, <2>2
<1>3. Open(rev[q][n])
  BY <1>2, CommitFacts DEF RevChecked, DraftAsShown
<1>4. rev[q][n].by = 0 /\ rev[q][n] \in Revisions
  BY <1>1, <1>2, <1>3 DEF IInv, Drafts
<1>5. /\ w \in Revisions /\ w.version = rev[q][n].version + 1
      /\ Open(w) /\ w.by = 0
  <2>1. r \in Texts
    BY DEF Texts
  <2> QED  BY <1>3, <1>4, <2>1, Edited DEF Open
<1>6. SetRev(q, s) /\ UNCHANGED case /\ s = [rev[q] EXCEPT ![n] = w]
  BY <1>2, <1>4 DEF Save, Revisions
<1> HIDE DEF w, s
<1>7. s \in Seq(Revisions) /\ Len(s) = Len(rev[q]) /\ s[n] = w
        /\ \A i \in DOMAIN rev[q] : i # n => s[i] = rev[q][i]
  BY <1>1, <1>2, <1>5, <1>6, ChangeOne
<1>8. Became(r, q, n)
  <2>1. rev'[q][n] = w
    BY <1>1, <1>6, <1>7 DEF SetRev
  <2> QED  BY <1>2, <1>3, <1>5, <2>1 DEF Became
<1>9. RevStep(r)
  BY <1>1, <1>6, <1>7, <1>8, OneQuote
<1> QED  BY <1>1, <1>6, <1>9, SameCases

LEMMA ApproveStep ==
  ASSUME IInv, NEW r \in Requests, pc[r] = "asked", HoldsAll(r),
         NEW q, q = First(r), NEW n, n = saw[r][q].no, Approve(r, q, n)
  PROVE  RevStep(r) /\ CaseStep(r)
<1> DEFINE t == Supersede(q, Earlier(q, n), n)
           w == [t[n] EXCEPT !.status = "approved", !.version = @ + 1,
                             !.approved = saw[r][q].text]
           s == [t EXCEPT ![n].status = "approved", ![n].version = @ + 1,
                          ![n].approved = saw[r][q].text]
<1> KindOf[r] = "approve"
  BY DEF Approve
<1>1. q \in Quotes /\ rev \in [Quotes -> Seq(Revisions)]
        /\ rev[q] \in Seq(Revisions) /\ n \in 0..Len(rev[q]) /\ CaseType
        /\ DOMAIN rev[q] = 1..Len(rev[q]) /\ Len(rev[q]) \in Nat
        /\ \A i \in DOMAIN rev[q] : rev[q][i] \in Revisions
  BY CommitFacts
<1>2. HeldRev(r, q, n) /\ n # 0 /\ n \in DOMAIN rev[q] /\ n \in Nat
  <2>1. HeldRev(r, q, n)
    BY LocksHeld
  <2>2. n # 0
    BY CommitFacts
  <2> QED  BY <1>1, <2>1, <2>2
<1>3. DraftAsShown(r, q) /\ ~Closed(CaseOf[q])
  BY <1>2, CommitFacts DEF RevChecked, Approve
<1>4. Open(rev[q][n]) /\ rev[q][n].by = 0 /\ rev[q][n] \in Revisions
  BY <1>1, <1>2, <1>3 DEF DraftAsShown, IInv, Drafts
<1>5. rev[q][n].text = saw[r][q].text /\ saw[r][q].text \in Texts
  <2>1. rev[q][n].version = saw[r][q].version
    BY <1>3 DEF DraftAsShown
  <2>2. q \in Named(r) /\ saw[r][q] \in Sights
    BY CommitFacts
  <2> QED  BY <1>2, <2>1, <2>2 DEF IInv, SawOK, Sights
<1>6. n \notin Earlier(q, n)
  BY <1>2 DEF Earlier
<1>7. /\ t \in Seq(Revisions) /\ Len(t) = Len(rev[q])
      /\ DOMAIN t = DOMAIN rev[q] /\ t[n] = rev[q][n]
      /\ \A i \in DOMAIN rev[q] :
           /\ i \notin Earlier(q, n) => t[i] = rev[q][i]
           /\ i \in Earlier(q, n) =>
                /\ t[i].by = n /\ t[i].version = rev[q][i].version + 1
                /\ t[i].status = rev[q][i].status
                /\ t[i].text = rev[q][i].text
                /\ t[i].approved = rev[q][i].approved
  BY <1>1, <1>2, <1>6, SupersedeIsSeq
<1>8. /\ w \in Revisions /\ w.status = "approved" /\ w.by = 0
      /\ w.text = w.approved /\ w.version = rev[q][n].version + 1
  <2> HIDE DEF t
  <2>1. t[n] \in Revisions /\ t[n].by = 0 /\ t[n].text = saw[r][q].text
          /\ t[n].version = rev[q][n].version
    BY <1>4, <1>5, <1>7
  <2>2. saw[r][q].text \in Texts
    BY <1>5
  <2> DEFINE v == t[n]
             x == saw[r][q].text
             u == [v EXCEPT !.status = "approved", !.version = @ + 1,
                            !.approved = x]
  <2>3. v \in Revisions /\ x \in Texts
    BY <2>1, <2>2
  <2>4. /\ u \in Revisions /\ u.version = v.version + 1
        /\ u.status = "approved" /\ u.by = v.by /\ u.text = v.text
        /\ u.approved = x
    <3> HIDE DEF v, x
    <3> QED  BY <2>3, SignedOff
  <2>5. w = u
    OBVIOUS
  <2> HIDE DEF u, w
  <2> QED  BY <2>1, <2>4, <2>5
<1>9. s = [t EXCEPT ![n] = w]
  <2> HIDE DEF t
  <2> QED  BY <1>2, <1>4, <1>7 DEF Revisions
<1>9a. SetRev(q, s) /\ UNCHANGED case
  BY DEF Approve
<1> HIDE DEF t, w, s
<1>10. /\ s \in Seq(Revisions) /\ Len(s) = Len(rev[q]) /\ s[n] = w
       /\ \A i \in DOMAIN rev[q] : i # n => s[i] = t[i]
  BY <1>1, <1>2, <1>7, <1>8, <1>9, ChangeOne
<1>11. SetRev(q, s) /\ UNCHANGED case /\ rev'[q] = s
  BY <1>1, <1>9a DEF SetRev
<1>12. Became(r, q, n)
  <2>1. \A j \in DOMAIN rev[q] :
          j < n /\ Current(rev[q][j]) => rev'[q][j].by # 0
    <3> TAKE j \in DOMAIN rev[q]
    <3> HAVE j < n /\ Current(rev[q][j])
    <3>1. j \in Earlier(q, n) /\ j # n
      BY <1>1, <1>2 DEF Earlier
    <3> QED  BY <1>2, <1>7, <1>10, <1>11, <3>1
  <2> QED
    BY <1>2, <1>4, <1>8, <1>10, <1>11, <2>1 DEF Became
<1>13. ASSUME NEW i \in Earlier(q, n)
       PROVE  Became(r, q, i)
  <2>1. i \in DOMAIN rev[q] /\ i < n /\ Current(rev[q][i])
    BY DEF Earlier
  <2>2. HeldRev(r, q, i)
    BY LocksHeld
  <2>3. case[CaseOf[q]].stage # "won"
    BY <1>3 DEF Closed
  <2>4. rev'[q][i] = t[i] /\ rev'[q][n].by = 0 /\ DOMAIN rev'[q] = DOMAIN rev[q]
    <3>1. i # n
      BY <1>1, <1>2, <2>1
    <3>2. DOMAIN s = DOMAIN rev[q]
      BY <1>1, <1>10
    <3> QED  BY <1>2, <1>8, <1>10, <1>11, <2>1, <3>1, <3>2
  <2> QED  BY <1>2, <1>7, <2>1, <2>2, <2>3, <2>4 DEF Became
<1>14. \A i \in DOMAIN rev[q] : s[i] = rev[q][i] \/ Became(r, q, i)
  BY <1>7, <1>10, <1>12, <1>13
<1>15. RevStep(r)
  BY <1>1, <1>10, <1>11, <1>14, OneQuote
<1> QED  BY <1>1, <1>11, <1>15, SameCases

LEMMA VoidStep ==
  ASSUME IInv, NEW r \in Requests, pc[r] = "asked", HoldsAll(r),
         NEW q, q = First(r), NEW n, n = saw[r][q].no, Void(r, q, n)
  PROVE  RevStep(r) /\ CaseStep(r)
<1> DEFINE w == [rev[q][n] EXCEPT !.status = "void", !.version = @ + 1]
           s == [rev[q] EXCEPT ![n].status = "void", ![n].version = @ + 1]
<1> KindOf[r] = "void"
  BY DEF Void
<1>1. q \in Quotes /\ rev \in [Quotes -> Seq(Revisions)]
        /\ rev[q] \in Seq(Revisions) /\ n \in 0..Len(rev[q]) /\ CaseType
        /\ DOMAIN rev[q] = 1..Len(rev[q])
        /\ \A i \in DOMAIN rev[q] : rev[q][i] \in Revisions
  BY CommitFacts
<1>2. HeldRev(r, q, n) /\ n # 0 /\ n \in DOMAIN rev[q]
  <2>1. HeldRev(r, q, n)
    BY LocksHeld
  <2>2. n # 0
    BY CommitFacts
  <2> QED  BY <1>1, <2>1, <2>2
<1>3. Voidable(rev[q][n]) /\ rev[q][n] \in Revisions
  BY <1>1, <1>2, CommitFacts DEF RevChecked, Void
<1>4. /\ w \in Revisions /\ w.status = "void" /\ w.by = 0
      /\ w.version = rev[q][n].version + 1
  BY <1>3, Moved DEF Voidable
<1>5. s = [rev[q] EXCEPT ![n] = w] /\ SetRev(q, s) /\ UNCHANGED case
  BY <1>2, <1>3 DEF Void, Revisions
<1> HIDE DEF w, s
<1>6. s \in Seq(Revisions) /\ Len(s) = Len(rev[q]) /\ s[n] = w
        /\ \A i \in DOMAIN rev[q] : i # n => s[i] = rev[q][i]
  BY <1>1, <1>2, <1>4, <1>5, ChangeOne
<1>7. SetRev(q, s) /\ UNCHANGED case /\ rev'[q] = s
  BY <1>1, <1>5 DEF SetRev
<1>8. Became(r, q, n)
  BY <1>2, <1>3, <1>4, <1>6, <1>7 DEF Became
<1>9. RevStep(r)
  BY <1>1, <1>6, <1>7, <1>8, OneQuote
<1> QED  BY <1>1, <1>7, <1>9, SameCases

LEMMA AppendOne ==
  ASSUME NEW t \in Seq(Revisions), NEW w \in Revisions
  PROVE  LET s == Append(t, w) IN
         /\ s \in Seq(Revisions) /\ Len(s) = Len(t) + 1 /\ s[Len(t) + 1] = w
         /\ \A i \in DOMAIN t : s[i] = t[i]
OBVIOUS

LEMMA ReviseStep ==
  ASSUME IInv, NEW r \in Requests, pc[r] = "asked", HoldsAll(r),
         NEW q, q = First(r), NEW n, n = saw[r][q].no, Revise(r, q, n)
  PROVE  RevStep(r) /\ CaseStep(r)
<1>1. q \in Quotes /\ rev \in [Quotes -> Seq(Revisions)] /\ q \in Named(r)
        /\ rev[q] \in Seq(Revisions) /\ CaseType /\ QuoteChecked(r, q)
        /\ \A i \in DOMAIN rev[q] : rev[q][i] \in Revisions
  BY CommitFacts
<1>2. KindOf[r] = "revise" /\ UNCHANGED case
  BY DEF Revise
<1>3. HeldQuote(r, q) /\ ~Some(q, Open)
  BY <1>1, <1>2, LocksHeld DEF QuoteChecked
<1>4. q \notin Printed
  <2>1. PICK i \in DOMAIN QuotesOf[r] : q = QuotesOf[r][i]
    BY <1>1 DEF Named
  <2> QED  BY <1>2, <2>1, MailAssumption
<1>5. n # 0 /\ SetRev(q, Append(rev[q], Fresh("draft", rev[q][n].text)))
  BY DEF Revise
<1> DEFINE w == Fresh("draft", rev[q][n].text)
           s == Append(rev[q], w)
<1>6. w \in Revisions /\ Open(w) /\ w.by = 0
  <2>1. n \in DOMAIN rev[q]
    BY <1>1, <1>5 DEF IInv, SawOK
  <2>2. rev[q][n].text \in Texts
    BY <1>1, <2>1 DEF Revisions
  <2> QED  BY <2>2 DEF Fresh, Open, Revisions, Texts
<1> HIDE DEF w
<1>7. s \in Seq(Revisions) /\ Len(s) = Len(rev[q]) + 1
        /\ s[Len(rev[q]) + 1] = w /\ \A i \in DOMAIN rev[q] : s[i] = rev[q][i]
  BY <1>1, <1>6, AppendOne
<1>8. SetRev(q, s)
  BY <1>5 DEF w
<1> HIDE DEF s
<1>9. Added(r, q, w)
  BY <1>2, <1>3, <1>4, <1>6 DEF Added
<1>10. RevStep(r)
  BY <1>1, <1>7, <1>8, <1>9, OneQuote
<1> QED  BY <1>1, <1>2, <1>10, SameCases

LEMMA RecordStep ==
  ASSUME IInv, NEW r \in Requests, pc[r] = "asked", HoldsAll(r),
         NEW q, q = First(r), NEW n, n = saw[r][q].no, Record(r, q, n)
  PROVE  RevStep(r) /\ CaseStep(r)
<1> DEFINE k == Len(rev[q]) + 1
           t == Supersede(q, {n}, k)
           w == Fresh("sent", r)
           s == Append(t, w)
<1> KindOf[r] = "record"
  BY DEF Record
<1>1. q \in Quotes /\ rev \in [Quotes -> Seq(Revisions)] /\ q \in Named(r)
        /\ rev[q] \in Seq(Revisions) /\ n \in 0..Len(rev[q]) /\ CaseType
        /\ DOMAIN rev[q] = 1..Len(rev[q]) /\ Len(rev[q]) \in Nat
        /\ CaseChecked(r, q) /\ RevChecked(r, q)
  BY CommitFacts
<1>2. q \in Printed
  BY MailAssumption DEF First
<1>3. w \in Revisions /\ w.by = 0 /\ w.status = "sent"
  BY DEF Fresh, Revisions, Texts
<1>4. /\ t \in Seq(Revisions) /\ Len(t) = Len(rev[q])
      /\ DOMAIN t = DOMAIN rev[q]
      /\ \A i \in DOMAIN rev[q] :
           /\ i \notin {n} => t[i] = rev[q][i]
           /\ i \in {n} =>
                /\ t[i].by = k /\ t[i].version = rev[q][i].version + 1
                /\ t[i].status = rev[q][i].status
                /\ t[i].text = rev[q][i].text
                /\ t[i].approved = rev[q][i].approved
  BY <1>1, SupersedeIsSeq
<1>5. SetRev(q, s) /\ UNCHANGED case
  BY DEF Record
<1> HIDE DEF t, w
<1>6. /\ s \in Seq(Revisions) /\ Len(s) = k /\ s[k] = w
      /\ \A i \in DOMAIN rev[q] : s[i] = t[i]
  BY <1>3, <1>4, AppendOne
<1> HIDE DEF s
<1>7. Added(r, q, s[k])
  BY <1>2, <1>3, <1>6 DEF Added
<1>8. ASSUME n \in DOMAIN rev[q]
      PROVE  Became(r, q, n)
  <2>1. n # 0
    BY <1>1, <1>8
  <2>2. HeldRev(r, q, n) /\ HeldCase(r, q)
    BY <2>1, LocksHeld
  <2>3. rev[q][n].status = "sent" /\ rev[q][n].by = 0
    BY <1>1, <2>1, <2>2 DEF RevChecked
  <2>4. case[CaseOf[q]].stage # "won"
    BY <1>1, <2>2 DEF CaseChecked, Closed
  <2>5. rev'[q] = s
    BY <1>1, <1>5 DEF SetRev
  <2>6. k \in DOMAIN rev'[q] /\ rev'[q][k].by = 0
    BY <1>1, <1>3, <1>6, <2>5
  <2>7. rev'[q][n] = t[n]
    BY <1>6, <1>8, <2>5
  <2>8. /\ t[n].by = k /\ t[n].version = rev[q][n].version + 1
        /\ t[n].status = rev[q][n].status /\ t[n].text = rev[q][n].text
        /\ t[n].approved = rev[q][n].approved
    BY <1>4, <1>8
  <2>9. Current(rev[q][n])
    BY <2>3 DEF Current, Issued
  <2> HIDE DEF k
  <2> QED  BY <2>2, <2>4, <2>6, <2>7, <2>8, <2>9 DEF Became
<1>9. \A i \in DOMAIN rev[q] : s[i] = rev[q][i] \/ Became(r, q, i)
  BY <1>4, <1>6, <1>8
<1>10. RevStep(r)
  BY <1>1, <1>5, <1>6, <1>7, <1>9, OneQuote
<1> QED  BY <1>1, <1>5, <1>10, SameCases

LEMMA ChooseStep ==
  ASSUME IInv, NEW r \in Requests, pc[r] = "asked", HoldsAll(r),
         NEW q, q = First(r), NEW n, n = saw[r][q].no, Choose(r, q, n)
  PROVE  RevStep(r) /\ CaseStep(r)
<1> DEFINE c == CaseOf[q]
           s == Supersede(q, Others(q, n), n)
<1> KindOf[r] = "choose"
  BY DEF Choose
<1>1. q \in Quotes /\ rev \in [Quotes -> Seq(Revisions)] /\ q \in Named(r)
        /\ rev[q] \in Seq(Revisions) /\ n \in 0..Len(rev[q]) /\ CaseType
        /\ DOMAIN rev[q] = 1..Len(rev[q]) /\ Len(rev[q]) \in Nat
        /\ CaseChecked(r, q) /\ c \in Cases /\ n # 0
  BY CommitFacts
<1>2. n \in DOMAIN rev[q] /\ n \in Nat
  BY <1>1
<1>3. HeldCase(r, q) /\ \A i \in DOMAIN rev[q] : HeldRev(r, q, i)
  BY LocksHeld
<1>4. ~Closed(c)
  BY <1>1, <1>3 DEF CaseChecked
<1>5. MayBeChosen(q, n) /\ SetRev(q, s) /\ SetCase(c, case[c].stage)
  BY DEF Choose
<1>6. /\ s \in Seq(Revisions) /\ Len(s) = Len(rev[q])
      /\ DOMAIN s = DOMAIN rev[q]
      /\ \A i \in DOMAIN rev[q] :
           /\ i \notin Others(q, n) => s[i] = rev[q][i]
           /\ i \in Others(q, n) =>
                /\ s[i].by = n /\ s[i].version = rev[q][i].version + 1
                /\ s[i].status = rev[q][i].status
                /\ s[i].text = rev[q][i].text
                /\ s[i].approved = rev[q][i].approved
  BY <1>1, <1>2, SupersedeIsSeq
<1> HIDE DEF s
<1>7. rev'[q] = s
  BY <1>1, <1>5 DEF SetRev
<1>8. ASSUME NEW i \in Others(q, n)
      PROVE  Became(r, q, i)
  <2>1. i \in DOMAIN rev[q] /\ i # n /\ rev[q][i].by = 0
    BY DEF Others
  <2>2. Current(rev[q][i])
    <3>1. q \in Printed
      BY MailAssumption DEF First
    <3>2. rev[q][i].status = "sent"
      BY <1>1, <2>1, <3>1 DEF IInv, Drafts
    <3> QED  BY <2>1, <3>2 DEF Current, Issued
  <2>3. n \notin Others(q, n) /\ rev[q][n].by = 0
    BY <1>5 DEF Others, MayBeChosen
  <2>4. n \in DOMAIN rev'[q] /\ rev'[q][n].by = 0
    BY <1>2, <1>6, <1>7, <2>3
  <2>5. case[CaseOf[q]].stage # "won"
    BY <1>4 DEF Closed
  <2> QED
    BY <1>3, <1>6, <1>7, <2>1, <2>2, <2>4, <2>5 DEF Became
<1>9. RevStep(r)
  BY <1>1, <1>5, <1>6, <1>8, OneQuote
<1>10. CaseStep(r)
  <2>1. case' = [case EXCEPT ![c].stage = case[c].stage, ![c].version = @ + 1]
    BY <1>5 DEF SetCase
  <2>2. case[c] \in CaseRows
    BY <1>1 DEF CaseType
  <2> DEFINE v == case[c]
             w == [v EXCEPT !.stage = v.stage, !.version = @ + 1]
  <2>3. case' = [case EXCEPT ![c] = w]
    BY <1>1, <2>1, <2>2 DEF CaseType, CaseRows
  <2>4. w \in CaseRows /\ w.stage = v.stage /\ w.won = v.won
    <3>1. v \in CaseRows /\ v.stage \in Stages
      BY <2>2 DEF CaseRows
    <3> HIDE DEF v
    <3> QED  BY <3>1, CaseMoved
  <2> HIDE DEF w
  <2>5. \A d \in Cases : d # c => case'[d] = case[d]
    BY <1>1, <2>1 DEF CaseType
  <2>6. case'[c] = w
    BY <1>1, <2>3 DEF CaseType
  <2>7. CaseType'
    BY <1>1, <2>3, <2>4 DEF CaseType
  <2>8. case[c].stage # "won"
    BY <1>4 DEF Closed
  <2> QED  BY <1>1, <1>3, <2>4, <2>5, <2>6, <2>7, <2>8 DEF CaseStep
<1> QED  BY <1>9, <1>10

LEMMA WinStep ==
  ASSUME IInv, NEW r \in Requests, pc[r] = "asked", HoldsAll(r),
         NEW q, q = First(r), NEW n, n = saw[r][q].no, Win(r, q, n)
  PROVE  RevStep(r) /\ CaseStep(r)
<1> DEFINE c == CaseOf[q]
           w == [stage |-> "won", version |-> case[c].version + 1,
                 won |-> <<q, n>>]
<1> KindOf[r] = "won"
  BY DEF Win
<1>1. q \in Quotes /\ rev \in [Quotes -> Seq(Revisions)] /\ q \in Named(r)
        /\ n \in 0..Len(rev[q]) /\ CaseType
        /\ DOMAIN rev[q] = 1..Len(rev[q]) /\ Len(rev[q]) \in Nat
        /\ CaseChecked(r, q) /\ c \in Cases /\ n # 0
  BY CommitFacts
<1>2. HeldCase(r, q)
  BY LocksHeld
<1>3. case[c].stage # "won"
  BY <1>1, <1>2 DEF CaseChecked, Closed
<1>4. /\ rev[q][n].status = "sent" /\ rev[q][n].by = 0 /\ UNCHANGED rev
      /\ case' = [case EXCEPT ![c] = w]
  BY DEF Win
<1>5. case[c].version \in Nat
  BY <1>1 DEF CaseType, CaseRows
<1>6. w \in CaseRows
  BY <1>1, <1>5 DEF Stages, CaseRows
<1>7. w.stage = "won" /\ w.won = <<q, n>> /\ w.won # <<>>
  OBVIOUS
<1> HIDE DEF w
<1>8. CaseType'
  BY <1>1, <1>4, <1>6, <1>7 DEF CaseType
<1>9. case'[c] = w /\ \A d \in Cases : d # c => case'[d] = case[d]
  BY <1>1, <1>4 DEF CaseType
<1>10. Won(c)
  BY <1>1, <1>4, <1>7, <1>9 DEF Won
<1>11. CaseStep(r)
  BY <1>1, <1>2, <1>3, <1>8, <1>9, <1>10 DEF CaseStep
<1> QED  BY <1>1, <1>4, <1>11, SameRevs

LEMMA MoveStep ==
  ASSUME IInv, NEW r \in Requests, pc[r] = "asked", HoldsAll(r),
         NEW q, q = First(r), Move(r, q)
  PROVE  RevStep(r) /\ CaseStep(r)
<1> DEFINE c == CaseOf[q]
<1> KindOf[r] = "move"
  BY DEF Move
<1>1. rev \in [Quotes -> Seq(Revisions)] /\ q \in Named(r) /\ CaseType
        /\ c \in Cases
  BY CommitFacts
<1>2. HeldCase(r, q)
  BY LocksHeld
<1>3. PICK stage \in Moves(case[c].stage) : SetCase(c, stage)
  BY DEF Move
<1>4. case[c].stage # "won" /\ stage # "won" /\ stage \in Stages
  BY <1>1, <1>3 DEF Moves, Transitions, Stages, CaseType, CaseRows
<1> DEFINE v == case[c]
           w == [v EXCEPT !.stage = stage, !.version = @ + 1]
<1>5. v \in CaseRows
  BY <1>1 DEF CaseType
<1>6. case' = [case EXCEPT ![c] = w]
  BY <1>1, <1>3, <1>5 DEF SetCase, CaseType, CaseRows
<1>7. w.stage = stage /\ w.won = v.won /\ w \in CaseRows
  <2> HIDE DEF v
  <2> QED  BY <1>4, <1>5, CaseMoved
<1>8. case[c].won = <<>>
  BY <1>1, <1>4 DEF CaseType
<1> HIDE DEF w
<1>9. CaseType'
  BY <1>1, <1>4, <1>6, <1>7, <1>8 DEF CaseType
<1>10. case'[c] = w /\ \A d \in Cases : d # c => case'[d] = case[d]
  BY <1>1, <1>6 DEF CaseType
<1>11. CaseStep(r)
  BY <1>1, <1>2, <1>4, <1>7, <1>9, <1>10 DEF CaseStep
<1> QED  BY <1>1, <1>11, SameRevs DEF Move

LEMMA StepsTyped ==
  ASSUME NEW stage
  PROVE  ToQuoting(stage) \in Seq(Stages) /\ Len(ToQuoting(stage)) \in Nat
<1>1. /\ <<"qualifying", "qualified", "quoting">> \in Seq(Stages)
      /\ <<"qualified", "quoting">> \in Seq(Stages)
      /\ <<"quoting">> \in Seq(Stages) /\ <<>> \in Seq(Stages)
  BY DEF Stages
<1>2. ToQuoting(stage) \in Seq(Stages)
  BY <1>1, Zenon DEF ToQuoting
<1> QED  BY <1>2, LenProperties

\* A won case is not moved by a mail.
LEMMA WonIsNotWalked ==
  ASSUME NEW r, NEW q, CanWalk(r, q), case[CaseOf[q]].stage = "won"
  PROVE  ToQuoting(saw[r][q].stage) = <<>>
<1> DEFINE steps == ToQuoting(saw[r][q].stage)
           path == <<case[CaseOf[q]].stage>> \o steps
<1>1. \A i \in 1..(Len(path) - 1) : path[i + 1] \in Moves(path[i])
  BY DEF CanWalk
<1>2. <<case[CaseOf[q]].stage>> = <<"won">> /\ <<"won">> \in Seq(Stages)
  BY DEF Stages
<1>3. steps \in Seq(Stages) /\ Len(steps) \in Nat
  BY StepsTyped
<1> HIDE DEF steps
<1>4. /\ Len(path) = 1 + Len(steps) /\ path[1] = "won"
  <2>1. path = <<"won">> \o steps /\ Len(<<"won">>) = 1 /\ <<"won">>[1] = "won"
    BY <1>2
  <2>2. /\ Len(<<"won">> \o steps) = Len(<<"won">>) + Len(steps)
        /\ \A i \in 1 .. Len(<<"won">>) + Len(steps) :
             (<<"won">> \o steps)[i] =
               IF i <= Len(<<"won">>) THEN <<"won">>[i]
               ELSE steps[i - Len(<<"won">>)]
    BY <1>2, <1>3, ConcatProperties, Zenon
  <2> HIDE DEF path
  <2> QED  BY <1>3, <2>1, <2>2
<1>5. Moves("won") = {}
  BY DEF Moves, Transitions
<1> HIDE DEF path
<1>6. Len(steps) = 0
  BY <1>1, <1>3, <1>4, <1>5
<1> QED  BY <1>3, <1>6, EmptySeq DEF steps

LEMMA MarkSentStep ==
  ASSUME IInv, NEW r \in Requests, pc[r] = "asked", HoldsAll(r), MarkSent(r)
  PROVE  RevStep(r) /\ CaseStep(r)
<1> DEFINE No(q) == saw[r][q].no
           w(q) == [rev[q][No(q)] EXCEPT !.status = "sent", !.version = @ + 1]
           s(q) == [rev[q] EXCEPT ![No(q)].status = "sent",
                                  ![No(q)].version = @ + 1]
<1> KindOf[r] = "mail"
  BY DEF MarkSent
<1>1. rev \in [Quotes -> Seq(Revisions)] /\ CaseType /\ Named(r) \subseteq Quotes
  BY CommitFacts
<1>2. /\ rev' = [q \in Quotes |-> IF q \in Named(r) THEN s(q) ELSE rev[q]]
      /\ \A q \in Named(r) : CanWalk(r, q)
  BY DEF MarkSent
<1>3. ASSUME NEW q \in Named(r)
      PROVE  /\ No(q) \in DOMAIN rev[q] /\ HeldRev(r, q, No(q)) /\ HeldCase(r, q)
             /\ Awaiting(rev[q][No(q)]) /\ rev[q][No(q)] \in Revisions
             /\ rev[q] \in Seq(Revisions) /\ q \in Quotes
  <2>1. HeldRev(r, q, No(q)) /\ HeldCase(r, q)
    BY MailLocksHeld
  <2>2. No(q) \in 0..Len(rev[q]) /\ No(q) # 0
    BY DEF IInv, SawOK
  <2>3. rev[q] \in Seq(Revisions) /\ q \in Quotes
    BY <1>1
  <2>4. No(q) \in DOMAIN rev[q] /\ rev[q][No(q)] \in Revisions
    BY <2>2, <2>3
  <2>5. RevChecked(r, q)
    BY DEF IInv, Checked
  <2>6. Awaiting(rev[q][No(q)])
    BY <2>1, <2>2, <2>5 DEF RevChecked
  <2> QED  BY <2>1, <2>3, <2>4, <2>6
<1>4. ASSUME NEW q \in Named(r)
      PROVE  /\ s(q) \in Seq(Revisions) /\ Len(s(q)) = Len(rev[q])
             /\ \A i \in DOMAIN rev[q] : i # No(q) => s(q)[i] = rev[q][i]
             /\ w(q) \in Revisions /\ w(q).version = rev[q][No(q)].version + 1
             /\ w(q).status = "sent" /\ w(q).by = 0
             /\ w(q).text = rev[q][No(q)].text
             /\ w(q).approved = rev[q][No(q)].approved
             /\ s(q)[No(q)] = w(q)
  <2> DEFINE n == No(q)
             v == rev[q][n]
             t == rev[q]
             x == [v EXCEPT !.status = "sent", !.version = @ + 1]
  <2>1. v \in Revisions /\ t \in Seq(Revisions) /\ n \in DOMAIN t /\ v.by = 0
    BY <1>3 DEF Awaiting
  <2>2. /\ x \in Revisions /\ x.version = v.version + 1 /\ x.status = "sent"
        /\ x.by = v.by /\ x.text = v.text /\ x.approved = v.approved
    <3> HIDE DEF v
    <3> QED  BY <2>1, Moved
  <2>3. w(q) = x
    OBVIOUS
  <2>4. s(q) = [t EXCEPT ![n] = x]
    BY <2>1 DEF Revisions
  <2> HIDE DEF w, x, s
  <2>5. /\ s(q) \in Seq(Revisions) /\ Len(s(q)) = Len(t) /\ s(q)[n] = x
        /\ \A i \in DOMAIN t : i # n => s(q)[i] = t[i]
    <3> HIDE DEF t, n
    <3> QED  BY <2>1, <2>2, <2>4, ChangeOne
  <2> QED  BY <2>1, <2>2, <2>3, <2>5
<1>5. RevStep(r)
  <2>1. rev' \in [Quotes -> Seq(Revisions)]
    BY <1>1, <1>2, <1>4
  <2>2. \A q \in Named(r) : rev'[q] = s(q)
    BY <1>1, <1>2
  <2>3. ASSUME NEW q \in Named(r)
        PROVE  Became(r, q, No(q))
    <3>1. rev'[q][No(q)] = w(q)
      BY <1>4, <2>2
    <3> HIDE DEF w, s
    <3> QED  BY <1>3, <1>4, <3>1 DEF Became
  <2>4. \A q \in Quotes : q \notin Named(r) => rev'[q] = rev[q]
    BY <1>2
  <2>5. ASSUME NEW q \in Quotes, NEW i \in DOMAIN rev[q]
        PROVE  rev'[q][i] = rev[q][i] \/ Became(r, q, i)
    <3> HIDE DEF w, s
    <3> QED  BY <1>4, <2>2, <2>3, <2>4
  <2>6. \A q \in Quotes : Len(rev'[q]) = Len(rev[q])
    <3> HIDE DEF w, s
    <3> QED  BY <1>4, <2>2, <2>4
  <2> QED  BY <2>1, <2>5, <2>6 DEF RevStep
<1>6. CaseStep(r)
  <2>1. ASSUME NEW q \in Named(r)
        PROVE  /\ CaseOf[q] \in Cases
               /\ Walked(r, q) \in CaseRows
               /\ Walked(r, q).won = case[CaseOf[q]].won
               /\ Walked(r, q).stage = "won" <=> case[CaseOf[q]].stage = "won"
    <3> DEFINE steps == ToQuoting(saw[r][q].stage)
               v == case[CaseOf[q]]
               stage == IF steps = <<>> THEN v.stage ELSE "quoting"
               x == [v EXCEPT !.stage = stage, !.version = v.version + Len(steps)]
    <3>1. CaseOf[q] \in Cases /\ v \in CaseRows
      BY <1>1, QuoteAssumption DEF CaseType
    <3>2. Len(steps) \in Nat
      BY StepsTyped
    <3>3. v.version + Len(steps) \in Nat /\ stage \in Stages
      BY <3>1, <3>2 DEF CaseRows, Stages
    <3>4. Walked(r, q) = x
      BY <3>1 DEF Walked, CaseRows
    <3>5. x \in CaseRows /\ x.won = v.won /\ x.stage = stage
      <4> HIDE DEF v, stage, steps
      <4> QED  BY <3>1, <3>3 DEF CaseRows
    <3>6. v.stage = "won" => steps = <<>>
      BY <1>2, WonIsNotWalked
    <3>7. stage = "won" <=> v.stage = "won"
      <4> HIDE DEF steps
      <4> QED  BY <3>6
    <3> HIDE DEF v, stage, steps, x
    <3> QED  BY <3>1, <3>4, <3>5, <3>7 DEF v
  <2>2. ASSUME NEW c \in Cases, \E q \in Named(r) : CaseOf[q] = c
        PROVE  \E q \in Named(r) : CaseOf[q] = c /\ case'[c] = Walked(r, q)
    <3>1. case'[c] = Walked(r, CHOOSE q \in Named(r) : CaseOf[q] = c)
      BY <2>2 DEF MarkSent
    <3> QED  BY <2>2, <3>1
  <2>3. \A c \in Cases :
          (~ \E q \in Named(r) : CaseOf[q] = c) => case'[c] = case[c]
    BY DEF MarkSent
  <2>4. case' = [c \in Cases |-> case'[c]]
    BY DEF MarkSent
  <2>5. ASSUME NEW c \in Cases
        PROVE  /\ case'[c] \in CaseRows /\ case'[c].won = case[c].won
               /\ case'[c].stage = "won" <=> case[c].stage = "won"
               /\ case'[c] # case[c] =>
                    \E q \in Named(r) : CaseOf[q] = c /\ HeldCase(r, q)
    <3>1. CASE \E q \in Named(r) : CaseOf[q] = c
      <4>1. PICK q \in Named(r) : CaseOf[q] = c /\ case'[c] = Walked(r, q)
        BY <2>2, <3>1
      <4> QED  BY <1>3, <2>1, <4>1
    <3>2. CASE ~ \E q \in Named(r) : CaseOf[q] = c
      BY <1>1, <2>3, <3>2 DEF CaseType
    <3> QED  BY <3>1, <3>2
  <2>6. CaseType'
    <3>1. case' \in [Cases -> CaseRows]
      BY <2>4, <2>5
    <3> QED  BY <1>1, <2>5, <3>1 DEF CaseType
  <2> QED  BY <2>5, <2>6 DEF CaseStep
<1> QED  BY <1>5, <1>6

LEMMA CommitStep ==
  ASSUME IInv, NEW r \in Requests, Commit(r)
  PROVE  RevStep(r) /\ CaseStep(r)
<1>1. pc[r] = "asked" /\ HoldsAll(r) /\ Writes(r)
  BY DEF Commit
<1> QED
  BY <1>1, SaveStep, ApproveStep, VoidStep, ReviseStep, RecordStep, ChooseStep,
     WinStep, MoveStep, MarkSentStep DEF Writes

-----------------------------------------------------------------------------
(* A transaction that ends keeps the invariant *)

LEMMA RevFacts ==
  ASSUME IInv, NEW r \in Requests, RevStep(r)
  PROVE  \A q \in Quotes :
           /\ rev[q] \in Seq(Revisions) /\ rev'[q] \in Seq(Revisions)
           /\ DOMAIN rev[q] = 1..Len(rev[q]) /\ Len(rev[q]) \in Nat
           /\ DOMAIN rev'[q] = 1..Len(rev'[q])
           /\ DOMAIN rev[q] \subseteq DOMAIN rev'[q]
           /\ \A i \in DOMAIN rev[q] : rev[q][i] \in Revisions
           /\ \A i \in DOMAIN rev'[q] :
                \/ i \in DOMAIN rev[q]
                     /\ (rev'[q][i] = rev[q][i] \/ Became(r, q, i))
                \/ /\ i = Len(rev[q]) + 1 /\ i = Len(rev'[q])
                   /\ Added(r, q, rev'[q][i])
<1> TAKE q \in Quotes
<1>1. rev[q] \in Seq(Revisions) /\ rev'[q] \in Seq(Revisions)
  BY DEF IInv, TypeOK, RevStep
<1>2. /\ DOMAIN rev[q] = 1..Len(rev[q]) /\ Len(rev[q]) \in Nat
      /\ DOMAIN rev'[q] = 1..Len(rev'[q]) /\ Len(rev'[q]) \in Nat
      /\ \A i \in DOMAIN rev[q] : rev[q][i] \in Revisions
  BY <1>1
<1>3. /\ \/ Len(rev'[q]) = Len(rev[q])
         \/ /\ Len(rev'[q]) = Len(rev[q]) + 1
            /\ Added(r, q, rev'[q][Len(rev[q]) + 1])
      /\ \A i \in DOMAIN rev[q] : rev'[q][i] = rev[q][i] \/ Became(r, q, i)
  BY DEF RevStep
<1> QED  BY <1>1, <1>2, <1>3

LEMMA TwoHoldNoRev ==
  ASSUME IInv, NEW p \in Requests, NEW r \in Requests, p # r, NEW q, NEW n,
         HeldRev(p, q, n), HeldRev(r, q, n)
  PROVE  FALSE
<1>1. PICK l \in holds[p] : l.on = <<"revision", q, n>>
  BY DEF HeldRev, Held
<1>2. PICK m \in holds[r] : m.on = <<"revision", q, n>>
  BY DEF HeldRev, Held
<1>3. ModeOf(p, l) /\ ModeOf(r, m) /\ ~Excludes(l, m)
  BY DEF IInv, LocksOfAsked, LocksExclude
<1>4. l.mode = "update" /\ m.mode = "update"
  BY <1>1, <1>2, <1>3 DEF ModeOf
<1> QED  BY <1>1, <1>2, <1>3, <1>4 DEF Excludes

LEMMA TwoHoldNoQuote ==
  ASSUME IInv, NEW p \in Requests, NEW r \in Requests, p # r, NEW q,
         HeldQuote(p, q), HeldQuote(r, q),
         KindOf[p] = "revise", KindOf[r] = "revise"
  PROVE  FALSE
<1>1. PICK l \in holds[p] : l.on = <<"quote", q, 0>>
  BY DEF HeldQuote, Held
<1>2. PICK m \in holds[r] : m.on = <<"quote", q, 0>>
  BY DEF HeldQuote, Held
<1>3. ModeOf(p, l) /\ ModeOf(r, m) /\ ~Excludes(l, m)
  BY DEF IInv, LocksOfAsked, LocksExclude
<1>4. l.mode = "update" /\ m.mode = "update"
  BY <1>1, <1>2, <1>3 DEF ModeOf
<1> QED  BY <1>1, <1>2, <1>3, <1>4 DEF Excludes

\* A case that somebody has locked in any way is written by nobody else.
LEMMA CaseIsKept ==
  ASSUME IInv, NEW p \in Requests, NEW r \in Requests, p # r,
         NEW q \in Quotes, HeldCase(p, q), CaseStep(r)
  PROVE  case'[CaseOf[q]] = case[CaseOf[q]]
<1> SUFFICES ASSUME case'[CaseOf[q]] # case[CaseOf[q]] PROVE FALSE
  OBVIOUS
<1>1. CaseOf[q] \in Cases
  BY QuoteAssumption
<1>2. KindOf[r] \notin {"save", "approve", "record"}
        /\ \E b \in Named(r) : CaseOf[b] = CaseOf[q] /\ HeldCase(r, b)
  BY <1>1 DEF CaseStep
<1>3. PICK l \in holds[p] : l.on = <<"case", CaseOf[q], 0>>
  BY DEF HeldCase, Held
<1>4. PICK m \in holds[r] : m.on = <<"case", CaseOf[q], 0>>
  BY <1>2 DEF HeldCase, Held
<1>5. ModeOf(p, l) /\ ModeOf(r, m) /\ ~Excludes(l, m)
  BY DEF IInv, LocksOfAsked, LocksExclude
<1>6. l.mode \in {"share", "update"} /\ m.mode = "update"
  BY <1>2, <1>3, <1>4, <1>5 DEF ModeOf
<1> QED  BY <1>3, <1>4, <1>5, <1>6 DEF Excludes

\* What the other requests have is as it was.
LEMMA OthersStay ==
  ASSUME IInv, NEW r \in Requests, End(r)
  PROVE  /\ \A p \in Requests : p # r =>
              pc'[p] = pc[p] /\ saw'[p] = saw[p] /\ holds'[p] = holds[p]
         /\ pc'[r] = "done" /\ holds'[r] = {}
         /\ saw'[r] = [q \in Named(r) |-> Nothing]
         /\ pc' \in [Requests -> {"idle", "asked", "done"}]
         /\ DOMAIN saw' = Requests
         /\ holds' \in [Requests -> SUBSET [on : Things,
                                            mode : {"share", "update"}]]
BY DEF IInv, TypeOK, End, EndOf

LEMMA EndTypes ==
  ASSUME IInv, NEW r \in Requests, End(r), RevStep(r), CaseStep(r)
  PROVE  TypeOK'
<1>1. \A p \in Requests : saw'[p] \in [Named(p) -> Sights]
  <2> TAKE p \in Requests
  <2>1. Nothing \in Sights
    BY DEF Nothing, Sights, Texts
  <2>2. CASE p = r
    <3>1. saw'[r] = [q \in Named(r) |-> Nothing]
      BY OthersStay
    <3> QED  BY <2>1, <2>2, <3>1
  <2>3. CASE p # r
    <3>1. saw'[p] = saw[p]
      BY <2>3, OthersStay
    <3>2. saw[p] \in [Named(p) -> Sights]
      BY DEF IInv, TypeOK
    <3> QED  BY <3>1, <3>2
  <2> QED  BY <2>2, <2>3
<1>2. rev' \in [Quotes -> Seq(Revisions)]
  BY DEF RevStep
<1>3. CaseType'
  BY DEF CaseStep
<1> QED  BY <1>1, <1>2, <1>3, OthersStay DEF TypeOK, CaseType, CaseRows, Named

LEMMA EndLocks ==
  ASSUME IInv, NEW r \in Requests, End(r)
  PROVE  LocksOfAsked' /\ LocksExclude'
<1>1. LocksOfAsked'
  BY OthersStay DEF IInv, LocksOfAsked, ModeOf
<1>2. LocksExclude'
  BY OthersStay DEF IInv, LocksExclude, Excludes
<1> QED  BY <1>1, <1>2

LEMMA EndSaw ==
  ASSUME IInv, NEW r \in Requests, End(r), RevStep(r)
  PROVE  SawOK'
<1> SUFFICES ASSUME NEW p \in Requests, pc'[p] = "asked", NEW q \in Named(p)
             PROVE  LET s == saw'[p][q] IN
                    /\ s.no \in 0..Len(rev'[q])
                    /\ s.no = 0 => KindOf[p] \in {"revise", "record", "move"}
                    /\ s.no # 0 /\ KindOf[p] # "revise" =>
                         /\ s.version <= rev'[q][s.no].version
                         /\ s.version = rev'[q][s.no].version =>
                              s.text = rev'[q][s.no].text
  BY DEF SawOK, Named
<1> DEFINE s == saw[p][q]
           n == s.no
<1>1. p # r /\ pc[p] = "asked" /\ saw'[p] = saw[p]
  BY OthersStay
<1>2. q \in Quotes
  BY NamedFacts
<1>3. /\ n \in 0..Len(rev[q])
      /\ n = 0 => KindOf[p] \in {"revise", "record", "move"}
      /\ n # 0 /\ KindOf[p] # "revise" =>
           /\ s.version <= rev[q][n].version
           /\ s.version = rev[q][n].version => s.text = rev[q][n].text
  BY <1>1 DEF IInv, SawOK
<1>4. s \in Sights
  BY <1>1 DEF IInv, TypeOK
<1>5. s.version \in Nat
  BY <1>4 DEF Sights
<1>6. n \in 0..Len(rev'[q])
  BY <1>2, <1>3, RevFacts
<1>7. ASSUME n # 0, KindOf[p] # "revise"
      PROVE  /\ s.version <= rev'[q][n].version
             /\ s.version = rev'[q][n].version => s.text = rev'[q][n].text
  <2>1. n \in DOMAIN rev[q] /\ rev[q][n] \in Revisions
    BY <1>2, <1>3, <1>7, RevFacts
  <2>2. rev[q][n].version \in Nat
    BY <2>1 DEF Revisions
  <2>3. rev'[q][n] = rev[q][n] \/ rev'[q][n].version = rev[q][n].version + 1
    BY <1>2, <2>1 DEF RevStep, Became
  <2>4. /\ s.version <= rev[q][n].version
        /\ s.version = rev[q][n].version => s.text = rev[q][n].text
    BY <1>3, <1>7
  <2>5. CASE rev'[q][n] = rev[q][n]
    BY <2>4, <2>5
  <2>6. CASE rev'[q][n].version = rev[q][n].version + 1
    <3> HIDE DEF s, n
    <3> QED  BY <1>5, <2>2, <2>4, <2>6
  <2> QED  BY <2>3, <2>5, <2>6
<1> QED  BY <1>1, <1>3, <1>6, <1>7

\* What a revise found stands through the commits of others: with the quote
\* locked there is no draft that one of them could issue.
LEMMA EndSource ==
  ASSUME IInv, NEW r \in Requests, End(r), RevStep(r)
  PROVE  SourceOK'
<1> SUFFICES ASSUME NEW p \in Requests, pc'[p] = "asked", NEW q \in Named(p)
             PROVE  SourceOf(p, q)'
  BY DEF SourceOK, Named
<1> DEFINE n == saw[p][q].no
<1>1. /\ p # r /\ pc[p] = "asked"
      /\ saw'[p] = saw[p] /\ holds'[p] = holds[p]
  BY OthersStay
<1> SUFFICES ASSUME KindOf[p] = "revise", n # 0
             PROVE  HeldQuote(p, q)' /\ SourceStands(p, q)'
  BY <1>1 DEF SourceOf
<1>2. q \in Quotes /\ q \notin Printed
  <2>1. PICK i \in DOMAIN QuotesOf[p] : q = QuotesOf[p][i]
    BY DEF Named
  <2> QED  BY <2>1, NamedFacts, MailAssumption
<1>3. HeldQuote(p, q) /\ SourceStands(p, q) /\ QuoteChecked(p, q)
        /\ n \in 0..Len(rev[q])
  BY <1>1 DEF IInv, SourceOK, SourceOf, Checked, SawOK
<1>4. HeldQuote(p, q)'
  BY <1>1, <1>3 DEF HeldQuote, Held
<1>5. n \in DOMAIN rev[q]
  BY <1>2, <1>3, RevFacts
<1>6. \A i \in DOMAIN rev[q] : ~Open(rev[q][i])
  BY <1>3 DEF QuoteChecked, Some
<1>7. rev'[q][n].status \in {"approved", "sent", "void"}
  <2>1. rev[q][n].status \in {"approved", "sent", "void"}
    BY <1>3 DEF SourceStands
  <2>2. rev'[q][n] = rev[q][n] \/ Became(r, q, n)
    BY <1>2, <1>5 DEF RevStep
  <2> QED  BY <1>5, <1>6, <2>1, <2>2 DEF Became
<1>8. ASSUME NEW i \in DOMAIN rev'[q], Issued(rev'[q][i]) PROVE i <= n
  <2>1. i \in DOMAIN rev[q] /\ (rev'[q][i] = rev[q][i] \/ Became(r, q, i))
    BY <1>2, <1>8, RevFacts DEF Added, Open, Issued
  <2>2. Issued(rev[q][i])
    BY <1>6, <1>8, <2>1 DEF Became, Issued, Awaiting, Voidable, Current
  <2> QED  BY <1>3, <2>1, <2>2 DEF SourceStands
<1> QED  BY <1>1, <1>4, <1>7, <1>8 DEF SourceStands, Issued

LEMMA EndChecked ==
  ASSUME IInv, NEW r \in Requests, End(r), RevStep(r), CaseStep(r)
  PROVE  Checked'
<1> SUFFICES ASSUME NEW p \in Requests, pc'[p] = "asked", NEW q \in Named(p)
             PROVE  RevChecked(p, q)' /\ CaseChecked(p, q)' /\ QuoteChecked(p, q)'
  BY DEF Checked, Named
<1> DEFINE s == saw[p][q]
           n == s.no
<1>1. /\ p # r /\ pc[p] = "asked"
      /\ saw'[p] = saw[p] /\ holds'[p] = holds[p]
  BY OthersStay
<1>2. q \in Quotes
  BY NamedFacts
<1>3. RevChecked(p, q) /\ CaseChecked(p, q) /\ QuoteChecked(p, q)
        /\ n \in 0..Len(rev[q])
  BY <1>1 DEF IInv, Checked, SawOK
<1>4. /\ HeldCase(p, q)' <=> HeldCase(p, q)
      /\ HeldQuote(p, q)' <=> HeldQuote(p, q)
      /\ \A i : HeldRev(p, q, i)' <=> HeldRev(p, q, i)
  BY <1>1 DEF HeldCase, HeldQuote, HeldRev, Held
<1>5. HeldCase(p, q) => Closed(CaseOf[q])' = Closed(CaseOf[q])
  BY <1>1, <1>2, CaseIsKept DEF Closed
<1>6. CaseChecked(p, q)'
  BY <1>3, <1>4, <1>5 DEF CaseChecked
<1>7. RevChecked(p, q)'
  <2> SUFFICES ASSUME HeldRev(p, q, n), n # 0
               PROVE  RevChecked(p, q)'
    BY <1>1, <1>4 DEF RevChecked
  <2>1. n \in DOMAIN rev[q]
    BY <1>2, <1>3, RevFacts
  <2>2. rev'[q][n] = rev[q][n]
    <3>1. ~Became(r, q, n)
      BY <1>1, TwoHoldNoRev DEF Became
    <3> QED  BY <1>2, <2>1, <3>1 DEF RevStep
  <2>3. DraftAsShown(p, q)' <=> DraftAsShown(p, q)
    BY <1>1, <2>2 DEF DraftAsShown, Open
  <2>4. KindOf[p] = "approve" =>
          /\ DraftAsShown(p, q) /\ ~Closed(CaseOf[q]) /\ HeldCase(p, q)
    BY <1>3 DEF RevChecked
  <2>5. KindOf[p] = "approve" =>
          /\ DraftAsShown(p, q)' /\ ~Closed(CaseOf[q])' /\ HeldCase(p, q)'
    BY <1>4, <1>5, <2>3, <2>4
  <2>6. KindOf[p] = "save" => DraftAsShown(p, q)'
    BY <1>3, <2>3 DEF RevChecked
  <2>7. /\ KindOf[p] = "void" => Voidable(rev'[q][n])
        /\ KindOf[p] = "mail" => Awaiting(rev'[q][n])
        /\ KindOf[p] = "record" =>
             rev'[q][n].status = "sent" /\ rev'[q][n].by = 0
    BY <1>3, <2>2 DEF RevChecked, Voidable, Awaiting
  <2> QED  BY <1>1, <2>5, <2>6, <2>7 DEF RevChecked, Voidable, Awaiting
<1>8. QuoteChecked(p, q)'
  <2> SUFFICES ASSUME HeldQuote(p, q), KindOf[p] = "revise",
                      NEW i \in DOMAIN rev'[q], Open(rev'[q][i])
               PROVE  FALSE
    BY <1>4 DEF QuoteChecked, Some, Open
  <2>1. \A j \in DOMAIN rev[q] : ~Open(rev[q][j])
    BY <1>3 DEF QuoteChecked, Some
  <2>2. CASE i \in DOMAIN rev[q]
    BY <1>2, <2>1, <2>2 DEF RevStep, Became, Open, Current, Issued
  <2>3. CASE i \notin DOMAIN rev[q]
    <3>1. Added(r, q, rev'[q][i])
      BY <1>2, <2>3, RevFacts
    <3>2. HeldQuote(r, q) /\ KindOf[r] = "revise"
      BY <3>1 DEF Added, Open
    <3> QED  BY <1>1, <3>2, TwoHoldNoQuote
  <2> QED  BY <2>2, <2>3
<1> QED  BY <1>6, <1>7, <1>8

LEMMA EndDrafts ==
  ASSUME IInv, NEW r \in Requests, RevStep(r)
  PROVE  Drafts'
<1> SUFFICES ASSUME NEW q \in Quotes, NEW n \in DOMAIN rev'[q]
             PROVE  /\ Open(rev'[q][n]) => n = Len(rev'[q]) /\ rev'[q][n].by = 0
                    /\ q \in Printed => rev'[q][n].status = "sent"
  BY DEF Drafts, Open
<1>1. CASE n \in DOMAIN rev[q]
  <2>1. /\ Open(rev[q][n]) => n = Len(rev[q]) /\ rev[q][n].by = 0
        /\ q \in Printed => rev[q][n].status = "sent"
    BY <1>1 DEF IInv, Drafts
  <2>2. rev'[q][n] = rev[q][n] \/ Became(r, q, n)
    BY <1>1 DEF RevStep
  <2>3. Open(rev'[q][n]) => Open(rev[q][n]) /\ rev'[q][n].by = 0
    BY <2>1, <2>2 DEF Became, Open, Current, Issued
  <2>4. Open(rev[q][n]) => Len(rev'[q]) = Len(rev[q])
    BY <1>1, <2>1 DEF RevStep, Added, Some, Open
  <2>5. q \in Printed => rev'[q][n].status = "sent"
    BY <2>1, <2>2 DEF Became, Open, Voidable, Awaiting
  <2> QED  BY <2>1, <2>3, <2>4, <2>5
<1>2. CASE n \notin DOMAIN rev[q]
  BY <1>2, RevFacts DEF Added
<1> QED  BY <1>1, <1>2

LEMMA EndOneInForce ==
  ASSUME IInv, NEW r \in Requests, RevStep(r)
  PROVE  OneInForce'
<1> SUFFICES ASSUME NEW q \in Quotes \ Printed,
                    NEW n \in DOMAIN rev'[q], NEW m \in DOMAIN rev'[q],
                    Current(rev'[q][n]), Current(rev'[q][m])
             PROVE  n = m
  BY DEF OneInForce, Current, Issued
<1> DEFINE Signed(i) ==
             /\ Open(rev[q][i])
             /\ \A j \in DOMAIN rev[q] :
                  j < i /\ Current(rev[q][j]) => rev'[q][j].by # 0
<1>1. ASSUME NEW i \in DOMAIN rev'[q], Current(rev'[q][i])
      PROVE  i \in DOMAIN rev[q] /\ (Current(rev[q][i]) \/ Signed(i))
  <2>1. i \in DOMAIN rev[q]
    <3> SUFFICES ASSUME i \notin DOMAIN rev[q] PROVE FALSE
      OBVIOUS
    <3>1. Added(r, q, rev'[q][i])
      BY RevFacts
    <3> QED  BY <1>1, <3>1 DEF Added, Open, Current, Issued
  <2>2. rev'[q][i] = rev[q][i] \/ Became(r, q, i)
    BY <2>1 DEF RevStep
  <2>3. 0 \notin DOMAIN rev'[q]
    BY RevFacts
  <2> QED
    BY <1>1, <2>1, <2>2, <2>3
    DEF Became, Open, Current, Issued, Awaiting, Voidable
<1>2. ASSUME NEW i \in DOMAIN rev[q], NEW j \in DOMAIN rev[q], Signed(i),
             Current(rev'[q][j]), Current(rev[q][j]) \/ Signed(j)
      PROVE  i = j
  <2>1. i = Len(rev[q])
    BY <1>2 DEF IInv, Drafts
  <2>2. i \in 1..Len(rev[q]) /\ j \in 1..Len(rev[q]) /\ Len(rev[q]) \in Nat
    BY RevFacts
  <2>3. CASE Current(rev[q][j])
    <3>1. ~(j < i)
      BY <1>2, <2>3 DEF Current
    <3> QED  BY <2>1, <2>2, <3>1
  <2>4. CASE Signed(j)
    BY <2>1, <2>4 DEF IInv, Drafts
  <2> QED  BY <1>2, <2>3, <2>4
<1>3. CASE Signed(n) \/ Signed(m)
  <2> HIDE DEF Signed
  <2> QED  BY <1>1, <1>2, <1>3
<1>4. CASE Current(rev[q][n]) /\ Current(rev[q][m])
  BY <1>1, <1>4 DEF IInv, OneInForce
<1> HIDE DEF Signed
<1> QED  BY <1>1, <1>3, <1>4

LEMMA EndChains ==
  ASSUME IInv, NEW r \in Requests, RevStep(r)
  PROVE  ChainsEnd'
<1> SUFFICES ASSUME NEW q \in Quotes, NEW S \in SUBSET DOMAIN rev'[q], S # {},
                    \A n \in S : rev'[q][n].by \in S
             PROVE  FALSE
  BY DEF ChainsEnd
<1>1. 0 \notin S
  BY RevFacts
<1>2. ASSUME NEW n \in S
      PROVE  n \in DOMAIN rev[q] /\ rev'[q][n].by = rev[q][n].by
  <2>1. rev'[q][n].by # 0 /\ rev'[q][n].by \in S
    BY <1>1
  <2>2. n \in DOMAIN rev[q]
    <3> SUFFICES ASSUME n \notin DOMAIN rev[q] PROVE FALSE
      OBVIOUS
    <3> QED  BY <2>1, RevFacts DEF Added
  <2>3. ~Became(r, q, n)
    <3> SUFFICES ASSUME Became(r, q, n) PROVE FALSE
      OBVIOUS
    <3>1. rev'[q][rev'[q][n].by].by = 0
      BY <2>1 DEF Became
    <3> QED  BY <1>1, <2>1, <3>1
  <2> QED  BY <2>2, <2>3 DEF RevStep
<1>3. S \in SUBSET DOMAIN rev[q] /\ \A n \in S : rev[q][n].by \in S
  BY <1>2
<1> QED  BY <1>3 DEF IInv, ChainsEnd

LEMMA EndApproved ==
  ASSUME IInv, NEW r \in Requests, RevStep(r)
  PROVE  ApprovedAsShown'
<1> SUFFICES ASSUME NEW q \in Quotes \ Printed, NEW n \in DOMAIN rev'[q],
                    Issued(rev'[q][n])
             PROVE  rev'[q][n].text = rev'[q][n].approved
  BY DEF ApprovedAsShown, Issued
<1>1. CASE n \in DOMAIN rev[q]
  <2>1. Issued(rev[q][n]) => rev[q][n].text = rev[q][n].approved
    BY <1>1 DEF IInv, ApprovedAsShown
  <2>2. rev'[q][n] = rev[q][n] \/ Became(r, q, n)
    BY <1>1 DEF RevStep
  <2> QED
    BY <2>1, <2>2 DEF Became, Open, Current, Issued, Awaiting, Voidable
<1>2. CASE n \notin DOMAIN rev[q]
  BY <1>2, RevFacts DEF Added, Open, Issued
<1> QED  BY <1>1, <1>2

LEMMA EndWon ==
  ASSUME IInv, NEW r \in Requests, RevStep(r), CaseStep(r)
  PROVE  WonStands' /\ WonWhere'
<1> SUFFICES ASSUME NEW c \in Cases, case'[c].stage = "won"
             PROVE  LET q == case'[c].won[1]
                        n == case'[c].won[2]
                    IN  /\ q \in Quotes /\ CaseOf[q] = c /\ n \in DOMAIN rev'[q]
                        /\ rev'[q][n].status = "sent" /\ rev'[q][n].by = 0
  BY DEF WonStands, WonWhere
<1> DEFINE q == case'[c].won[1]
           n == case'[c].won[2]
<1>1. CASE case[c].stage = "won"
  <2>1. q = case[c].won[1] /\ n = case[c].won[2]
    BY <1>1 DEF CaseStep
  <2>2. q \in Quotes /\ CaseOf[q] = c /\ n \in DOMAIN rev[q]
    BY <1>1, <2>1 DEF IInv, WonWhere
  <2>3. rev[q][n].status = "sent" /\ rev[q][n].by = 0
    BY <1>1, <2>1 DEF IInv, WonStands
  <2> HIDE DEF q, n
  <2>4. rev'[q][n] = rev[q][n] \/ Became(r, q, n)
    BY <2>2 DEF RevStep
  <2>5. ~Became(r, q, n)
    BY <1>1, <2>2, <2>3 DEF Became, Open, Voidable, Awaiting
  <2>6. n \in DOMAIN rev'[q]
    BY <2>2, RevFacts
  <2>7. rev'[q][n].status = "sent" /\ rev'[q][n].by = 0
    BY <2>3, <2>4, <2>5
  <2> QED  BY <2>2, <2>6, <2>7 DEF q, n
<1>2. CASE case[c].stage # "won"
  <2>1. Won(c)
    BY <1>2 DEF CaseStep
  <2> QED  BY <2>1 DEF Won
<1> QED  BY <1>1, <1>2

LEMMA EndKeeps ==
  ASSUME IInv, NEW r \in Requests, End(r), RevStep(r), CaseStep(r)
  PROVE  IInv'
BY EndTypes, EndLocks, EndSaw, EndSource, EndChecked, EndDrafts, EndOneInForce, EndChains,
   EndApproved, EndWon DEF IInv

-----------------------------------------------------------------------------
(* The other steps *)

LEMMA AskKeeps ==
  ASSUME IInv, NEW r \in Requests, Ask(r)
  PROVE  IInv'
<1>1. /\ pc[r] = "idle" /\ pc' = [pc EXCEPT ![r] = "asked"]
      /\ UNCHANGED <<rev, case, holds>>
  BY DEF Ask, AskOf
<1>2. PICK no \in [Named(r) -> UNION {Offered(r, q) : q \in Named(r)}] :
        /\ \A q \in Named(r) : no[q] \in Offered(r, q)
        /\ saw' = [saw EXCEPT ![r] = [q \in Named(r) |-> Shown(q, no[q])]]
  BY DEF Ask, AskOf
<1>3. /\ saw'[r] = [q \in Named(r) |-> Shown(q, no[q])] /\ DOMAIN saw' = Requests
      /\ \A p \in Requests : p # r => saw'[p] = saw[p] /\ pc'[p] = pc[p]
      /\ pc' \in [Requests -> {"idle", "asked", "done"}]
  BY <1>1, <1>2 DEF IInv, TypeOK
<1>4. holds[r] = {}
  BY <1>1 DEF IInv, LocksOfAsked
<1>5. \A q \in Quotes : rev[q] \in Seq(Revisions) /\ CaseOf[q] \in Cases
  BY QuoteAssumption DEF IInv, TypeOK
<1>6. ASSUME NEW q \in Named(r)
      PROVE  LET s == saw'[r][q] IN
             /\ s \in Sights /\ s.no \in 0..Len(rev[q])
             /\ s.no = 0 => KindOf[r] \in {"revise", "record", "move"}
             /\ s.no # 0 => s.version = rev[q][s.no].version
                              /\ s.text = rev[q][s.no].text
             /\ KindOf[r] = "revise" => s.no = 0
  <2> DEFINE n == no[q]
  <2>1. q \in Quotes /\ CaseOf[q] \in Cases /\ rev[q] \in Seq(Revisions)
    BY <1>5, NamedFacts
  <2>2. n \in Offered(r, q)
    BY <1>2
  <2>3. KindOf[r] \in Kinds
    BY QuoteAssumption
  <2>4. /\ n \in DOMAIN rev[q] \/ n = 0
        /\ n = 0 => KindOf[r] \in {"revise", "record", "move"}
              \/ 0 \in DOMAIN rev[q]
        /\ KindOf[r] = "revise" => n = 0
    <3> HIDE DEF n
    <3> QED  BY <2>2, <2>3 DEF Offered, Kinds
  <2>5. n \in 0..Len(rev[q]) /\ 0 \notin DOMAIN rev[q]
    BY <2>1, <2>4
  <2>6. saw'[r][q] = Shown(q, n)
    BY <1>3
  <2>7. Shown(q, n).no = n /\ (n # 0 => /\ Shown(q, n).version = rev[q][n].version
                                        /\ Shown(q, n).text = rev[q][n].text)
    BY DEF Shown
  <2>8. Shown(q, n) \in Sights
    <3>1. case[CaseOf[q]].stage \in Stages /\ case[CaseOf[q]].version \in Nat
      BY <2>1 DEF IInv, TypeOK
    <3>2. n # 0 => rev[q][n].version \in Nat /\ rev[q][n].text \in Texts
      <4>1. n # 0 => rev[q][n] \in Revisions
        BY <2>1, <2>5
      <4> QED  BY <4>1 DEF Revisions
    <3>3. n \in Nat /\ "none" \in Texts
      BY <2>1, <2>5 DEF Texts
    <3> HIDE DEF n
    <3> QED  BY <3>1, <3>2, <3>3 DEF Shown, Sights
  <2> HIDE DEF n
  <2> QED  BY <2>4, <2>5, <2>6, <2>7, <2>8
<1>7. TypeOK'
  <2>1. \A p \in Requests : saw'[p] \in [Named(p) -> Sights]
    <3> TAKE p \in Requests
    <3>1. CASE p = r
      BY <1>3, <1>6, <3>1
    <3>2. CASE p # r
      BY <1>3, <3>2 DEF IInv, TypeOK
    <3> QED  BY <3>1, <3>2
  <2> QED  BY <1>1, <1>3, <2>1 DEF IInv, TypeOK, Named
<1>8. LocksOfAsked' /\ LocksExclude'
  BY <1>1, <1>3, <1>4
  DEF IInv, LocksOfAsked, LocksExclude, ModeOf, Excludes
<1>9. SawOK'
  <2> SUFFICES ASSUME NEW p \in Requests, pc'[p] = "asked", NEW q \in Named(p)
               PROVE  LET s == saw'[p][q] IN
                      /\ s.no \in 0..Len(rev[q])
                      /\ s.no = 0 => KindOf[p] \in {"revise", "record", "move"}
                      /\ s.no # 0 /\ KindOf[p] # "revise" =>
                           /\ s.version <= rev[q][s.no].version
                           /\ s.version = rev[q][s.no].version =>
                                s.text = rev[q][s.no].text
    BY <1>1 DEF SawOK, Named
  <2>1. CASE p = r
    <3>1. saw'[p][q].no # 0 => saw'[p][q].version \in Nat
      BY <1>6, <2>1 DEF Sights
    <3> QED  BY <1>6, <2>1, <3>1
  <2>2. CASE p # r
    BY <1>3, <2>2 DEF IInv, SawOK
  <2> QED  BY <2>1, <2>2
<1>10. Checked'
  <2> SUFFICES ASSUME NEW p \in Requests, pc'[p] = "asked", NEW q \in Named(p)
               PROVE  RevChecked(p, q)' /\ CaseChecked(p, q)'
                        /\ QuoteChecked(p, q)'
    BY DEF Checked, Named
  <2>1. CASE p = r
    BY <1>1, <1>4, <2>1
    DEF RevChecked, CaseChecked, QuoteChecked, HeldRev, HeldCase, HeldQuote, Held
  <2>2. CASE p # r
    <3>1. RevChecked(p, q) /\ CaseChecked(p, q) /\ QuoteChecked(p, q)
      BY <1>3, <2>2 DEF IInv, Checked
    <3>2. saw'[p] = saw[p]
      BY <1>3, <2>2
    <3> QED
      BY <1>1, <3>1, <3>2
      DEF RevChecked, CaseChecked, QuoteChecked, HeldRev, HeldCase, HeldQuote,
          Held, DraftAsShown, Closed, Some, Voidable, Awaiting, Open
  <2> QED  BY <2>1, <2>2
<1>11. OneInForce' /\ ChainsEnd' /\ ApprovedAsShown' /\ WonStands' /\ Drafts'
         /\ WonWhere'
  BY <1>1 DEF IInv, OneInForce, ChainsEnd, ApprovedAsShown, WonStands, Drafts,
              WonWhere, Current, Issued, Open
<1>12. SourceOK'
  <2> SUFFICES ASSUME NEW p \in Requests, pc'[p] = "asked", NEW q \in Named(p)
               PROVE  SourceOf(p, q)'
    BY DEF SourceOK, Named
  <2>1. CASE p = r
    BY <1>6, <2>1 DEF SourceOf
  <2>2. CASE p # r
    <3>1. SourceOf(p, q) /\ saw'[p] = saw[p]
      BY <1>3, <2>2 DEF IInv, SourceOK
    <3> QED
      BY <1>1, <3>1 DEF SourceOf, SourceStands, HeldQuote, Held, Issued
  <2> QED  BY <2>1, <2>2
<1> QED  BY <1>7, <1>8, <1>9, <1>10, <1>11, <1>12 DEF IInv

\* A lock that is taken next: its type and mode, and «Aprobar» has its case
\* locked before anything else.
LEMMA NextLockIs ==
  ASSUME IInv, NEW r \in Requests, pc[r] = "asked", NEW lock \in NextLocks(r)
  PROVE  /\ lock \in [on : Things, mode : {"share", "update"}]
         /\ ModeOf(r, lock)
         /\ KindOf[r] = "approve" =>
              HeldCase(r, First(r)) \/ lock.on[1] # "revision"
<1> DEFINE q == First(r)
           n == saw[r][q].no
           b == QuotesOf[r][2]
           k == saw[r][b].no
           locks == Locks(r)
<1>1. \/ \E i \in DOMAIN locks :
            /\ lock = locks[i]
            /\ \A j \in DOMAIN locks : ~(i <= j) => Held(r, locks[j])
      \/ \E i \in Then(r) :
            /\ lock = RevLock(q, i)
            /\ \A j \in DOMAIN locks : Held(r, locks[j])
  <2> HIDE DEF locks
  <2> DEFINE missing == {i \in DOMAIN locks : ~Held(r, locks[i])}
  <2>1. CASE missing # {}
    <3>1. lock \in {locks[i] : i \in {i \in missing : \A j \in missing : i <= j}}
      BY <2>1 DEF NextLocks, locks
    <3> QED  BY <3>1
  <2>2. CASE missing = {}
    <3>1. \E i \in Then(r) : lock = RevLock(q, i)
      BY <2>2 DEF NextLocks, locks
    <3> QED  BY <2>2, <3>1
  <2> QED  BY <2>1, <2>2
<1>2. /\ q \in Quotes /\ CaseOf[q] \in Cases /\ n \in Nat /\ q \in Named(r)
      /\ DOMAIN rev[q] \subseteq Nat
  BY CommitFacts
<1>3. Len(QuotesOf[r]) # 1 =>
        b \in Quotes /\ CaseOf[b] \in Cases /\ k \in Nat /\ KindOf[r] = "mail"
  <2> SUFFICES ASSUME Len(QuotesOf[r]) # 1
               PROVE  b \in Quotes /\ CaseOf[b] \in Cases /\ k \in Nat
                        /\ KindOf[r] = "mail"
    OBVIOUS
  <2>1. b \in Named(r) /\ Named(r) \subseteq Quotes
    BY NamedFacts
  <2>2. saw[r][b] \in Sights
    BY <2>1 DEF IInv, TypeOK
  <2> QED  BY <2>1, <2>2, QuoteAssumption, MailAssumption DEF Sights
<1> DEFINE Good(l) ==
             /\ l \in [on : Things, mode : {"share", "update"}]
             /\ ModeOf(r, l)
<1>4. \A i \in Nat : RevLock(q, i) \in [on : Things, mode : {"share", "update"}]
  BY <1>2 DEF RevLock, Things
<1>5. \A i : ModeOf(r, RevLock(q, i)) /\ ModeOf(r, RevLock(b, i))
  BY DEF ModeOf, RevLock
<1>6. /\ CaseLock(q, "share") \in [on : Things, mode : {"share", "update"}]
      /\ CaseLock(q, "update") \in [on : Things, mode : {"share", "update"}]
      /\ QuoteLock(q, "share") \in [on : Things, mode : {"share", "update"}]
      /\ QuoteLock(q, "update") \in [on : Things, mode : {"share", "update"}]
  BY <1>2 DEF CaseLock, QuoteLock, Things
<1>7. /\ KindOf[r] \in {"save", "approve", "record"} =>
           ModeOf(r, CaseLock(q, "share"))
      /\ KindOf[r] \notin {"save", "approve", "record"} =>
           ModeOf(r, CaseLock(q, "update")) /\ ModeOf(r, CaseLock(b, "update"))
      /\ KindOf[r] = "save" => ModeOf(r, QuoteLock(q, "share"))
      /\ KindOf[r] # "save" => ModeOf(r, QuoteLock(q, "update"))
  BY DEF ModeOf, CaseLock, QuoteLock
<1>8. Len(QuotesOf[r]) # 1 =>
        /\ CaseLock(b, "update") \in [on : Things, mode : {"share", "update"}]
        /\ RevLock(b, k) \in [on : Things, mode : {"share", "update"}]
  BY <1>3 DEF CaseLock, RevLock, Things
<1>9. \A i \in Then(r) : Good(RevLock(q, i))
  BY <1>2, <1>4, <1>5 DEF Then, Earlier
<1>10. \A i \in DOMAIN locks : Good(locks[i])
  <2>1. CASE KindOf[r] = "save"
    <3>1. locks = <<CaseLock(q, "share"), QuoteLock(q, "share"), RevLock(q, n)>>
      BY <2>1 DEF Locks
    <3> QED  BY <1>2, <1>4, <1>5, <1>6, <1>7, <2>1, <3>1
  <2>2. CASE KindOf[r] = "approve"
    <3>1. locks = <<CaseLock(q, "share"), QuoteLock(q, "update"), RevLock(q, n)>>
      BY <2>2 DEF Locks, ApproveLocks
    <3> QED  BY <1>2, <1>4, <1>5, <1>6, <1>7, <2>2, <3>1
  <2>3. CASE KindOf[r] = "void"
    <3>1. locks = <<RevLock(q, n)>>
      BY <2>3 DEF Locks
    <3> QED  BY <1>2, <1>4, <1>5, <2>3, <3>1
  <2>4. CASE KindOf[r] = "revise"
    <3>1. locks = <<QuoteLock(q, "update")>>
      BY <2>4 DEF Locks
    <3> QED  BY <1>6, <1>7, <2>4, <3>1
  <2>5. CASE KindOf[r] = "record"
    <3>1. \/ locks = <<CaseLock(q, "share"), QuoteLock(q, "update")>>
          \/ locks = <<CaseLock(q, "share"), QuoteLock(q, "update"),
                       RevLock(q, n)>>
      BY <2>5 DEF Locks
    <3> QED  BY <1>2, <1>4, <1>5, <1>6, <1>7, <2>5, <3>1
  <2>6. CASE KindOf[r] = "choose"
    <3>1. locks = <<CaseLock(q, "update"), QuoteLock(q, "update")>>
      BY <2>6 DEF Locks
    <3> QED  BY <1>6, <1>7, <2>6, <3>1
  <2>7. CASE KindOf[r] = "mail"
    <3>1. CASE Len(QuotesOf[r]) = 1
      <4>1. locks = <<CaseLock(q, "update"), RevLock(q, n)>>
        BY <2>7, <3>1 DEF Locks, MailLocks
      <4> QED  BY <1>2, <1>4, <1>5, <1>6, <1>7, <2>7, <4>1
    <3>2. CASE Len(QuotesOf[r]) # 1
      <4>1. locks = <<CaseLock(q, "update"), RevLock(q, n),
                      RevLock(b, k), CaseLock(b, "update")>>
        BY <2>7, <3>2 DEF Locks, MailLocks
      <4> QED  BY <1>2, <1>4, <1>5, <1>6, <1>7, <1>8, <2>7, <3>2, <4>1
    <3> QED  BY <3>1, <3>2
  <2>8. CASE KindOf[r] \in {"won", "move"}
    <3>1. locks = <<CaseLock(q, "update")>>
      BY <2>8 DEF Locks
    <3> QED  BY <1>6, <1>7, <2>8, <3>1
  <2>9. KindOf[r] \in Kinds
    BY QuoteAssumption
  <2> QED
    BY <2>1, <2>2, <2>3, <2>4, <2>5, <2>6, <2>7, <2>8, <2>9 DEF Kinds
<1>11. Good(lock)
  <2> HIDE DEF locks, Good
  <2> QED  BY <1>1, <1>9, <1>10
<1>12. ASSUME KindOf[r] = "approve"
       PROVE  HeldCase(r, q) \/ lock.on[1] # "revision"
  <2>1. locks = <<CaseLock(q, "share"), QuoteLock(q, "update"), RevLock(q, n)>>
    BY <1>12 DEF Locks, ApproveLocks
  <2> HIDE DEF locks
  <2>2. DOMAIN locks = 1..3
    BY <2>1
  <2>3. locks[1] = CaseLock(q, "share") /\ locks[2] = QuoteLock(q, "update")
    BY <2>1
  <2>4. Held(r, locks[1]) => HeldCase(r, q)
    BY <2>3 DEF Held, HeldCase, CaseLock
  <2>5. locks[1].on[1] = "case" /\ locks[2].on[1] = "quote"
    BY <2>3 DEF CaseLock, QuoteLock
  <2>6. 1 \in 1..3 /\ ~(3 <= 1) /\ \A i \in 1..3 : i = 1 \/ i = 2 \/ i = 3
    OBVIOUS
  <2> QED  BY <1>1, <2>2, <2>4, <2>5, <2>6
<1> QED  BY <1>11, <1>12

LEMMA LockKeeps ==
  ASSUME IInv, NEW r \in Requests, Lock(r)
  PROVE  IInv'
<1>1. pc[r] = "asked" /\ UNCHANGED <<rev, case, pc, saw>>
  BY DEF Lock
<1>2. PICK lock \in NextLocks(r) :
        /\ \A p \in Requests : ~Blocks(p, r, lock)
        /\ Passes(r, lock)
        /\ holds' = [holds EXCEPT ![r] = @ \cup {lock}]
  BY DEF Lock
<1>3. /\ lock \in [on : Things, mode : {"share", "update"}] /\ ModeOf(r, lock)
      /\ KindOf[r] = "approve" =>
           HeldCase(r, First(r)) \/ lock.on[1] # "revision"
  BY <1>1, NextLockIs
<1>4. /\ holds'[r] = holds[r] \cup {lock}
      /\ \A p \in Requests : p # r => holds'[p] = holds[p]
  BY <1>2 DEF IInv, TypeOK
<1>5. TypeOK'
  <2>1. holds' \in [Requests -> SUBSET [on : Things, mode : {"share", "update"}]]
    BY <1>2, <1>3 DEF IInv, TypeOK
  <2> QED  BY <1>1, <2>1 DEF IInv, TypeOK, Named
<1>6. LocksOfAsked'
  BY <1>1, <1>3, <1>4 DEF IInv, LocksOfAsked, ModeOf
<1>7. LocksExclude'
  <2> SUFFICES ASSUME NEW p \in Requests, NEW o \in Requests, p # o,
                      NEW l \in holds'[p], NEW m \in holds'[o]
               PROVE  ~Excludes(l, m)
    BY DEF LocksExclude, Excludes
  <2>1. \A x \in Requests : x # r =>
          \A e \in holds[x] : ~Excludes(e, lock) /\ ~Excludes(lock, e)
    BY <1>2 DEF Blocks, Excludes
  <2> QED  BY <1>4, <2>1 DEF IInv, LocksExclude
<1>8. SawOK' /\ OneInForce' /\ ChainsEnd' /\ ApprovedAsShown' /\ WonStands'
        /\ Drafts' /\ WonWhere'
  BY <1>1 DEF IInv, SawOK, OneInForce, ChainsEnd, ApprovedAsShown, WonStands,
              Drafts, WonWhere, Current, Issued, Open, Named
<1>9. Checked'
  <2> SUFFICES ASSUME NEW p \in Requests, pc[p] = "asked", NEW q \in Named(p)
               PROVE  RevChecked(p, q)' /\ CaseChecked(p, q)'
                        /\ QuoteChecked(p, q)'
    BY <1>1 DEF Checked, Named
  <2> DEFINE n == saw[p][q].no
  <2>1. RevChecked(p, q) /\ CaseChecked(p, q) /\ QuoteChecked(p, q)
    BY DEF IInv, Checked
  <2>2. CASE p # r
    BY <1>1, <1>4, <2>1, <2>2
    DEF RevChecked, CaseChecked, QuoteChecked, HeldRev, HeldCase, HeldQuote,
        Held, DraftAsShown, Closed, Some, Voidable, Awaiting, Open
  <2>3. CASE p = r
    <3>1. /\ HeldCase(r, q)' <=> HeldCase(r, q) \/ lock.on = <<"case", CaseOf[q], 0>>
          /\ HeldQuote(r, q)' <=> HeldQuote(r, q) \/ lock.on = <<"quote", q, 0>>
          /\ HeldRev(r, q, n)' <=> HeldRev(r, q, n)
                                     \/ lock.on = <<"revision", q, n>>
      <4> n' = n
        BY <1>1
      <4> QED  BY <1>4 DEF HeldCase, HeldQuote, HeldRev, Held
    <3>2. /\ lock.on = <<"case", CaseOf[q], 0>> => CasePasses(r, q)
          /\ lock.on = <<"quote", q, 0>> => QuotePasses(r, q)
          /\ lock.on = <<"revision", q, n>> => RevisionPasses(r, q)
      BY <1>2, <2>3 DEF Passes
    <3>3. CaseChecked(r, q)'
      <4> SUFFICES ASSUME HeldCase(r, q) \/ lock.on = <<"case", CaseOf[q], 0>>,
                          KindOf[r] \in {"choose", "won", "record"}
                   PROVE  ~Closed(CaseOf[q])
        BY <1>1, <3>1 DEF CaseChecked, Closed
      <4>1. CASE HeldCase(r, q)
        BY <2>1, <2>3, <4>1 DEF CaseChecked
      <4>2. CASE lock.on = <<"case", CaseOf[q], 0>>
        BY <3>2, <4>2 DEF CasePasses, LiveCase, Closed
      <4> QED  BY <4>1, <4>2
    <3>4. QuoteChecked(r, q)'
      BY <1>1, <2>1, <2>3, <3>1, <3>2
      DEF QuoteChecked, QuotePasses, Some, Open
    <3>5. RevChecked(r, q)'
      <4> SUFFICES ASSUME HeldRev(r, q, n) \/ lock.on = <<"revision", q, n>>,
                          n # 0
                   PROVE  RevChecked(r, q)'
        BY <1>1, <2>3, <3>1 DEF RevChecked
      <4> DEFINE v == rev[q][n]
      <4>1. /\ KindOf[r] = "save"    => DraftAsShown(r, q)
            /\ KindOf[r] = "approve" => DraftAsShown(r, q) /\ ~Closed(CaseOf[q])
            /\ KindOf[r] = "void"    => Voidable(v)
            /\ KindOf[r] = "mail"    => Awaiting(v)
            /\ KindOf[r] = "record"  => v.status = "sent" /\ v.by = 0
        <5>1. CASE HeldRev(r, q, n)
          BY <2>1, <2>3, <5>1 DEF RevChecked
        <5>2. CASE lock.on = <<"revision", q, n>>
          BY <2>3, <3>2, <5>2 DEF RevisionPasses
        <5> QED  BY <5>1, <5>2
      <4>2. KindOf[r] = "approve" => HeldCase(r, q)
        <5> SUFFICES ASSUME KindOf[r] = "approve" PROVE HeldCase(r, q)
          OBVIOUS
        <5>1. CASE HeldRev(r, q, n)
          BY <2>1, <2>3, <5>1 DEF RevChecked
        <5>2. CASE lock.on = <<"revision", q, n>>
          <6>1. q = First(r)
            BY <2>3, NamedFacts
          <6>2. lock.on[1] = "revision"
            BY <5>2
          <6> QED  BY <1>3, <6>1, <6>2
        <5> QED  BY <5>1, <5>2
      <4>3. HeldCase(r, q) => HeldCase(r, q)'
        BY <3>1
      <4>4. /\ DraftAsShown(r, q)' <=> DraftAsShown(r, q)
            /\ Closed(CaseOf[q])' <=> Closed(CaseOf[q])
        BY <1>1 DEF DraftAsShown, Open, Closed
      <4>5. KindOf[r] = "approve" =>
              /\ DraftAsShown(r, q)' /\ ~Closed(CaseOf[q])' /\ HeldCase(r, q)'
        BY <4>1, <4>2, <4>3, <4>4
      <4>6. KindOf[r] = "save" => DraftAsShown(r, q)'
        BY <4>1, <4>4
      <4>7. saw'[r] = saw[r]
        BY <1>1
      <4>8. /\ KindOf[r] = "void" => Voidable(rev'[q][n])
            /\ KindOf[r] = "mail" => Awaiting(rev'[q][n])
            /\ KindOf[r] = "record" =>
                 rev'[q][n].status = "sent" /\ rev'[q][n].by = 0
        BY <1>1, <4>1 DEF Voidable, Awaiting
      <4> QED
        BY <2>3, <4>5, <4>6, <4>7, <4>8 DEF RevChecked, Voidable, Awaiting
    <3> QED  BY <2>3, <3>3, <3>4, <3>5
  <2> QED  BY <2>2, <2>3
<1>10. SourceOK'
  <2> SUFFICES ASSUME NEW p \in Requests, pc[p] = "asked", NEW q \in Named(p)
               PROVE  SourceOf(p, q)'
    BY <1>1 DEF SourceOK, Named
  <2>1. SourceOf(p, q) /\ holds[p] \subseteq holds'[p]
    BY <1>4 DEF IInv, SourceOK
  <2> QED
    BY <1>1, <2>1 DEF SourceOf, SourceStands, HeldQuote, Held, Issued
<1> QED  BY <1>5, <1>6, <1>7, <1>8, <1>9, <1>10 DEF IInv

\* A revise finds its source under the quote's lock.
LEMMA FindKeeps ==
  ASSUME IInv, NEW r \in Requests, Find(r)
  PROVE  IInv'
<1> DEFINE q == First(r)
<1>1. /\ HoldsAll(r) /\ pc[r] = "asked" /\ KindOf[r] = "revise"
      /\ saw[r][q].no = 0 /\ UNCHANGED <<rev, case, pc, holds>>
  BY DEF Find, FindSource
<1>2. PICK n \in Newest(q) : saw' = [saw EXCEPT ![r][q].no = n]
  BY DEF Find, FindSource
<1>3. Named(r) = {q} /\ q \in Quotes
  BY <1>1, NamedFacts
<1>4. /\ n \in DOMAIN rev[q] /\ Issued(rev[q][n])
      /\ \A i \in DOMAIN rev[q] : Issued(rev[q][i]) => i <= n
  BY DEF Newest
<1>5. DOMAIN rev[q] = 1..Len(rev[q]) /\ Len(rev[q]) \in Nat
  BY <1>3 DEF IInv, TypeOK
<1>6. /\ DOMAIN saw' = Requests /\ \A p \in Requests : p # r => saw'[p] = saw[p]
      /\ saw[r] \in [{q} -> Sights]
      /\ saw'[r] = [saw[r] EXCEPT ![q].no = n]
  BY <1>2, <1>3 DEF IInv, TypeOK
<1>7. saw'[r] \in [{q} -> Sights] /\ saw'[r][q].no = n
  BY <1>4, <1>5, <1>6 DEF Sights
<1> HIDE DEF q
<1>8. TypeOK'
  <2>1. \A p \in Requests : saw'[p] \in [Named(p) -> Sights]
    BY <1>3, <1>6, <1>7 DEF IInv, TypeOK
  <2> QED  BY <1>1, <1>6, <2>1 DEF IInv, TypeOK, Named
<1>9. /\ LocksOfAsked' /\ LocksExclude' /\ OneInForce' /\ ChainsEnd'
      /\ ApprovedAsShown' /\ WonStands' /\ Drafts' /\ WonWhere'
  BY <1>1
  DEF IInv, LocksOfAsked, LocksExclude, ModeOf, Excludes, OneInForce, ChainsEnd,
      ApprovedAsShown, WonStands, Drafts, WonWhere, Current, Issued, Open
<1>10. SawOK'
  <2> SUFFICES ASSUME NEW p \in Requests, pc[p] = "asked", NEW a \in Named(p)
               PROVE  LET s == saw'[p][a] IN
                      /\ s.no \in 0..Len(rev[a])
                      /\ s.no = 0 => KindOf[p] \in {"revise", "record", "move"}
                      /\ s.no # 0 /\ KindOf[p] # "revise" =>
                           /\ s.version <= rev[a][s.no].version
                           /\ s.version = rev[a][s.no].version =>
                                s.text = rev[a][s.no].text
    BY <1>1 DEF SawOK, Named
  <2>1. CASE p = r
    BY <1>1, <1>3, <1>4, <1>5, <1>7, <2>1
  <2>2. CASE p # r
    BY <1>6, <2>2 DEF IInv, SawOK
  <2> QED  BY <2>1, <2>2
<1>11. SourceOK'
  <2> SUFFICES ASSUME NEW p \in Requests, pc[p] = "asked", NEW a \in Named(p)
               PROVE  SourceOf(p, a)'
    BY <1>1 DEF SourceOK, Named
  <2>1. CASE p = r
    <3>1. HeldQuote(r, q)' /\ a = q
      BY <1>1, <1>3, <2>1, LocksHeld DEF q, HeldQuote, Held
    <3>2. SourceStands(r, q)'
      BY <1>1, <1>4, <1>7 DEF SourceStands, Issued
    <3> QED  BY <2>1, <3>1, <3>2 DEF SourceOf
  <2>2. CASE p # r
    <3>1. SourceOf(p, a) /\ saw'[p] = saw[p]
      BY <1>6, <2>2 DEF IInv, SourceOK
    <3> QED
      BY <1>1, <3>1 DEF SourceOf, SourceStands, HeldQuote, Held, Issued
  <2> QED  BY <2>1, <2>2
<1>12. Checked'
  <2> SUFFICES ASSUME NEW p \in Requests, pc[p] = "asked", NEW a \in Named(p)
               PROVE  RevChecked(p, a)' /\ CaseChecked(p, a)'
                        /\ QuoteChecked(p, a)'
    BY <1>1 DEF Checked, Named
  <2>1. RevChecked(p, a) /\ CaseChecked(p, a) /\ QuoteChecked(p, a)
    BY DEF IInv, Checked
  <2>2. CASE p = r
    BY <1>1, <2>1, <2>2
    DEF RevChecked, CaseChecked, QuoteChecked, HeldCase, HeldQuote, Held, Some,
        Open
  <2>3. CASE p # r
    <3>1. saw'[p] = saw[p]
      BY <1>6, <2>3
    <3> QED
      BY <1>1, <2>1, <3>1
      DEF RevChecked, CaseChecked, QuoteChecked, HeldRev, HeldCase, HeldQuote,
          Held, DraftAsShown, Closed, Some, Voidable, Awaiting, Open
  <2> QED  BY <2>2, <2>3
<1> QED  BY <1>8, <1>9, <1>10, <1>11, <1>12 DEF IInv

LEMMA InitHolds ==
  ASSUME Init
  PROVE  IInv
<1>1. /\ rev = StartRev /\ rev \in [Quotes -> Seq(Revisions)]
      /\ case = [c \in Cases |-> [stage |-> StartStage[c], version |-> 1,
                                  won |-> <<>>]]
      /\ holds = [r \in Requests |-> {}]
      /\ pc \in [Requests -> {"idle", "asked", "done"}]
      /\ \A r \in Requests : pc[r] # "asked"
      /\ saw = [r \in Requests |-> [q \in Named(r) |-> Nothing]]
  BY StartAssumption DEF Init, BookInit
<1>2. \A q \in Quotes : \A n \in DOMAIN rev[q] :
        LET v == rev[q][n] IN
        /\ v.by = 0
        /\ Open(v) => n = Len(rev[q])
        /\ q \in Printed => v.status = "sent"
        /\ q \notin Printed /\ Issued(v) =>
             /\ v.text = v.approved
             /\ \A m \in DOMAIN rev[q] : Issued(rev[q][m]) => m = n
  BY <1>1, StartAssumption
<1>3. \A c \in Cases : case[c].stage # "won" /\ case[c].won = <<>>
                         /\ case[c] \in CaseRows
  BY <1>1, QuoteAssumption DEF CaseRows
<1>4. TypeOK
  <2>1. Nothing \in Sights
    BY DEF Nothing, Sights, Texts
  <2>2. \A r \in Requests : saw[r] \in [Named(r) -> Sights]
    <3> TAKE r \in Requests
    <3>1. saw[r] = [q \in Named(r) |-> Nothing]
      BY <1>1
    <3> QED  BY <2>1, <3>1
  <2>3. case \in [Cases -> CaseRows]
    BY <1>1, <1>3
  <2>4. DOMAIN saw = Requests
    BY <1>1
  <2>5. holds \in [Requests -> SUBSET [on : Things, mode : {"share", "update"}]]
    BY <1>1
  <2>6. \A c \in Cases : case[c].won # <<>> <=> case[c].stage = "won"
    BY <1>3
  <2> QED  BY <1>1, <2>2, <2>3, <2>4, <2>5, <2>6 DEF TypeOK, CaseRows
<1>5. OneInForce
  BY <1>2 DEF OneInForce, Current
<1>6. ChainsEnd
  <2> SUFFICES ASSUME NEW q \in Quotes, NEW S \in SUBSET DOMAIN rev[q], S # {},
                      \A n \in S : rev[q][n].by \in S
               PROVE  FALSE
    BY DEF ChainsEnd
  <2>1. DOMAIN rev[q] = 1..Len(rev[q])
    BY <1>1
  <2> QED  BY <1>2, <2>1
<1>7. ApprovedAsShown
  BY <1>2 DEF ApprovedAsShown
<1>8. WonStands /\ WonWhere
  BY <1>3 DEF WonStands, WonWhere
<1>9. LocksOfAsked /\ LocksExclude /\ SawOK /\ SourceOK /\ Checked
  BY <1>1 DEF LocksOfAsked, LocksExclude, SawOK, SourceOK, Checked
<1>10. Drafts
  BY <1>2 DEF Drafts
<1> QED
  BY <1>4, <1>5, <1>6, <1>7, <1>8, <1>9, <1>10 DEF IInv

LEMMA NextKeeps ==
  ASSUME IInv, [Next]_vars
  PROVE  IInv'
<1>1. ASSUME NEW r \in Requests, Ask(r) PROVE IInv'
  BY <1>1, AskKeeps
<1>2. ASSUME NEW r \in Requests, Lock(r) PROVE IInv'
  BY <1>2, LockKeeps
<1>3. ASSUME NEW r \in Requests, Commit(r) PROVE IInv'
  <2>1. RevStep(r) /\ CaseStep(r) /\ End(r)
    BY <1>3, CommitStep DEF Commit
  <2> QED  BY <2>1, EndKeeps
<1>4. ASSUME NEW r \in Requests, Rollback(r) PROVE IInv'
  <2>1. End(r) /\ UNCHANGED <<rev, case>>
    BY <1>4 DEF Rollback
  <2>2. CaseType /\ rev \in [Quotes -> Seq(Revisions)]
    BY DEF IInv, TypeOK, CaseType, CaseRows
  <2>3. RevStep(r) /\ CaseStep(r)
    BY <2>1, <2>2, SameRevs, SameCases
  <2> QED  BY <2>1, <2>3, EndKeeps
<1>5. ASSUME UNCHANGED vars PROVE IInv'
  <2> USE <1>5 DEF vars
  <2>1. TypeOK' /\ OneInForce' /\ ChainsEnd' /\ ApprovedAsShown' /\ WonStands'
    BY DEF IInv, TypeOK, OneInForce, ChainsEnd, ApprovedAsShown, WonStands,
           Current, Issued
  <2>2. LocksOfAsked' /\ LocksExclude' /\ SawOK' /\ Drafts' /\ WonWhere'
    BY DEF IInv, LocksOfAsked, LocksExclude, SawOK, Drafts, WonWhere, Open
  <2>4. SourceOK'
    BY DEF IInv, SourceOK, SourceOf, SourceStands, HeldQuote, Held, Issued
  <2>3. Checked'
    <3> SUFFICES ASSUME NEW p \in Requests, pc[p] = "asked", NEW q \in Named(p)
                 PROVE  RevChecked(p, q)' /\ CaseChecked(p, q)'
                          /\ QuoteChecked(p, q)'
      BY DEF Checked, Named
    <3>1. RevChecked(p, q) /\ CaseChecked(p, q) /\ QuoteChecked(p, q)
      BY DEF IInv, Checked
    <3> QED
      BY <3>1
      DEF RevChecked, CaseChecked, QuoteChecked, HeldRev, HeldCase, HeldQuote,
          Held, DraftAsShown, Closed, Some, Voidable, Awaiting, Open
  <2> QED  BY <2>1, <2>2, <2>3, <2>4 DEF IInv
<1>6. ASSUME NEW r \in Requests, Find(r) PROVE IInv'
  BY <1>6, FindKeeps
<1> QED  BY <1>1, <1>2, <1>3, <1>4, <1>5, <1>6 DEF Next

-----------------------------------------------------------------------------
(* Who waits for whom *)

\* What a request about one quote holds or takes next is in one order: the
\* case, the quote, its revisions.
InOrder(r, l) ==
  LET q == First(r)
      kind == KindOf[r]
  IN
  \/ l.on = <<"case", CaseOf[q], 0>> /\ kind \notin {"void", "revise"}
  \/ /\ l.on = <<"quote", q, 0>>
     /\ kind \in {"save", "approve", "record", "choose", "revise"}
     /\ kind # "revise" => HeldCase(r, q)
  \/ /\ l.on = <<"revision", q, saw[r][q].no>>
     /\ kind \in {"save", "approve", "record", "void", "mail"}
     /\ kind # "void" => HeldCase(r, q)
     /\ kind \in {"save", "approve", "record"} => HeldQuote(r, q)
  \/ /\ \E n \in Nat : l.on = <<"revision", q, n>>
     /\ kind \in {"approve", "choose"} /\ HeldCase(r, q) /\ HeldQuote(r, q)

OneQuoted(r) == Len(QuotesOf[r]) = 1
Orderly(r) == OneQuoted(r) => \A l \in holds[r] : InOrder(r, l)
OrderInv == \A r \in Requests : Orderly(r)

LEMMA NextLockPlace ==
  ASSUME NEW r, NEW lock \in NextLocks(r)
  PROVE  /\ ~Held(r, lock)
         /\ \/ \E i \in DOMAIN Locks(r) :
                 /\ lock = Locks(r)[i]
                 /\ \A j \in DOMAIN Locks(r) : ~(i <= j) => Held(r, Locks(r)[j])
            \/ \E i \in Then(r) :
                 /\ lock = RevLock(First(r), i)
                 /\ \A j \in DOMAIN Locks(r) : Held(r, Locks(r)[j])
<1> DEFINE locks == Locks(r)
           missing == {i \in DOMAIN locks : ~Held(r, locks[i])}
           later == {i \in Then(r) : ~Held(r, RevLock(First(r), i))}
<1> HIDE DEF locks
<1>1. CASE missing # {}
  <2>1. lock \in {locks[i] : i \in {i \in missing : \A j \in missing : i <= j}}
    BY <1>1 DEF NextLocks, locks
  <2> QED  BY <2>1 DEF locks
<1>2. CASE missing = {}
  <2>1. \E i \in later : lock = RevLock(First(r), i)
    BY <1>2 DEF NextLocks, locks
  <2> QED  BY <1>2, <2>1 DEF locks
<1> QED  BY <1>1, <1>2

LEMMA NextInOrder ==
  ASSUME IInv, NEW r \in Requests, pc[r] = "asked", OneQuoted(r),
         NEW lock \in NextLocks(r)
  PROVE  InOrder(r, lock)
<1> DEFINE q == First(r)
           n == saw[r][q].no
           kind == KindOf[r]
           locks == Locks(r)
<1>1. \A mode : /\ Held(r, CaseLock(q, mode)) <=> HeldCase(r, q)
                /\ Held(r, QuoteLock(q, mode)) <=> HeldQuote(r, q)
  BY DEF Held, HeldCase, HeldQuote, CaseLock, QuoteLock
<1>2. \A mode : kind \notin {"void", "revise"} => InOrder(r, CaseLock(q, mode))
  BY DEF InOrder, CaseLock
<1>3. \A mode : /\ kind \in {"save", "approve", "record", "choose", "revise"}
                /\ kind # "revise" => HeldCase(r, q)
                => InOrder(r, QuoteLock(q, mode))
  BY DEF InOrder, QuoteLock
<1>4. /\ kind \in {"save", "approve", "record", "void", "mail"}
      /\ kind # "void" => HeldCase(r, q)
      /\ kind \in {"save", "approve", "record"} => HeldQuote(r, q)
      => InOrder(r, RevLock(q, n))
  BY DEF InOrder, RevLock
<1>5. \A i \in Nat :
        kind \in {"approve", "choose"} /\ HeldCase(r, q) /\ HeldQuote(r, q)
          => InOrder(r, RevLock(q, i))
  BY DEF InOrder, RevLock
<1>6. Then(r) # {} => kind \in {"approve", "choose"}
  BY DEF Then
<1>7. Then(r) \subseteq Nat
  BY CommitFacts DEF Then, Earlier
<1>8. \/ \E i \in DOMAIN locks :
            /\ lock = locks[i]
            /\ \A j \in DOMAIN locks : ~(i <= j) => Held(r, locks[j])
      \/ \E i \in Then(r) :
            /\ lock = RevLock(q, i)
            /\ \A j \in DOMAIN locks : Held(r, locks[j])
  BY NextLockPlace
<1> HIDE DEF q, n, locks
<1>9. CASE kind = "save"
  <2>1. locks = <<CaseLock(q, "share"), QuoteLock(q, "share"), RevLock(q, n)>>
    BY <1>9 DEF Locks, locks, q, n
  <2> QED  BY <1>1, <1>2, <1>3, <1>4, <1>6, <1>8, <1>9, <2>1
<1>10. CASE kind = "approve"
  <2>1. locks = <<CaseLock(q, "share"), QuoteLock(q, "update"), RevLock(q, n)>>
    BY <1>10 DEF Locks, ApproveLocks, locks, q, n
  <2> QED  BY <1>1, <1>2, <1>3, <1>4, <1>5, <1>7, <1>8, <1>10, <2>1
<1>11. CASE kind = "void"
  <2>1. locks = <<RevLock(q, n)>>
    BY <1>11 DEF Locks, locks, q, n
  <2> QED  BY <1>4, <1>6, <1>8, <1>11, <2>1
<1>12. CASE kind = "revise"
  <2>1. locks = <<QuoteLock(q, "update")>>
    BY <1>12 DEF Locks, locks, q, n
  <2> QED  BY <1>3, <1>6, <1>8, <1>12, <2>1
<1>13. CASE kind = "record"
  <2>1. \/ locks = <<CaseLock(q, "share"), QuoteLock(q, "update")>>
        \/ locks = <<CaseLock(q, "share"), QuoteLock(q, "update"),
                     RevLock(q, n)>>
    BY <1>13 DEF Locks, locks, q, n
  <2> QED  BY <1>1, <1>2, <1>3, <1>4, <1>6, <1>8, <1>13, <2>1
<1>14. CASE kind = "choose"
  <2>1. locks = <<CaseLock(q, "update"), QuoteLock(q, "update")>>
    BY <1>14 DEF Locks, locks, q, n
  <2> QED  BY <1>1, <1>2, <1>3, <1>5, <1>7, <1>8, <1>14, <2>1
<1>15. CASE kind = "mail"
  <2>1. locks = <<CaseLock(q, "update"), RevLock(q, n)>>
    BY <1>15 DEF Locks, MailLocks, OneQuoted, locks, q, n
  <2> QED  BY <1>1, <1>2, <1>4, <1>6, <1>8, <1>15, <2>1
<1>16. CASE kind \in {"won", "move"}
  <2>1. locks = <<CaseLock(q, "update")>>
    BY <1>16 DEF Locks, locks, q, n
  <2> QED  BY <1>2, <1>6, <1>8, <1>16, <2>1
<1>17. kind \in Kinds
  BY QuoteAssumption
<1> QED
  BY <1>9, <1>10, <1>11, <1>12, <1>13, <1>14, <1>15, <1>16, <1>17 DEF Kinds

\* A lock held stays in its place while the request holds what it held.
LEMMA StaysInOrder ==
  ASSUME NEW r, saw'[r] = saw[r], holds[r] \subseteq holds'[r],
         NEW l, InOrder(r, l)
  PROVE  InOrder(r, l)'
<1>1. /\ HeldCase(r, First(r)) => HeldCase(r, First(r))'
      /\ HeldQuote(r, First(r)) => HeldQuote(r, First(r))'
  BY DEF HeldCase, HeldQuote, Held, First
<1> QED  BY <1>1 DEF InOrder, First

LEMMA OrderKept ==
  ASSUME IInv, OrderInv, [Next]_vars
  PROVE  OrderInv'
<1> SUFFICES ASSUME NEW r \in Requests PROVE Orderly(r)'
  BY DEF OrderInv
<1>1. Orderly(r)
  BY DEF OrderInv
<1>2. CASE holds'[r] = {}
  BY <1>2 DEF Orderly
<1>3. CASE holds'[r] = holds[r] /\ saw'[r] = saw[r]
  BY <1>1, <1>3, StaysInOrder DEF Orderly, OneQuoted
<1>4. ASSUME NEW p \in Requests, Ask(p) PROVE Orderly(r)'
  <2>1. CASE p = r
    <3>1. holds'[r] = {}
      BY <1>4, <2>1 DEF Ask, AskOf, IInv, LocksOfAsked
    <3> QED  BY <1>2, <3>1
  <2>2. CASE p # r
    <3>1. holds'[r] = holds[r] /\ saw'[r] = saw[r]
      BY <1>4, <2>2 DEF Ask, AskOf, IInv, TypeOK
    <3> QED  BY <1>3, <3>1
  <2> QED  BY <2>1, <2>2
<1>5. ASSUME NEW p \in Requests, Lock(p) PROVE Orderly(r)'
  <2>1. CASE p = r
    <3>1. PICK lock \in NextLocks(r) :
            holds' = [holds EXCEPT ![r] = @ \cup {lock}]
      BY <1>5, <2>1 DEF Lock
    <3>2. holds'[r] = holds[r] \cup {lock} /\ saw'[r] = saw[r]
            /\ pc[r] = "asked"
      BY <1>5, <2>1, <3>1 DEF Lock, IInv, TypeOK
    <3>3. OneQuoted(r) => InOrder(r, lock)
      BY <3>2, NextInOrder
    <3>4. OneQuoted(r) => InOrder(r, lock)'
      BY <3>2, <3>3, StaysInOrder
    <3>5. OneQuoted(r) => \A l \in holds[r] : InOrder(r, l)'
      BY <1>1, <3>2, StaysInOrder DEF Orderly
    <3> QED  BY <3>2, <3>4, <3>5 DEF Orderly, OneQuoted
  <2>2. CASE p # r
    <3>1. holds'[r] = holds[r] /\ saw'[r] = saw[r]
      BY <1>5, <2>2 DEF Lock, IInv, TypeOK
    <3> QED  BY <1>3, <3>1
  <2> QED  BY <2>1, <2>2
<1>6. ASSUME NEW p \in Requests, End(p) PROVE Orderly(r)'
  <2>1. CASE p = r
    <3>1. holds'[r] = {}
      BY <1>6, <2>1 DEF End, EndOf, IInv, TypeOK
    <3> QED  BY <1>2, <3>1
  <2>2. CASE p # r
    <3>1. holds'[r] = holds[r] /\ saw'[r] = saw[r]
      BY <1>6, <2>2 DEF End, EndOf, IInv, TypeOK
    <3> QED  BY <1>3, <3>1
  <2> QED  BY <2>1, <2>2
<1>7. ASSUME UNCHANGED vars PROVE Orderly(r)'
  BY <1>3, <1>7 DEF vars
<1>8. ASSUME NEW p \in Requests, Find(p) PROVE Orderly(r)'
  <2>1. holds' = holds
    BY <1>8 DEF Find
  <2>2. CASE p = r
    <3>1. KindOf[r] = "revise"
      BY <1>8, <2>2 DEF Find, FindSource
    <3>2. \A l : InOrder(r, l) => InOrder(r, l)'
      BY <3>1 DEF InOrder, First
    <3> QED  BY <1>1, <2>1, <3>2 DEF Orderly, OneQuoted
  <2>3. CASE p # r
    <3>1. saw'[r] = saw[r]
      BY <1>8, <2>3 DEF Find, FindSource, IInv, TypeOK
    <3> QED  BY <1>3, <2>1, <3>1
  <2> QED  BY <2>2, <2>3
<1> QED  BY <1>4, <1>5, <1>6, <1>7, <1>8 DEF Next, Commit, Rollback

\* Who holds a revision, itself waiting, is an approval or a choice that wants
\* another revision; and who waits for it holds neither the case nor the quote.
LEMMA RevisionWait ==
  ASSUME IInv, OrderInv, NEW r \in Requests, NEW p \in Requests, p # r,
         OneQuoted(r), OneQuoted(p), pc[r] = "asked", pc[p] = "asked",
         NEW lock \in NextLocks(r), lock.on[1] = "revision",
         NEW l \in holds[p], Excludes(l, lock), NEW next \in NextLocks(p)
  PROVE  /\ KindOf[r] = "void" /\ KindOf[p] # "void"
         /\ next.on[1] = "revision"
<1> DEFINE q == First(r)
<1>1. InOrder(r, lock) /\ InOrder(p, l) /\ InOrder(p, next) /\ ~Held(p, next)
  BY NextInOrder, NextLockPlace DEF OrderInv, Orderly
<1>2. l.on = lock.on /\ Held(p, l)
  BY DEF Excludes, Held
<1>3. lock.on[2] = q /\ First(p) = q
  BY <1>1, <1>2 DEF InOrder
<1>4. /\ next.on = <<"case", CaseOf[q], 0>> => ~HeldCase(p, q)
      /\ next.on = <<"quote", q, 0>> => ~HeldQuote(p, q)
      /\ next.on # l.on
  BY <1>1, <1>2 DEF Held, HeldCase, HeldQuote
<1>5. /\ KindOf[p] \in {"approve", "choose"}
      /\ HeldCase(p, q) /\ HeldQuote(p, q) /\ next.on[1] = "revision"
  BY <1>1, <1>2, <1>3, <1>4 DEF InOrder
<1>6. ~HeldQuote(r, q)
  <2> SUFFICES ASSUME HeldQuote(r, q) PROVE FALSE
    OBVIOUS
  <2>1. PICK a \in holds[p] : a.on = <<"quote", q, 0>>
    BY <1>5 DEF HeldQuote, Held
  <2>2. PICK b \in holds[r] : b.on = <<"quote", q, 0>>
    BY DEF HeldQuote, Held
  <2>3. a.mode = "update" /\ b.mode \in {"share", "update"}
    BY <1>5, <2>1, <2>2 DEF IInv, LocksOfAsked, ModeOf
  <2>4. Excludes(b, a)
    BY <2>1, <2>2, <2>3 DEF Excludes
  <2> QED  BY <2>4 DEF IInv, LocksExclude
<1>7. KindOf[r] = "mail" => ~HeldCase(r, q)
  <2> SUFFICES ASSUME KindOf[r] = "mail", HeldCase(r, q) PROVE FALSE
    OBVIOUS
  <2>1. PICK a \in holds[p] : a.on = <<"case", CaseOf[q], 0>>
    BY <1>5 DEF HeldCase, Held
  <2>2. PICK b \in holds[r] : b.on = <<"case", CaseOf[q], 0>>
    BY DEF HeldCase, Held
  <2>3. b.mode = "update" /\ a.mode \in {"share", "update"}
    BY <2>1, <2>2 DEF IInv, LocksOfAsked, ModeOf
  <2>4. Excludes(b, a)
    BY <2>1, <2>2, <2>3 DEF Excludes
  <2> QED  BY <2>4 DEF IInv, LocksExclude
<1> QED  BY <1>1, <1>5, <1>6, <1>7 DEF InOrder

\* Who holds a quote or a case, itself waiting, wants what comes later.
LEMMA LaterWait ==
  ASSUME IInv, OrderInv, NEW p \in Requests, OneQuoted(p), pc[p] = "asked",
         NEW l \in holds[p], NEW next \in NextLocks(p)
  PROVE  /\ l.on[1] = "quote" => next.on[1] = "revision"
         /\ l.on[1] = "case" => next.on[1] \in {"quote", "revision"}
<1> DEFINE q == First(p)
<1>1. InOrder(p, l) /\ InOrder(p, next) /\ ~Held(p, next) /\ Held(p, l)
  BY NextInOrder, NextLockPlace DEF OrderInv, Orderly, Held
<1>2. /\ next.on = <<"case", CaseOf[q], 0>> => ~HeldCase(p, q)
      /\ next.on # l.on
  BY <1>1 DEF Held, HeldCase
<1> QED  BY <1>1, <1>2 DEF InOrder

LEMMA NoCircleOfOneCase ==
  ASSUME IInv, OrderInv
  PROVE  CirclesNeedTwoCases
<1> SUFFICES ASSUME NEW S \in SUBSET Requests, Circle(S),
                    \A r \in S : OneQuoted(r)
             PROVE  FALSE
  BY MailAssumption DEF CirclesNeedTwoCases, OneQuoted
<1> DEFINE Wait(r, p, lock, l) ==
             p # r /\ lock \in NextLocks(r) /\ l \in holds[p] /\ Excludes(l, lock)
<1>1. \A r \in S : pc[r] = "asked"
                     /\ \E p \in S : \E lock \in NextLocks(r) :
                          \E l \in holds[p] : Wait(r, p, lock, l)
  BY DEF Circle, WaitsFor, Blocks
<1>2. ASSUME NEW r \in S, NEW p \in S, NEW lock, NEW l, Wait(r, p, lock, l)
      PROVE  lock.on[1] # "revision"
  <2> SUFFICES ASSUME lock.on[1] = "revision" PROVE FALSE
    OBVIOUS
  <2>1. PICK o \in S : \E next \in NextLocks(p) :
          \E m \in holds[o] : Wait(p, o, next, m)
    BY <1>1
  <2>2. PICK next \in NextLocks(p) : \E m \in holds[o] : Wait(p, o, next, m)
    BY <2>1
  <2>3. PICK m \in holds[o] : Wait(p, o, next, m)
    BY <2>2
  <2>4. PICK last \in NextLocks(o) : TRUE
    BY <1>1
  <2>5. KindOf[p] # "void" /\ next.on[1] = "revision"
    BY <1>1, <1>2, RevisionWait
  <2>6. KindOf[p] = "void"
    BY <1>1, <2>3, <2>4, <2>5, RevisionWait
  <2> QED  BY <2>5, <2>6
<1>3. ASSUME NEW r \in S, NEW p \in S, NEW lock, NEW l, Wait(r, p, lock, l)
      PROVE  lock.on[1] # "quote"
  <2> SUFFICES ASSUME lock.on[1] = "quote" PROVE FALSE
    OBVIOUS
  <2>1. PICK o \in S : \E next \in NextLocks(p) :
          \E m \in holds[o] : Wait(p, o, next, m)
    BY <1>1
  <2>2. PICK next \in NextLocks(p) : \E m \in holds[o] : Wait(p, o, next, m)
    BY <2>1
  <2>3. next.on[1] # "revision"
    BY <1>2, <2>2
  <2>4. l.on[1] = "quote"
    BY <1>3 DEF Excludes
  <2> QED  BY <1>1, <1>3, <2>2, <2>3, <2>4, LaterWait
<1>4. PICK r \in S : TRUE
  BY DEF Circle
<1>5. PICK p \in S : \E lock \in NextLocks(r) :
        \E l \in holds[p] : Wait(r, p, lock, l)
  BY <1>1
<1>6. PICK lock \in NextLocks(r) : \E l \in holds[p] : Wait(r, p, lock, l)
  BY <1>5
<1>7. PICK l \in holds[p] : Wait(r, p, lock, l)
  BY <1>6
<1>8. PICK o \in S : \E next \in NextLocks(p) :
        \E m \in holds[o] : Wait(p, o, next, m)
  BY <1>1
<1>9. PICK next \in NextLocks(p) : \E m \in holds[o] : Wait(p, o, next, m)
  BY <1>8
<1>10. lock.on[1] = "case" /\ next.on[1] = "case"
  <2>1. InOrder(r, lock) /\ InOrder(p, next)
    BY <1>1, NextInOrder
  <2>2. /\ lock.on[1] \in {"case", "quote", "revision"}
        /\ next.on[1] \in {"case", "quote", "revision"}
    BY <2>1 DEF InOrder
  <2> QED  BY <1>2, <1>3, <1>7, <1>9, <2>2
<1>11. l.on[1] = "case"
  BY <1>7, <1>10 DEF Excludes
<1> QED  BY <1>1, <1>10, <1>11, LaterWait

-----------------------------------------------------------------------------
(* A command acts as if alone *)

\* What the handler checked of a case or a revision it holds is still so.
Permitted(r) ==
  pc[r] = "asked" =>
    \A q \in Named(r) :
      /\ HeldCase(r, q) => CasePasses(r, q)
      /\ HeldRev(r, q, saw[r][q].no) /\ saw[r][q].no # 0 => RevisionPasses(r, q)
PermitInv == \A r \in Requests : Permitted(r)

LEMMA PassesStill ==
  ASSUME NEW r, NEW q, saw'[r] = saw[r]
  PROVE  /\ case'[CaseOf[q]] = case[CaseOf[q]] /\ CasePasses(r, q)
              => CasePasses(r, q)'
         /\ /\ rev'[q][saw[r][q].no] = rev[q][saw[r][q].no]
            /\ KindOf[r] = "approve" => case'[CaseOf[q]] = case[CaseOf[q]]
            /\ RevisionPasses(r, q)
            => RevisionPasses(r, q)'
<1>1. ASSUME case'[CaseOf[q]] = case[CaseOf[q]], CasePasses(r, q)
      PROVE  CasePasses(r, q)'
  BY <1>1 DEF CasePasses, LiveCase, Closed, First
<1>2. ASSUME rev'[q][saw[r][q].no] = rev[q][saw[r][q].no],
             KindOf[r] = "approve" => case'[CaseOf[q]] = case[CaseOf[q]],
             RevisionPasses(r, q)
      PROVE  RevisionPasses(r, q)'
  BY <1>2
  DEF RevisionPasses, DraftAsShown, Closed, Open, Voidable, Awaiting
<1> QED  BY <1>1, <1>2

LEMMA PermitKept ==
  ASSUME IInv, PermitInv, [Next]_vars
  PROVE  PermitInv'
<1> SUFFICES ASSUME NEW r \in Requests PROVE Permitted(r)'
  BY DEF PermitInv
<1>1. Permitted(r)
  BY DEF PermitInv
<1>2. CASE holds'[r] = {}
  BY <1>2 DEF Permitted, HeldCase, HeldRev, Held
<1>3. CASE pc'[r] = pc[r] /\ saw'[r] = saw[r] /\ holds'[r] = holds[r]
             /\ UNCHANGED <<rev, case>>
  <2> SUFFICES ASSUME pc[r] = "asked", NEW q \in Named(r)
               PROVE  /\ HeldCase(r, q)' => CasePasses(r, q)'
                      /\ HeldRev(r, q, saw[r][q].no)' /\ saw[r][q].no # 0
                           => RevisionPasses(r, q)'
    BY <1>3 DEF Permitted, Named
  <2>1. /\ HeldCase(r, q) => CasePasses(r, q)
        /\ HeldRev(r, q, saw[r][q].no) /\ saw[r][q].no # 0
             => RevisionPasses(r, q)
    BY <1>1 DEF Permitted
  <2> QED  BY <1>3, <2>1, PassesStill DEF HeldCase, HeldRev, Held
<1>4. ASSUME NEW p \in Requests, Ask(p) PROVE Permitted(r)'
  <2>1. CASE p = r
    BY <1>2, <1>4, <2>1 DEF Ask, AskOf, IInv, LocksOfAsked
  <2>2. CASE p # r
    BY <1>3, <1>4, <2>2 DEF Ask, AskOf, IInv, TypeOK
  <2> QED  BY <2>1, <2>2
<1>5. ASSUME NEW p \in Requests, Lock(p) PROVE Permitted(r)'
  <2>1. CASE p # r
    BY <1>3, <1>5, <2>1 DEF Lock, IInv, TypeOK
  <2>2. CASE p = r
    <3>1. PICK lock \in NextLocks(r) :
            Passes(r, lock) /\ holds' = [holds EXCEPT ![r] = @ \cup {lock}]
      BY <1>5, <2>2 DEF Lock
    <3>2. /\ holds'[r] = holds[r] \cup {lock}
          /\ pc[r] = "asked" /\ UNCHANGED <<rev, case, pc, saw>>
      BY <1>5, <2>2, <3>1 DEF Lock, IInv, TypeOK
    <3> SUFFICES ASSUME NEW q \in Named(r)
                 PROVE  /\ HeldCase(r, q)' => CasePasses(r, q)'
                        /\ HeldRev(r, q, saw[r][q].no)' /\ saw[r][q].no # 0
                             => RevisionPasses(r, q)'
      BY <3>2 DEF Permitted, Named
    <3>3. /\ HeldCase(r, q) => CasePasses(r, q)
          /\ HeldRev(r, q, saw[r][q].no) /\ saw[r][q].no # 0
               => RevisionPasses(r, q)
      BY <1>1, <3>2 DEF Permitted
    <3>4. /\ lock.on = <<"case", CaseOf[q], 0>> => CasePasses(r, q)
          /\ lock.on = <<"revision", q, saw[r][q].no>> => RevisionPasses(r, q)
      BY <3>1 DEF Passes
    <3>5. /\ HeldCase(r, q)' => CasePasses(r, q)
          /\ HeldRev(r, q, saw[r][q].no)' /\ saw[r][q].no # 0
               => RevisionPasses(r, q)
      BY <3>2, <3>3, <3>4 DEF HeldCase, HeldRev, Held
    <3> QED  BY <3>2, <3>5, PassesStill
  <2> QED  BY <2>1, <2>2
<1>6. ASSUME NEW p \in Requests, End(p), RevStep(p), CaseStep(p)
      PROVE  Permitted(r)'
  <2>1. CASE p = r
    BY <1>2, <1>6, <2>1, OthersStay
  <2>2. CASE p # r
    <3>1. pc'[r] = pc[r] /\ saw'[r] = saw[r] /\ holds'[r] = holds[r]
      BY <1>6, <2>2, OthersStay
    <3> SUFFICES ASSUME pc[r] = "asked", NEW q \in Named(r)
                 PROVE  /\ HeldCase(r, q)' => CasePasses(r, q)'
                        /\ HeldRev(r, q, saw[r][q].no)' /\ saw[r][q].no # 0
                             => RevisionPasses(r, q)'
      BY <3>1 DEF Permitted, Named
    <3>2. q \in Quotes
      BY NamedFacts
    <3>3. HeldCase(r, q) => case'[CaseOf[q]] = case[CaseOf[q]]
      BY <1>6, <2>2, <3>2, CaseIsKept
    <3>4. ASSUME HeldRev(r, q, saw[r][q].no), saw[r][q].no # 0
          PROVE  /\ rev'[q][saw[r][q].no] = rev[q][saw[r][q].no]
                 /\ KindOf[r] = "approve" => HeldCase(r, q)
      <4>1. saw[r][q].no \in DOMAIN rev[q]
        <5>1. saw[r][q].no \in 0..Len(rev[q])
          BY DEF IInv, SawOK
        <5>2. DOMAIN rev[q] = 1..Len(rev[q]) /\ Len(rev[q]) \in Nat
          BY <1>6, <3>2, RevFacts
        <5> QED  BY <3>4, <5>1, <5>2
      <4>2. ~Became(p, q, saw[r][q].no)
        BY <2>2, <3>4, TwoHoldNoRev DEF Became
      <4>3. rev'[q][saw[r][q].no] = rev[q][saw[r][q].no]
        BY <1>6, <3>2, <4>1, <4>2 DEF RevStep
      <4>4. RevChecked(r, q)
        BY DEF IInv, Checked
      <4>5. KindOf[r] = "approve" => HeldCase(r, q)
        BY <3>4, <4>4 DEF RevChecked
      <4> QED  BY <4>3, <4>5
    <3>5. /\ HeldCase(r, q)' <=> HeldCase(r, q)
          /\ HeldRev(r, q, saw[r][q].no)' <=> HeldRev(r, q, saw[r][q].no)
      BY <3>1 DEF HeldCase, HeldRev, Held
    <3>6. /\ HeldCase(r, q) => CasePasses(r, q)
          /\ HeldRev(r, q, saw[r][q].no) /\ saw[r][q].no # 0
               => RevisionPasses(r, q)
      BY <1>1 DEF Permitted
    <3> QED  BY <3>1, <3>3, <3>4, <3>5, <3>6, PassesStill
  <2> QED  BY <2>1, <2>2
<1>7. ASSUME NEW p \in Requests, Commit(p) PROVE Permitted(r)'
  <2>1. RevStep(p) /\ CaseStep(p) /\ End(p)
    BY <1>7, CommitStep DEF Commit
  <2> QED  BY <1>6, <2>1
<1>8. ASSUME NEW p \in Requests, Rollback(p) PROVE Permitted(r)'
  <2>1. CaseType /\ rev \in [Quotes -> Seq(Revisions)]
    BY DEF IInv, TypeOK, CaseType, CaseRows
  <2>2. End(p) /\ UNCHANGED <<rev, case>>
    BY <1>8 DEF Rollback
  <2>3. RevStep(p) /\ CaseStep(p)
    BY <2>1, <2>2, SameRevs, SameCases
  <2> QED  BY <1>6, <2>2, <2>3
<1>9. ASSUME UNCHANGED vars PROVE Permitted(r)'
  BY <1>3, <1>9 DEF vars
<1>10. ASSUME NEW p \in Requests, Find(p) PROVE Permitted(r)'
  <2>1. CASE p = r
    <3>1. KindOf[r] = "revise"
      BY <1>10, <2>1 DEF Find, FindSource
    <3> QED  BY <3>1 DEF Permitted, CasePasses, RevisionPasses
  <2>2. CASE p # r
    BY <1>3, <1>10, <2>2 DEF Find, FindSource, IInv, TypeOK
  <2> QED  BY <2>1, <2>2
<1> QED  BY <1>4, <1>5, <1>7, <1>8, <1>9, <1>10 DEF Next

\* All that the command checked is so when it writes.
LEMMA CommitAllowed ==
  ASSUME IInv, PermitInv, NEW r \in Requests, Commit(r)
  PROVE  Allowed(r)
<1>1. pc[r] = "asked" /\ HoldsAll(r)
  BY DEF Commit
<1> SUFFICES ASSUME NEW q \in Named(r)
             PROVE  /\ CasePasses(r, q) /\ QuotePasses(r, q)
                    /\ saw[r][q].no # 0 =>
                         RevisionPasses(r, q) /\ SourceStands(r, q)
  BY DEF Allowed
<1> DEFINE n == saw[r][q].no
<1>2. /\ HeldCase(r, q) => CasePasses(r, q)
      /\ HeldRev(r, q, n) /\ n # 0 => RevisionPasses(r, q)
  BY <1>1 DEF PermitInv, Permitted
<1>3. CASE KindOf[r] = "mail"
  <2>1. HeldCase(r, q) /\ HeldRev(r, q, n)
    BY <1>1, <1>3, MailLocksHeld
  <2> QED  BY <1>2, <1>3, <2>1 DEF QuotePasses, SourceStands
<1>4. CASE KindOf[r] # "mail"
  <2>1. q = First(r)
    BY <1>4, NamedFacts
  <2>2. CasePasses(r, q)
    <3>1. CASE KindOf[r] \in {"choose", "won", "move", "record"}
      BY <1>1, <1>2, <2>1, <3>1, LocksHeld
    <3>2. CASE KindOf[r] \notin {"choose", "won", "move", "record"}
      BY <1>4, <3>2 DEF CasePasses
    <3> QED  BY <3>1, <3>2
  <2>3. QuotePasses(r, q)
    <3> SUFFICES ASSUME KindOf[r] = "revise" PROVE ~Some(q, Open)
      BY DEF QuotePasses
    <3>1. HeldQuote(r, q)
      BY <1>1, <2>1, LocksHeld
    <3>2. QuoteChecked(r, q)
      BY <1>1 DEF IInv, Checked
    <3> QED  BY <3>1, <3>2 DEF QuoteChecked
  <2>4. ASSUME n # 0 PROVE RevisionPasses(r, q)
    <3>1. CASE KindOf[r] \in {"save", "approve", "void", "record"}
      BY <1>1, <1>2, <2>1, <2>4, <3>1, LocksHeld
    <3>2. CASE KindOf[r] \notin {"save", "approve", "void", "record"}
      BY <1>4, <3>2 DEF RevisionPasses
    <3> QED  BY <3>1, <3>2
  <2>5. n # 0 => SourceStands(r, q)
    <3>1. SourceOf(r, q)
      BY <1>1 DEF IInv, SourceOK
    <3> QED  BY <3>1 DEF SourceOf, SourceStands
  <2> QED  BY <2>2, <2>3, <2>4, <2>5
<1> QED  BY <1>3, <1>4

LEMMA StepOfTheBook ==
  ASSUME IInv, PermitInv, [Next]_vars
  PROVE  [BookNext]_book
<1>1. ASSUME NEW r \in Requests, Ask(r) PROVE BookNext
  BY <1>1 DEF Ask, AskOf, BookNext
<1>2. ASSUME NEW r \in Requests, Lock(r) PROVE UNCHANGED book
  BY <1>2 DEF Lock, book
<1>3. ASSUME NEW r \in Requests, Commit(r) PROVE BookNext
  <2>1. Allowed(r)
    BY <1>3, CommitAllowed
  <2>2. pc[r] = "asked" /\ Writes(r) /\ EndOf(r)
    BY <1>3 DEF Commit, End
  <2> QED  BY <2>1, <2>2 DEF DoneAtOnce, BookNext
<1>4. ASSUME NEW r \in Requests, Rollback(r) PROVE BookNext
  BY <1>4 DEF Rollback, End, GivenUp, BookNext
<1>5. ASSUME UNCHANGED vars PROVE UNCHANGED book
  BY <1>5 DEF vars, book
<1>6. ASSUME NEW r \in Requests, Find(r) PROVE BookNext
  BY <1>6 DEF Find, BookNext
<1> QED  BY <1>1, <1>2, <1>3, <1>4, <1>5, <1>6 DEF Next

-----------------------------------------------------------------------------
(* Who reopens a case *)

\* The rule read all the cases of its mail open.
ReadOpen ==
  \A r \in Requests : KindOf[r] = "mail" /\ pc[r] = "asked" =>
    \A q \in Named(r) : saw[r][q].stage \notin {"won", "lost", "abandoned"}

\* A case that was closed and is open again was moved by a person, or it is
\* the second case of a mail that was already linked: _refresh_case looks at
\* the first one only, and only the link of a new mail looks at all of them.
MayReopen(r, c) ==
  \/ KindOf[r] = "move"
  \/ /\ KindOf[r] = "mail" /\ r \in Linked
     /\ Len(QuotesOf[r]) = 2 /\ c = CaseOf[QuotesOf[r][2]]
ReopenedRightly ==
  \A c \in Cases :
    Closed(c) /\ ~Closed(c)' =>
      \E r \in Requests : pc[r] # pc'[r] /\ MayReopen(r, c)
Reopened == [][ReopenedRightly]_vars

LEMMA ReadOpenKept ==
  ASSUME IInv, ReadOpen, [Next]_vars
  PROVE  ReadOpen'
<1> SUFFICES ASSUME NEW r \in Requests, KindOf[r] = "mail", pc'[r] = "asked",
                    NEW q \in Named(r)
             PROVE  saw'[r][q].stage \notin {"won", "lost", "abandoned"}
  BY DEF ReadOpen, Named
<1>1. CASE pc'[r] = pc[r] /\ saw'[r] = saw[r]
  BY <1>1 DEF ReadOpen
<1>2. ASSUME NEW p \in Requests, Ask(p)
      PROVE  saw'[r][q].stage \notin {"won", "lost", "abandoned"}
  <2>1. CASE p # r
    BY <1>1, <1>2, <2>1 DEF Ask, AskOf, IInv, TypeOK
  <2>2. CASE p = r
    <3>1. AskOf(r)
      BY <1>2, <2>2 DEF Ask
    <3>2. PICK no \in [Named(r) -> UNION {Offered(r, a) : a \in Named(r)}] :
            /\ \A a \in Named(r) : no[a] \in Offered(r, a)
            /\ saw' = [saw EXCEPT ![r] = [a \in Named(r) |-> Shown(a, no[a])]]
      BY <3>1 DEF AskOf
    <3>3. saw'[r] = [a \in Named(r) |-> Shown(a, no[a])]
      BY <3>2 DEF IInv, TypeOK
    <3>4. ~Closed(CaseOf[q])
      BY <3>2 DEF Offered
    <3>5. saw'[r][q].stage = case[CaseOf[q]].stage
      BY <3>3 DEF Shown
    <3> QED  BY <3>4, <3>5 DEF Closed
  <2> QED  BY <2>1, <2>2
<1>3. ASSUME NEW p \in Requests, End(p)
      PROVE  saw'[r][q].stage \notin {"won", "lost", "abandoned"}
  BY <1>1, <1>3, OthersStay
<1>4. ASSUME NEW p \in Requests, Find(p)
      PROVE  saw'[r][q].stage \notin {"won", "lost", "abandoned"}
  <2>1. p # r /\ pc' = pc /\ saw'[r] = saw[r]
    BY <1>4 DEF Find, FindSource, IInv, TypeOK
  <2> QED  BY <1>1, <2>1
<1> QED
  BY <1>1, <1>2, <1>3, <1>4 DEF Next, Lock, Commit, Rollback, vars

LEMMA ReopenedStep ==
  ASSUME IInv, PermitInv, ReadOpen, [Next]_vars, NEW c \in Cases, Closed(c), ~Closed(c)'
  PROVE  \E r \in Requests : pc[r] # pc'[r] /\ MayReopen(r, c)
<1>1. case'[c].stage # case[c].stage
  BY DEF Closed
<1>2. PICK r \in Requests : Commit(r)
  BY <1>1 DEF Next, Ask, AskOf, Lock, Find, FindSource, Rollback, vars
<1>3. /\ pc[r] = "asked" /\ HoldsAll(r) /\ Writes(r) /\ pc'[r] = "done"
      /\ case \in [Cases -> CaseRows]
      /\ First(r) \in Named(r) /\ CaseOf[First(r)] \in Cases
      /\ Named(r) \subseteq Quotes
  BY <1>2, OthersStay, CommitFacts DEF Commit, CaseType
<1> DEFINE q == First(r)
           n == saw[r][q].no
<1>4. CASE Save(r, q, n) \/ Approve(r, q, n) \/ Void(r, q, n) \/ Revise(r, q, n)
             \/ Record(r, q, n)
  BY <1>1, <1>4 DEF Save, Approve, Void, Revise, Record
<1>5. CASE Choose(r, q, n)
  <2>1. SetCase(CaseOf[q], case[CaseOf[q]].stage)
    BY <1>5 DEF Choose
  <2>2. case'[c].stage = case[c].stage
    BY <1>3, <2>1 DEF SetCase, CaseRows
  <2> QED  BY <1>1, <2>2
<1>6. CASE Win(r, q, n)
  <2>1. case' = [case EXCEPT ![CaseOf[q]] =
                   [stage |-> "won", version |-> @.version + 1, won |-> <<q, n>>]]
    BY <1>6 DEF Win
  <2>2. case'[c].stage = case[c].stage \/ case'[c].stage = "won"
    BY <1>3, <2>1
  <2> QED  BY <1>1, <2>2 DEF Closed
<1>7. CASE Move(r, q)
  BY <1>3, <1>7 DEF Move, MayReopen
<1>8. CASE MarkSent(r)
  <2>1. KindOf[r] = "mail" /\ \A a \in Named(r) : CanWalk(r, a)
    BY <1>8 DEF MarkSent
  <2>2. PICK a \in Named(r) : CaseOf[a] = c
    BY <1>1, <1>8 DEF MarkSent
  <2>3. r \in Linked
    BY <2>1, <2>2 DEF CanWalk
  <2>4. HeldCase(r, q)
    BY <1>3, <2>1, MailLocksHeld
  <2>5. ~Closed(CaseOf[q])
    <3>1. CasePasses(r, q)
      BY <1>3, <2>4 DEF PermitInv, Permitted
    <3>2. case[CaseOf[q]].stage = saw[r][q].stage
      BY <2>1, <3>1 DEF CasePasses
    <3> QED  BY <1>3, <2>1, <3>2 DEF ReadOpen, Closed
  <2>6. a # q
    BY <2>2, <2>5
  <2>7. a = QuotesOf[r][2] /\ Len(QuotesOf[r]) = 2
    BY <2>2, <2>6, NamedFacts
  <2> QED  BY <1>3, <2>1, <2>2, <2>3, <2>7 DEF MayReopen
<1> QED  BY <1>3, <1>4, <1>5, <1>6, <1>7, <1>8 DEF Writes

-----------------------------------------------------------------------------
(* The theorems *)

\* Every part of the argument holds in every reachable state.
THEOREM Inductive == Spec => []IInv
<1>1. Init => IInv
  BY InitHolds
<1>2. IInv /\ [Next]_vars => IInv'
  BY NextKeeps
<1> QED  BY <1>1, <1>2, PTL DEF Spec

\* The variables keep their types.
THEOREM Types == Spec => []TypeOK
<1>1. IInv => TypeOK
  BY DEF IInv
<1> QED  BY <1>1, Inductive, PTL

\* At most one revision of a minted quote is in force.
THEOREM OneInForceAlways == Spec => []OneInForce
<1>1. IInv => OneInForce
  BY DEF IInv
<1> QED  BY <1>1, Inductive, PTL

\* No circle of replaced revisions.
THEOREM ChainsAlwaysEnd == Spec => []ChainsEnd
<1>1. IInv => ChainsEnd
  BY DEF IInv
<1> QED  BY <1>1, Inductive, PTL

\* An approved revision is what its approver was shown.
THEOREM ApprovedAsShownAlways == Spec => []ApprovedAsShown
<1>1. IInv => ApprovedAsShown
  BY DEF IInv
<1> QED  BY <1>1, Inductive, PTL

\* A won case keeps the sent revision it was won with.
THEOREM WonStandsAlways == Spec => []WonStands
<1>1. IInv => WonStands
  BY DEF IInv
<1> QED  BY <1>1, Inductive, PTL

\* People's commands and a mail of one case never wait for each other in a
\* circle.
THEOREM CirclesAlwaysNeedTwoCases == Spec => []CirclesNeedTwoCases
<1>1. Init => OrderInv
  BY DEF Init, OrderInv, Orderly
<1>2. IInv /\ OrderInv /\ [Next]_vars => OrderInv'
  BY OrderKept
<1>3. IInv /\ OrderInv => CirclesNeedTwoCases
  BY NoCircleOfOneCase
<1> QED  BY <1>1, <1>2, <1>3, Inductive, PTL DEF Spec

\* Every command acts as one step on the rows.
THEOREM AlwaysActsAtOnce == Spec => ActsAtOnce
<1>1. Init => PermitInv /\ BookInit
  BY DEF Init, PermitInv, Permitted, HeldCase, HeldRev, Held
<1>2. IInv /\ PermitInv /\ [Next]_vars => PermitInv'
  BY PermitKept
<1>3. IInv /\ PermitInv /\ [Next]_vars => [BookNext]_book
  BY StepOfTheBook
<1> QED  BY <1>1, <1>2, <1>3, Inductive, PTL DEF Spec, ActsAtOnce, BookSpec

\* A closed case is reopened by a person, or as the second case of a mail that
\* was linked before.
THEOREM ReopenedByWhom == Spec => Reopened
<1>1. Init => PermitInv /\ ReadOpen
  BY DEF Init, BookInit, PermitInv, Permitted, HeldCase, HeldRev, Held, ReadOpen
<1>2. IInv /\ PermitInv /\ [Next]_vars => PermitInv'
  BY PermitKept
<1>3. IInv /\ ReadOpen /\ [Next]_vars => ReadOpen'
  BY ReadOpenKept
<1>4. IInv /\ PermitInv /\ ReadOpen /\ [Next]_vars => [ReopenedRightly]_vars
  BY ReopenedStep DEF ReopenedRightly
<1> QED  BY <1>1, <1>2, <1>3, <1>4, Inductive, PTL DEF Spec, Reopened
=============================================================================
