--------------------------- MODULE MCQuoteRevisions ---------------------------
EXTENDS QuoteRevisions, TLC

CONSTANTS c1, c2, c3, q1, q2, q3, h1,
          save2, approve1, approve2, void2, revise1, revise2, record1,
          choose1, choose2, won1, wonh, move1, move2, mail1, mail2, mail3

Chosen(table) == [r \in Requests |-> table[r]]

KindsHere == Chosen(
  save2 :> "save" @@ approve1 :> "approve" @@ approve2 :> "approve"
    @@ void2 :> "void" @@ revise1 :> "revise" @@ revise2 :> "revise"
    @@ record1 :> "record" @@ choose1 :> "choose"
    @@ choose2 :> "choose" @@ won1 :> "won" @@ wonh :> "won"
    @@ move1 :> "move" @@ move2 :> "move"
    @@ mail1 :> "mail" @@ mail2 :> "mail" @@ mail3 :> "mail")

\* mail1 carries one quote, mail2 and mail3 two, in opposite orders.
QuotesHere == Chosen(
  save2 :> <<q2>> @@ approve1 :> <<q1>> @@ approve2 :> <<q2>> @@ void2 :> <<q2>>
    @@ revise1 :> <<q1>> @@ revise2 :> <<q2>> @@ record1 :> <<h1>>
    @@ choose1 :> <<h1>> @@ choose2 :> <<h1>>
    @@ won1 :> <<q1>> @@ move1 :> <<q1>> @@ wonh :> <<h1>> @@ move2 :> <<q2>>
    @@ mail1 :> <<q2>> @@ mail2 :> <<q3, q2>> @@ mail3 :> <<q2, q3>>)

CasesHere == q1 :> c1 @@ h1 :> c1 @@ q2 :> c2 @@ q3 :> c3

\* q1 was sent and q2, q3 approved; q2 has its next draft.
Approved(status) ==
  [status |-> status, by |-> 0, version |-> 2, text |-> "first",
   approved |-> "first"]
StartHere ==
  q1 :> <<Approved("sent")>> @@ q3 :> <<Approved("approved")>>
    @@ q2 :> <<Approved("approved"), Fresh("draft", "first")>>
    @@ h1 :> <<Fresh("sent", "first"), Fresh("sent", "first")>>
StagesHere == c1 :> "negotiating" @@ c2 :> "qualified" @@ c3 :> "quoting"
=============================================================================
