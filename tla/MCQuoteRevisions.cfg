SPECIFICATION Spec
CONSTANTS
  c1 = c1 c2 = c2 c3 = c3 q1 = q1 q2 = q2 q3 = q3 h1 = h1
  save2 = save2 approve1 = approve1 approve2 = approve2 void2 = void2
  revise1 = revise1 revise2 = revise2 record1 = record1
  choose1 = choose1 choose2 = choose2 won1 = won1 wonh = wonh move1 = move1
  move2 = move2 mail1 = mail1 mail2 = mail2 mail3 = mail3
  Requests = {save2, approve1, approve2, void2, revise1, revise2, record1,
              choose1, choose2, won1, wonh, move1, move2, mail1, mail2, mail3}
  Quotes = {q1, q2, q3, h1}
  Cases = {c1, c2, c3}
  Printed = {h1}
  Linked = {mail1, mail2}
  KindOf <- KindsHere
  QuotesOf <- QuotesHere
  CaseOf <- CasesHere
  StartRev <- StartHere
  StartStage <- StagesHere
  MaxAsked = 3
INVARIANT TypeOK
INVARIANT OneInForce
INVARIANT ChainsEnd
INVARIANT ApprovedAsShown
INVARIANT WonStands
INVARIANT CirclesNeedTwoCases
PROPERTY ActsAtOnce
CHECK_DEADLOCK FALSE
