CONSTANTS
  Messages = {1, 2}
  Class <- RequestAndBounce
  Slots = {s1, s2}
  Answers = {a1}
  Limit = 2
  Tries = 1
  MaxFaults = 2
SPECIFICATION FairSpec
INVARIANTS
  TypeOK
  PaidOnce
  MentionsAreOfTheReading
  PeopleAreRead
PROPERTIES
  PendingIsTriaged
