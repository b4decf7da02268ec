-------------------------- MODULE TriageQueueProofs --------------------------
(***************************************************************************)
(* Proofs about TriageQueue, for every set of messages, slots and answers  *)
(* and every bound.                                                        *)
(***************************************************************************)
EXTENDS TriageQueue, TLAPS

-----------------------------------------------------------------------------
(* The invariants behind the properties.                                   *)

\* A job that reads has something to read for, only mail a person wrote is
\* given to the model, and the later readings follow the first.
AnswerInv ==
  /\ \A s \in Slots : At(s, "fetch") => slot[s].plan # None
  /\ \A s \in Slots : slot[s].pc \in Working =>
       IF Class[slot[s].msg] \in Human THEN TRUE
       ELSE /\ ~At(s, "model") /\ ~At(s, "pick") /\ ~At(s, "memory")
            /\ slot[s].answer = Rules
  /\ \A s \in Slots : At(s, "later") \/ At(s, "memory") =>
       reading[slot[s].msg] # None
  /\ \A m \in Messages : reading[m] \in Readings =>
       Class[m] \in Human \/ reading[m] = Rules

\* Jobs on one message are alone on it, or the message is in overlapped.
AloneInv ==
  \A m \in HumanMail \ overlapped : \A s, t \in Slots :
    On(s, m) /\ On(t, m) => s = t

\* A job that triages a message alone finds it without a reading still.
Triages(s) == At(s, "model") \/ At(s, "pick") \/ At(s, "record")
              \/ (At(s, "fetch") /\ slot[s].plan = "triage")
ViewInv ==
  \A m \in HumanMail \ overlapped : \A s \in Slots :
    On(s, m) /\ Triages(s) => reading[m] = None

\* What was paid for is on its way to the evidence, or there: only a job past
\* the question, or the reading, can have had the answer.
PaidOf(m) ==
  /\ paid[m]["reading"] # 0 =>
       \/ reading[m] # None
       \/ \E s \in Slots : On(s, m) /\ (At(s, "pick") \/ At(s, "record"))
  /\ paid[m]["pick"] # 0 =>
       reading[m] # None \/ \E s \in Slots : On(s, m) /\ At(s, "record")
  /\ paid[m]["memory"] # 0 =>
       /\ reading[m] # None
       /\ \A s \in Slots : On(s, m) => ~At(s, "later") /\ ~At(s, "memory")
PaidInv == \A m \in HumanMail \ (lost \cup overlapped) : PaidOf(m)

\* The later readings are there, or a job is about to write them.
LaterInv ==
  \A m \in HumanMail \ lost :
    reading[m] \in Readings =>
      m \in people \/ \E s \in Slots : On(s, m) /\ At(s, "later")

IInv == /\ TypeOK /\ AnswerInv /\ AloneInv /\ ViewInv /\ PaidInv /\ LaterInv
        /\ BlockIsProved /\ PaidOnce /\ MentionsAreOfTheReading

\* A job pays for one question about its own message, or not.
LEMMA PaysFacts ==
  ASSUME paid \in [Messages -> [Questions -> Nat]],
         NEW s \in Slots, slot[s].msg \in Messages, NEW q \in Questions,
         Pays(s, q) \/ UNCHANGED paid
  PROVE  /\ paid' \in [Messages -> [Questions -> Nat]]
         /\ \A m \in Messages : m # slot[s].msg => paid'[m] = paid[m]
         /\ \A p \in Questions :
              p # q => paid'[slot[s].msg][p] = paid[slot[s].msg][p]
         /\ paid'[slot[s].msg][q] <= paid[slot[s].msg][q] + 1
<1>1. CASE paid' = [paid EXCEPT ![slot[s].msg][q] = @ + 1]
  BY <1>1
<1>2. CASE paid' = paid
  BY <1>2
<1>3. QED
  BY <1>1, <1>2 DEF Pays

\* A mail that is excused stays so.
LEMMA HistoryGrows ==
  ASSUME [Next]_vars
  PROVE  lost \subseteq lost' /\ overlapped \subseteq overlapped'
<1> USE DEF vars, queue, evidence, history, Lost, Joined
<1>1. ASSUME NEW m \in Messages, ObjectLost(m)
      PROVE  lost' = lost /\ overlapped' = overlapped
  BY <1>1 DEF ObjectLost
<1>2. ASSUME NEW s \in Slots, Fails(s)
      PROVE  lost \subseteq lost' /\ overlapped' = overlapped
  BY <1>2 DEF Fails, JobLost, StorageFails, ModelFails
<1>3. ASSUME NEW s \in Slots, Take(s)
      PROVE  lost' = lost /\ overlapped \subseteq overlapped'
  BY <1>3 DEF Take, Sweep, TakeJob
<1>4. ASSUME NEW s \in Slots, ReadPeople(s)
      PROVE  lost \subseteq lost' /\ overlapped' = overlapped
  BY <1>4 DEF ReadPeople
<1>5. ASSUME NEW s \in Slots, Step(s), ~ReadPeople(s)
      PROVE  lost' = lost /\ overlapped' = overlapped
  BY <1>5 DEF Step, Defer, Load, Fetch, Unreadable, Answered, Pick, Record,
              RecordDelivery, BlockRefused, Backfill, Remember
<1>6. QED
  BY <1>1, <1>2, <1>3, <1>4, <1>5 DEF Next

\* Every step keeps the types.
LEMMA TypeStep ==
  ASSUME TypeOK, AnswerInv, [Next]_vars
  PROVE  TypeOK'
<1> USE DEF TypeOK, vars, queue, evidence, history, JobStates, SweepStates,
            Readings, Questions, HumanMail, Lost, Joined, Unpaid, Working, At,
            None, Unread, Rules, Idle
<1>1. ASSUME NEW m \in Messages, ObjectLost(m) PROVE TypeOK'
  BY <1>1, BoundsAssumption DEF ObjectLost, Fault
<1>2. ASSUME NEW s \in Slots, JobLost(s) PROVE TypeOK'
  BY <1>2, BoundsAssumption DEF JobLost, Free, Fault
<1>3. ASSUME NEW s \in Slots, Sweep(s) PROVE TypeOK'
  BY <1>3, BoundsAssumption DEF Sweep, Newest, Pending
<1>4. ASSUME NEW s \in Slots, Defer(s) PROVE TypeOK'
  BY <1>4, BoundsAssumption DEF Defer, Free
<1>5. ASSUME NEW s \in Slots, NEW m \in Messages, TakeJob(s, m) PROVE TypeOK'
  <2>1. Job(m, tries[m]) \in JobStates /\ 0 \in 0 .. Tries
    BY BoundsAssumption DEF Job
  <2>2. slot' \in [Slots -> {Idle} \cup SweepStates \cup JobStates]
    BY <1>5, <2>1 DEF TakeJob
  <2>3. /\ overlapped' \subseteq Messages
        /\ paid' \in [Messages -> [Questions -> Nat]]
    <3>1. Joined(m) \/ UNCHANGED <<overlapped, paid>>
      BY <1>5 DEF TakeJob
    <3>2. Unpaid \in [Questions -> Nat]
      OBVIOUS
    <3>3. QED
      BY <3>1, <3>2
  <2>4. tries' \in [Messages -> 0 .. Tries]
    BY <1>5, <2>1 DEF TakeJob
  <2>5. QED
    BY <1>5, <2>2, <2>3, <2>4 DEF TakeJob
<1>6. ASSUME NEW s \in Slots, Load(s) PROVE TypeOK'
  BY <1>6, BoundsAssumption DEF Load, Plan, Free
<1>7. ASSUME NEW s \in Slots, StorageFails(s) PROVE TypeOK'
  BY <1>7, BoundsAssumption DEF StorageFails, Free, Fault
<1>8. ASSUME NEW s \in Slots, Fetch(s) PROVE TypeOK'
  <2>1. slot[s] \in JobStates /\ slot[s].plan # None
    BY <1>8 DEF Fetch, AnswerInv
  <2> DEFINE next == IF slot[s].plan # "triage" THEN slot[s].plan
                     ELSE IF Class[slot[s].msg] \in Human THEN "model"
                     ELSE "record"
  <2>2. next \in Working
    BY <2>1
  <2>3. [slot[s] EXCEPT !.pc = next] \in JobStates
    BY <2>1, <2>2
  <2>4. slot' = [slot EXCEPT ![s].pc = next]
    BY <1>8 DEF Fetch, Goes
  <2>5. QED
    BY <1>8, <2>3, <2>4 DEF Fetch
<1>9. ASSUME NEW s \in Slots, Unreadable(s) PROVE TypeOK'
  BY <1>9, BoundsAssumption DEF Unreadable, Free, Kept
<1>10. ASSUME NEW s \in Slots, NEW a \in Readings, Answered(s, a)
      PROVE  TypeOK'
  <2>1. slot[s] \in JobStates
    BY <1>10 DEF Answered
  <2>2. [slot[s] EXCEPT !.pc = "pick", !.answer = a] \in JobStates
    BY <2>1
  <2>3. slot' \in [Slots -> {Idle} \cup SweepStates \cup JobStates]
    BY <1>10, <2>2 DEF Answered
  <2>4. paid' \in [Messages -> [Questions -> Nat]]
    BY <1>10, <2>1, PaysFacts DEF Answered, Questions
  <2>5. QED
    BY <1>10, <2>3, <2>4 DEF Answered
<1>11. ASSUME NEW s \in Slots, ModelFails(s) PROVE TypeOK'
  BY <1>11, BoundsAssumption DEF ModelFails, MayRetry, Free, Fault
<1>12. ASSUME NEW s \in Slots, Record(s) PROVE TypeOK'
  <2>1. slot[s] \in JobStates
    BY <1>12 DEF Record
  <2>2. \A pc \in Working : [slot[s] EXCEPT !.pc = pc] \in JobStates
    BY <2>1
  <2>3. slot' \in [Slots -> {Idle} \cup SweepStates \cup JobStates]
    BY <1>12, <2>2 DEF Record, Goes
  <2>4. reading' \in [Messages -> Readings \cup {None, Unread}]
    BY <1>12, <2>1 DEF Record, Kept
  <2>5. mentions' \in [Messages -> SUBSET Readings]
    BY <1>12, <2>1 DEF Record, Named
  <2>6. requester' \subseteq Messages /\ matched' \subseteq Messages
    BY <1>12, <2>1 DEF Record
  <2>7. QED
    BY <1>12, <2>3, <2>4, <2>5, <2>6 DEF Record
<1>13. ASSUME NEW s \in Slots, RecordDelivery(s) PROVE TypeOK'
  BY <1>13, BoundsAssumption
  DEF RecordDelivery, BlockProved, ClassRead, Kept, Free
<1>14. ASSUME NEW s \in Slots, BlockRefused(s) PROVE TypeOK'
  BY <1>14, BoundsAssumption DEF BlockRefused, Free
<1>15. ASSUME NEW s \in Slots, Backfill(s) PROVE TypeOK'
  BY <1>15, BoundsAssumption DEF Backfill, Free, Fault
<1>16. ASSUME NEW s \in Slots, ReadPeople(s) PROVE TypeOK'
  <2>1. slot[s] \in JobStates
    BY <1>16 DEF ReadPeople
  <2>2. [slot[s] EXCEPT !.pc = "memory"] \in JobStates
    BY <2>1
  <2>3. slot' \in [Slots -> {Idle} \cup SweepStates \cup JobStates]
    BY <1>16, <2>2 DEF ReadPeople, Goes, Free
  <2>4. /\ people' \subseteq Messages /\ lost' \subseteq Messages
        /\ paid' \in [Messages -> [Questions -> Nat]]
    BY <1>16, <2>1 DEF ReadPeople
  <2>5. faults' \in 0 .. MaxFaults
    BY <1>16, BoundsAssumption DEF ReadPeople, Fault
  <2>6. QED
    BY <1>16, <2>3, <2>4, <2>5 DEF ReadPeople
<1>17. ASSUME NEW s \in Slots, Pick(s) PROVE TypeOK'
  <2>1. slot[s] \in JobStates
    BY <1>17 DEF Pick
  <2>2. PICK found \in BOOLEAN :
          /\ slot' = [slot EXCEPT ![s].pc = "record", ![s].match = found]
          /\ \/ found /\ UNCHANGED faults /\ (Pays(s, "pick") \/ UNCHANGED paid)
             \/ ~found /\ Fault /\ UNCHANGED paid
    BY <1>17 DEF Pick
  <2>3. [slot[s] EXCEPT !.pc = "record", !.match = found] \in JobStates
    BY <2>1, <2>2
  <2>4. slot' \in [Slots -> {Idle} \cup SweepStates \cup JobStates]
    BY <2>2, <2>3
  <2>5. paid' \in [Messages -> [Questions -> Nat]]
    BY <2>1, <2>2, PaysFacts DEF Questions
  <2>6. faults' \in 0 .. MaxFaults
    BY <2>2, BoundsAssumption DEF Fault
  <2>7. QED
    BY <1>17, <2>4, <2>5, <2>6 DEF Pick
<1>18. ASSUME NEW s \in Slots, Remember(s) PROVE TypeOK'
  <2>1. slot[s] \in JobStates
    BY <1>18 DEF Remember
  <2>2. paid' \in [Messages -> [Questions -> Nat]]
    BY <1>18, <2>1, PaysFacts DEF Remember, Questions
  <2>3. QED
    BY <1>18, <2>2 DEF Remember, Free
<1>19. CASE UNCHANGED vars
  BY <1>19, BoundsAssumption
<1>20. QED
  BY <1>1, <1>2, <1>3, <1>4, <1>5, <1>6, <1>7, <1>8, <1>9, <1>10, <1>11,
     <1>12, <1>13, <1>14, <1>15, <1>16, <1>17, <1>18, <1>19
  DEF Next, Step, Take, Fails

\* Every step keeps the model to mail a person wrote.
LEMMA AnswerStep ==
  ASSUME TypeOK, AnswerInv, [Next]_vars
  PROVE  AnswerInv'
<1> USE DEF TypeOK, vars, queue, evidence, history, JobStates, SweepStates,
            Readings, Questions, HumanMail, Lost, Joined, Unpaid, Working, On,
            At, None, Unread, Rules, Idle, AnswerInv
<1>1. ASSUME NEW m \in Messages, ObjectLost(m) PROVE AnswerInv'
  BY <1>1, AnswersAssumption DEF ObjectLost, Fault
<1>2. ASSUME NEW s \in Slots, JobLost(s) PROVE AnswerInv'
  BY <1>2, AnswersAssumption DEF JobLost, Free, Fault
<1>3. ASSUME NEW s \in Slots, Sweep(s) PROVE AnswerInv'
  BY <1>3, AnswersAssumption DEF Sweep, Newest, Pending
<1>4. ASSUME NEW s \in Slots, Defer(s) PROVE AnswerInv'
  BY <1>4, AnswersAssumption DEF Defer, Free
<1>5. ASSUME NEW s \in Slots, NEW m \in Messages, TakeJob(s, m)
      PROVE  AnswerInv'
  BY <1>5, AnswersAssumption DEF TakeJob, Job
<1>6. ASSUME NEW s \in Slots, Load(s) PROVE AnswerInv'
  <2>1. slot[s] \in JobStates /\ slot[s].pc = "load" /\ UNCHANGED reading
    BY <1>6 DEF Load
  <2>2. \A t \in Slots \ {s} : slot'[t] = slot[t]
    BY <1>6 DEF Load, Free
  <2>3. \/ slot'[s] = Idle
        \/ /\ slot'[s].pc = "fetch" /\ slot'[s].plan # None
           /\ slot'[s].msg = slot[s].msg /\ slot'[s].answer = slot[s].answer
    BY <1>6, <2>1 DEF Load, Free
  <2> HIDE DEF TypeOK, JobStates, SweepStates
  <2>4. QED
    BY <2>1, <2>2, <2>3
<1>7. ASSUME NEW s \in Slots, StorageFails(s) PROVE AnswerInv'
  BY <1>7, AnswersAssumption DEF StorageFails, Free, Fault
<1>8. ASSUME NEW s \in Slots, Fetch(s) PROVE AnswerInv'
  BY <1>8, AnswersAssumption DEF Fetch, Goes
<1>9. ASSUME NEW s \in Slots, Unreadable(s) PROVE AnswerInv'
  BY <1>9, AnswersAssumption DEF Unreadable, Free, Kept
<1>10. ASSUME NEW s \in Slots, NEW a \in Readings, Answered(s, a)
      PROVE  AnswerInv'
  BY <1>10, AnswersAssumption DEF Answered, Pays
<1>11. ASSUME NEW s \in Slots, ModelFails(s) PROVE AnswerInv'
  BY <1>11, AnswersAssumption DEF ModelFails, MayRetry, Free, Fault
<1>12. ASSUME NEW s \in Slots, Record(s) PROVE AnswerInv'
  BY <1>12, AnswersAssumption DEF Record, Kept, Named, Goes
<1>13. ASSUME NEW s \in Slots, RecordDelivery(s) PROVE AnswerInv'
  BY <1>13, AnswersAssumption
  DEF RecordDelivery, BlockProved, ClassRead, Kept, Free
<1>14. ASSUME NEW s \in Slots, BlockRefused(s) PROVE AnswerInv'
  BY <1>14, AnswersAssumption DEF BlockRefused, Free
<1>15. ASSUME NEW s \in Slots, Backfill(s) PROVE AnswerInv'
  BY <1>15, AnswersAssumption DEF Backfill, Free, Fault
<1>16. ASSUME NEW s \in Slots, ReadPeople(s) PROVE AnswerInv'
  <2>1. slot[s] \in JobStates /\ slot[s].pc = "later" /\ UNCHANGED reading
    BY <1>16 DEF ReadPeople
  <2>2. \A t \in Slots \ {s} : slot'[t] = slot[t]
    BY <1>16 DEF ReadPeople, Goes, Free
  <2>3. \/ slot'[s] = Idle
        \/ /\ slot'[s].pc = "memory" /\ Class[slot[s].msg] \in Human
           /\ slot'[s].msg = slot[s].msg
    BY <1>16, <2>1 DEF ReadPeople, Goes, Free
  <2> HIDE DEF TypeOK, JobStates, SweepStates
  <2>4. QED
    BY <2>1, <2>2, <2>3
<1>17. ASSUME NEW s \in Slots, Pick(s) PROVE AnswerInv'
  BY <1>17, AnswersAssumption DEF Pick, Pays, Fault
<1>18. ASSUME NEW s \in Slots, Remember(s) PROVE AnswerInv'
  BY <1>18, AnswersAssumption DEF Remember, Pays, Free
<1>19. CASE UNCHANGED vars
  BY <1>19, AnswersAssumption
<1>20. QED
  BY <1>1, <1>2, <1>3, <1>4, <1>5, <1>6, <1>7, <1>8, <1>9, <1>10, <1>11,
     <1>12, <1>13, <1>14, <1>15, <1>16, <1>17, <1>18, <1>19
  DEF Next, Step, Take, Fails

\* Every step keeps the overlaps in overlapped.
LEMMA AloneStep ==
  ASSUME TypeOK, AnswerInv, AloneInv, [Next]_vars
  PROVE  AloneInv'
<1> USE DEF TypeOK, vars, queue, evidence, history, JobStates, SweepStates,
            Readings, Questions, HumanMail, Lost, Joined, Unpaid, Working, On,
            At, None, Unread, Rules, Idle, AloneInv
<1>1. ASSUME NEW m \in Messages, ObjectLost(m) PROVE AloneInv'
  BY <1>1 DEF ObjectLost, Fault
<1>2. ASSUME NEW s \in Slots, JobLost(s) PROVE AloneInv'
  BY <1>2 DEF JobLost, Free, Fault
<1>3. ASSUME NEW s \in Slots, Sweep(s) PROVE AloneInv'
  BY <1>3 DEF Sweep, Newest, Pending
<1>4. ASSUME NEW s \in Slots, Defer(s) PROVE AloneInv'
  BY <1>4 DEF Defer, Free
<1>5. ASSUME NEW s \in Slots, NEW m \in Messages, TakeJob(s, m)
      PROVE  AloneInv'
  BY <1>5 DEF TakeJob, Job
<1>6. ASSUME NEW s \in Slots, Load(s) PROVE AloneInv'
  BY <1>6 DEF Load, Plan, Free
<1>7. ASSUME NEW s \in Slots, StorageFails(s) PROVE AloneInv'
  BY <1>7 DEF StorageFails, Free, Fault
<1>8. ASSUME NEW s \in Slots, Fetch(s) PROVE AloneInv'
  BY <1>8 DEF Fetch, Goes
<1>9. ASSUME NEW s \in Slots, Unreadable(s) PROVE AloneInv'
  BY <1>9 DEF Unreadable, Free, Kept
<1>10. ASSUME NEW s \in Slots, NEW a \in Readings, Answered(s, a)
      PROVE  AloneInv'
  BY <1>10 DEF Answered, Pays
<1>11. ASSUME NEW s \in Slots, ModelFails(s) PROVE AloneInv'
  BY <1>11 DEF ModelFails, MayRetry, Free, Fault
<1>12. ASSUME NEW s \in Slots, Record(s) PROVE AloneInv'
  BY <1>12 DEF Record, Kept, Named, Goes
<1>13. ASSUME NEW s \in Slots, RecordDelivery(s) PROVE AloneInv'
  BY <1>13 DEF RecordDelivery, BlockProved, ClassRead, Kept, Free
<1>14. ASSUME NEW s \in Slots, BlockRefused(s) PROVE AloneInv'
  BY <1>14 DEF BlockRefused, Free
<1>15. ASSUME NEW s \in Slots, Backfill(s) PROVE AloneInv'
  BY <1>15 DEF Backfill, Free, Fault
<1>16. ASSUME NEW s \in Slots, ReadPeople(s) PROVE AloneInv'
  BY <1>16 DEF ReadPeople, Goes, Free, Fault
<1>17. ASSUME NEW s \in Slots, Pick(s) PROVE AloneInv'
  BY <1>17 DEF Pick, Pays, Fault
<1>18. ASSUME NEW s \in Slots, Remember(s) PROVE AloneInv'
  BY <1>18 DEF Remember, Pays, Free
<1>19. CASE UNCHANGED vars
  BY <1>19
<1>20. QED
  BY <1>1, <1>2, <1>3, <1>4, <1>5, <1>6, <1>7, <1>8, <1>9, <1>10, <1>11,
     <1>12, <1>13, <1>14, <1>15, <1>16, <1>17, <1>18, <1>19
  DEF Next, Step, Take, Fails

\* Every step keeps what a lone job has seen.
LEMMA ViewStep ==
  ASSUME TypeOK, AnswerInv, AloneInv, ViewInv, [Next]_vars
  PROVE  ViewInv'
<1> USE DEF TypeOK, vars, queue, evidence, history, JobStates, SweepStates,
            Readings, Questions, HumanMail, Lost, Joined, Unpaid, Working, On,
            At, None, Unread, Rules, Idle, AloneInv, ViewInv, Triages
<1>1. ASSUME NEW m \in Messages, ObjectLost(m) PROVE ViewInv'
  BY <1>1, AnswersAssumption DEF ObjectLost, Fault
<1>2. ASSUME NEW s \in Slots, JobLost(s) PROVE ViewInv'
  BY <1>2, AnswersAssumption DEF JobLost, Free, Fault
<1>3. ASSUME NEW s \in Slots, Sweep(s) PROVE ViewInv'
  BY <1>3, AnswersAssumption DEF Sweep, Newest, Pending
<1>4. ASSUME NEW s \in Slots, Defer(s) PROVE ViewInv'
  BY <1>4, AnswersAssumption DEF Defer, Free
<1>5. ASSUME NEW s \in Slots, NEW m \in Messages, TakeJob(s, m) PROVE ViewInv'
  BY <1>5, AnswersAssumption DEF TakeJob, Job
<1>6. ASSUME NEW s \in Slots, Load(s) PROVE ViewInv'
  BY <1>6, AnswersAssumption DEF Load, Plan, Free
<1>7. ASSUME NEW s \in Slots, StorageFails(s) PROVE ViewInv'
  BY <1>7, AnswersAssumption DEF StorageFails, Free, Fault
<1>8. ASSUME NEW s \in Slots, Fetch(s) PROVE ViewInv'
  <2>1. \A t \in Slots \ {s} : slot'[t] = slot[t]
    BY <1>8 DEF Fetch, Goes
  <2>2. slot[s] \in JobStates /\ slot'[s].msg = slot[s].msg /\ At(s, "fetch")
    BY <1>8 DEF Fetch, Goes
  <2>3. Triages(s)' => slot[s].plan = "triage"
    <3>1. CASE slot[s].plan # "triage"
      <4>1. slot'[s].pc = slot[s].plan
        BY <1>8, <3>1 DEF Fetch, Goes
      <4>2. QED
        BY <2>2, <4>1
    <3>2. QED
      BY <3>1
  <2>4. reading' = reading /\ overlapped' = overlapped
    BY <1>8 DEF Fetch
  <2>5. QED
    BY <2>1, <2>2, <2>3, <2>4
<1>9. ASSUME NEW s \in Slots, Unreadable(s) PROVE ViewInv'
  BY <1>9, AnswersAssumption DEF Unreadable, Free, Kept
<1>10. ASSUME NEW s \in Slots, NEW a \in Readings, Answered(s, a)
      PROVE  ViewInv'
  BY <1>10, AnswersAssumption DEF Answered, Pays
<1>11. ASSUME NEW s \in Slots, ModelFails(s) PROVE ViewInv'
  BY <1>11, AnswersAssumption DEF ModelFails, MayRetry, Free, Fault
<1>12. ASSUME NEW s \in Slots, Record(s) PROVE ViewInv'
  BY <1>12, AnswersAssumption DEF Record, Kept, Named, Goes
<1>13. ASSUME NEW s \in Slots, RecordDelivery(s) PROVE ViewInv'
  BY <1>13, AnswersAssumption
  DEF RecordDelivery, BlockProved, ClassRead, Kept, Free
<1>14. ASSUME NEW s \in Slots, BlockRefused(s) PROVE ViewInv'
  BY <1>14, AnswersAssumption DEF BlockRefused, Free
<1>15. ASSUME NEW s \in Slots, Backfill(s) PROVE ViewInv'
  BY <1>15, AnswersAssumption DEF Backfill, Free, Fault
<1>16. ASSUME NEW s \in Slots, ReadPeople(s) PROVE ViewInv'
  BY <1>16, AnswersAssumption DEF ReadPeople, Goes, Free, Fault
<1>17. ASSUME NEW s \in Slots, Pick(s) PROVE ViewInv'
  BY <1>17, AnswersAssumption DEF Pick, Pays, Fault
<1>18. ASSUME NEW s \in Slots, Remember(s) PROVE ViewInv'
  BY <1>18, AnswersAssumption DEF Remember, Pays, Free
<1>19. CASE UNCHANGED vars
  BY <1>19, AnswersAssumption
<1>20. QED
  BY <1>1, <1>2, <1>3, <1>4, <1>5, <1>6, <1>7, <1>8, <1>9, <1>10, <1>11,
     <1>12, <1>13, <1>14, <1>15, <1>16, <1>17, <1>18, <1>19
  DEF Next, Step, Take, Fails

\* Every step keeps an answer that was paid for.
LEMMA PaidStep ==
  ASSUME TypeOK, AnswerInv, AloneInv, ViewInv, PaidInv, [Next]_vars
  PROVE  PaidInv'
<1> USE DEF TypeOK, vars, queue, evidence, history, JobStates, SweepStates,
            Readings, Questions, HumanMail, Lost, Joined, Unpaid, Working, On,
            At, None, Unread, Rules, Idle, PaidOf
<1> SUFFICES ASSUME NEW m \in HumanMail, m \notin lost', m \notin overlapped'
             PROVE  PaidOf(m)'
  BY DEF PaidInv
<1>a. m \notin lost /\ m \notin overlapped
  BY HistoryGrows
<1>b. PaidOf(m)
  BY <1>a DEF PaidInv
<1>c. \A s, t \in Slots : On(s, m) /\ On(t, m) => s = t
  BY <1>a DEF AloneInv
<1>d. \A s \in Slots : On(s, m) /\ Triages(s) => reading[m] = None
  BY <1>a DEF ViewInv
<1>1. ASSUME NEW n \in Messages, ObjectLost(n) PROVE PaidOf(m)'
  BY <1>1, <1>b DEF ObjectLost
<1>2. ASSUME NEW s \in Slots, JobLost(s) PROVE PaidOf(m)'
  BY <1>2, <1>b DEF JobLost, Free
<1>3. ASSUME NEW s \in Slots, Sweep(s) PROVE PaidOf(m)'
  BY <1>3, <1>b DEF Sweep
<1>4. ASSUME NEW s \in Slots, Defer(s) PROVE PaidOf(m)'
  BY <1>4, <1>b DEF Defer, Free
<1>5. ASSUME NEW s \in Slots, NEW n \in Messages, TakeJob(s, n)
      PROVE  PaidOf(m)'
  BY <1>5, <1>b DEF TakeJob, Job
<1>6. ASSUME NEW s \in Slots, Load(s) PROVE PaidOf(m)'
  <2>1. /\ \A t \in Slots \ {s} : slot'[t] = slot[t]
        /\ slot[s].pc = "load" /\ reading' = reading /\ paid' = paid
        /\ slot'[s] = Idle \/ slot'[s].pc = "fetch"
    BY <1>6 DEF Load, Free
  <2> HIDE DEF TypeOK, JobStates, SweepStates
  <2>2. QED
    BY <2>1, <1>b
<1>7. ASSUME NEW s \in Slots, StorageFails(s) PROVE PaidOf(m)'
  BY <1>7, <1>b DEF StorageFails, Free
<1>8. ASSUME NEW s \in Slots, Fetch(s) PROVE PaidOf(m)'
  <2>1. /\ \A t \in Slots \ {s} : slot'[t] = slot[t]
        /\ slot[s].pc = "fetch" /\ slot'[s].msg = slot[s].msg
        /\ reading' = reading /\ paid' = paid
    BY <1>8 DEF Fetch, Goes
  <2>2. ~At(s, "later")' /\ ~At(s, "memory")'
    BY <1>8 DEF Fetch, Goes, AnswerInv
  <2>3. QED
    BY <2>1, <2>2, <1>b
<1>9. ASSUME NEW s \in Slots, Unreadable(s) PROVE PaidOf(m)'
  BY <1>9, <1>b DEF Unreadable, Free, Kept
<1>10. ASSUME NEW s \in Slots, NEW a \in Readings, Answered(s, a)
      PROVE  PaidOf(m)'
  <2>1. /\ \A t \in Slots \ {s} : slot'[t] = slot[t]
        /\ slot[s].pc = "model" /\ slot[s].msg \in Messages
        /\ slot'[s].pc = "pick" /\ slot'[s].msg = slot[s].msg
        /\ reading' = reading
    BY <1>10 DEF Answered
  <2>2. /\ slot[s].msg # m => paid'[m] = paid[m]
        /\ paid'[m]["pick"] = paid[m]["pick"]
        /\ paid'[m]["memory"] = paid[m]["memory"]
    BY <1>10, <2>1, PaysFacts DEF Answered
  <2> HIDE DEF TypeOK, JobStates, SweepStates
  <2>3. QED
    BY <2>1, <2>2, <1>b
<1>11. ASSUME NEW s \in Slots, ModelFails(s) PROVE PaidOf(m)'
  BY <1>11, <1>b DEF ModelFails, Free
<1>12. ASSUME NEW s \in Slots, Record(s) PROVE PaidOf(m)'
  <2>1. /\ \A t \in Slots \ {s} : slot'[t] = slot[t]
        /\ slot[s].pc = "record" /\ slot[s].msg \in Messages
        /\ slot'[s].pc \in {"delivery", "later"} /\ slot'[s].msg = slot[s].msg
        /\ paid' = paid
    BY <1>12 DEF Record, Goes
  <2>2. /\ reading[m] # None => reading'[m] # None
        /\ slot[s].msg = m => reading[m] = None /\ reading'[m] # None
    <3>1. slot[s].msg = m => reading[m] = None
      BY <2>1, <1>d DEF Triages
    <3>2. slot[s].answer # None
      BY <1>12, AnswersAssumption DEF Record
    <3>3. QED
      BY <1>12, <2>1, <3>1, <3>2 DEF Record, Kept
  <2> HIDE DEF TypeOK, JobStates, SweepStates
  <2>3. QED
    BY <2>1, <2>2, <1>b
<1>13. ASSUME NEW s \in Slots, RecordDelivery(s) PROVE PaidOf(m)'
  BY <1>13, <1>b DEF RecordDelivery, Free
<1>14. ASSUME NEW s \in Slots, BlockRefused(s) PROVE PaidOf(m)'
  BY <1>14, <1>b DEF BlockRefused, Free
<1>15. ASSUME NEW s \in Slots, Backfill(s) PROVE PaidOf(m)'
  BY <1>15, <1>b DEF Backfill, Free
<1>16. ASSUME NEW s \in Slots, ReadPeople(s) PROVE PaidOf(m)'
  <2>1. /\ \A t \in Slots \ {s} : slot'[t] = slot[t]
        /\ slot[s].pc = "later" /\ slot[s].msg \in Messages
        /\ \/ slot'[s] = Idle
           \/ slot'[s].pc = "memory" /\ slot'[s].msg = slot[s].msg
        /\ reading' = reading /\ paid'[m] = paid[m]
    BY <1>16 DEF ReadPeople, Goes, Free
  <2> HIDE DEF TypeOK, JobStates, SweepStates
  <2>2. QED
    BY <2>1, <1>b
<1>17. ASSUME NEW s \in Slots, Pick(s) PROVE PaidOf(m)'
  <2>1. /\ \A t \in Slots \ {s} : slot'[t] = slot[t]
        /\ slot[s].pc = "pick" /\ slot[s].msg \in Messages
        /\ slot'[s].pc = "record" /\ slot'[s].msg = slot[s].msg
        /\ reading' = reading
    BY <1>17 DEF Pick
  <2>2. /\ slot[s].msg # m => paid'[m] = paid[m]
        /\ paid'[m]["reading"] = paid[m]["reading"]
        /\ paid'[m]["memory"] = paid[m]["memory"]
    BY <1>17, <2>1, PaysFacts DEF Pick
  <2> HIDE DEF TypeOK, JobStates, SweepStates
  <2>3. QED
    BY <2>1, <2>2, <1>b
<1>18. ASSUME NEW s \in Slots, Remember(s) PROVE PaidOf(m)'
  <2>1. /\ \A t \in Slots \ {s} : slot'[t] = slot[t]
        /\ slot[s].pc = "memory" /\ slot[s].msg \in Messages
        /\ slot'[s] = Idle /\ reading' = reading
    BY <1>18 DEF Remember, Free
  <2>2. /\ slot[s].msg # m => paid'[m] = paid[m]
        /\ paid'[m]["reading"] = paid[m]["reading"]
        /\ paid'[m]["pick"] = paid[m]["pick"]
    BY <1>18, <2>1, PaysFacts DEF Remember
  <2>3. slot[s].msg = m => reading[m] # None
    BY <2>1 DEF AnswerInv
  <2> HIDE DEF TypeOK, JobStates, SweepStates
  <2>4. QED
    BY <2>1, <2>2, <2>3, <1>b, <1>c
<1>19. CASE UNCHANGED vars
  BY <1>19, <1>b
<1>20. QED
  BY <1>1, <1>2, <1>3, <1>4, <1>5, <1>6, <1>7, <1>8, <1>9, <1>10, <1>11,
     <1>12, <1>13, <1>14, <1>15, <1>16, <1>17, <1>18, <1>19
  DEF Next, Step, Take, Fails

\* Every step keeps the later readings on their way.
LEMMA LaterStep ==
  ASSUME TypeOK, AnswerInv, LaterInv, [Next]_vars
  PROVE  LaterInv'
<1> USE DEF TypeOK, vars, queue, evidence, history, JobStates, SweepStates,
            Readings, Questions, HumanMail, Lost, Joined, Unpaid, Working, On,
            At, None, Unread, Rules, Idle, LaterInv
<1>1. ASSUME NEW m \in Messages, ObjectLost(m) PROVE LaterInv'
  BY <1>1, AnswersAssumption DEF ObjectLost, Fault
<1>2. ASSUME NEW s \in Slots, JobLost(s) PROVE LaterInv'
  BY <1>2, AnswersAssumption DEF JobLost, Free, Fault
<1>3. ASSUME NEW s \in Slots, Sweep(s) PROVE LaterInv'
  BY <1>3, AnswersAssumption DEF Sweep, Newest, Pending
<1>4. ASSUME NEW s \in Slots, Defer(s) PROVE LaterInv'
  BY <1>4, AnswersAssumption DEF Defer, Free
<1>5. ASSUME NEW s \in Slots, NEW m \in Messages, TakeJob(s, m)
      PROVE  LaterInv'
  BY <1>5, AnswersAssumption DEF TakeJob, Job
<1>6. ASSUME NEW s \in Slots, Load(s) PROVE LaterInv'
  <2>1. /\ \A t \in Slots \ {s} : slot'[t] = slot[t]
        /\ slot[s].pc = "load"
        /\ reading' = reading /\ people' = people /\ lost' = lost
    BY <1>6 DEF Load, Free
  <2> HIDE DEF TypeOK, JobStates, SweepStates
  <2>2. QED
    BY <2>1
<1>7. ASSUME NEW s \in Slots, StorageFails(s) PROVE LaterInv'
  BY <1>7, AnswersAssumption DEF StorageFails, Free, Fault
<1>8. ASSUME NEW s \in Slots, Fetch(s) PROVE LaterInv'
  BY <1>8, AnswersAssumption DEF Fetch, Goes
<1>9. ASSUME NEW s \in Slots, Unreadable(s) PROVE LaterInv'
  BY <1>9, AnswersAssumption DEF Unreadable, Free, Kept
<1>10. ASSUME NEW s \in Slots, NEW a \in Readings, Answered(s, a)
      PROVE  LaterInv'
  <2>1. /\ \A t \in Slots \ {s} : slot'[t] = slot[t]
        /\ slot[s].pc = "model"
        /\ reading' = reading /\ people' = people /\ lost' = lost
    BY <1>10 DEF Answered
  <2> HIDE DEF TypeOK, JobStates, SweepStates
  <2>2. QED
    BY <2>1
<1>11. ASSUME NEW s \in Slots, ModelFails(s) PROVE LaterInv'
  BY <1>11, AnswersAssumption DEF ModelFails, MayRetry, Free, Fault
<1>12. ASSUME NEW s \in Slots, Record(s) PROVE LaterInv'
  <2>1. \A t \in Slots \ {s} : slot'[t] = slot[t]
    BY <1>12 DEF Record, Goes
  <2>2. slot[s] \in JobStates /\ slot'[s].msg = slot[s].msg
    BY <1>12 DEF Record, Goes
  <2>3. Class[slot[s].msg] \in Human => slot'[s].pc = "later"
    BY <1>12 DEF Record, Goes, Human
  <2>4. \A m \in Messages \ {slot[s].msg} : reading'[m] = reading[m]
    BY <1>12 DEF Record, Kept
  <2>5. people' = people /\ lost' = lost /\ slot[s].pc = "record"
    BY <1>12 DEF Record
  <2> HIDE DEF TypeOK, JobStates, SweepStates
  <2>6. QED
    BY <2>1, <2>2, <2>3, <2>4, <2>5
<1>13. ASSUME NEW s \in Slots, RecordDelivery(s) PROVE LaterInv'
  BY <1>13, AnswersAssumption
  DEF RecordDelivery, BlockProved, ClassRead, Kept, Free
<1>14. ASSUME NEW s \in Slots, BlockRefused(s) PROVE LaterInv'
  BY <1>14, AnswersAssumption DEF BlockRefused, Free
<1>15. ASSUME NEW s \in Slots, Backfill(s) PROVE LaterInv'
  BY <1>15, AnswersAssumption DEF Backfill, Free, Fault
<1>16. ASSUME NEW s \in Slots, ReadPeople(s) PROVE LaterInv'
  <2>1. /\ \A t \in Slots \ {s} : slot'[t] = slot[t]
        /\ reading' = reading
    BY <1>16 DEF ReadPeople, Goes, Free
  <2>2. /\ people \subseteq people' /\ lost \subseteq lost'
        /\ slot[s].msg \in HumanMail =>
             slot[s].msg \in lost' \/ slot[s].msg \in people'
    BY <1>16 DEF ReadPeople
  <2> HIDE DEF TypeOK, JobStates, SweepStates
  <2>3. QED
    BY <2>1, <2>2
<1>17. ASSUME NEW s \in Slots, Pick(s) PROVE LaterInv'
  <2>1. /\ \A t \in Slots \ {s} : slot'[t] = slot[t]
        /\ slot[s].pc = "pick"
        /\ reading' = reading /\ people' = people /\ lost' = lost
    BY <1>17 DEF Pick
  <2> HIDE DEF TypeOK, JobStates, SweepStates
  <2>2. QED
    BY <2>1
<1>18. ASSUME NEW s \in Slots, Remember(s) PROVE LaterInv'
  BY <1>18, AnswersAssumption DEF Remember, Pays, Free
<1>19. CASE UNCHANGED vars
  BY <1>19, AnswersAssumption
<1>20. QED
  BY <1>1, <1>2, <1>3, <1>4, <1>5, <1>6, <1>7, <1>8, <1>9, <1>10, <1>11,
     <1>12, <1>13, <1>14, <1>15, <1>16, <1>17, <1>18, <1>19
  DEF Next, Step, Take, Fails

\* Every step keeps the proof of a block.
LEMMA BlockStep ==
  ASSUME TypeOK, AnswerInv, BlockIsProved, [Next]_vars
  PROVE  BlockIsProved'
<1> USE DEF TypeOK, vars, queue, evidence, history, JobStates, SweepStates,
            Readings, Questions, HumanMail, Lost, Joined, Unpaid, Working, On,
            At, None, Unread, Rules, Idle, AnswerInv, BlockIsProved, Human
<1>1. ASSUME NEW m \in Messages, ObjectLost(m) PROVE BlockIsProved'
  BY <1>1, AnswersAssumption DEF ObjectLost, Fault
<1>2. ASSUME NEW s \in Slots, JobLost(s) PROVE BlockIsProved'
  BY <1>2, AnswersAssumption DEF JobLost, Free, Fault
<1>3. ASSUME NEW s \in Slots, Sweep(s) PROVE BlockIsProved'
  BY <1>3, AnswersAssumption DEF Sweep, Newest, Pending
<1>4. ASSUME NEW s \in Slots, Defer(s) PROVE BlockIsProved'
  BY <1>4, AnswersAssumption DEF Defer, Free
<1>5. ASSUME NEW s \in Slots, NEW m \in Messages, TakeJob(s, m)
      PROVE  BlockIsProved'
  BY <1>5, AnswersAssumption DEF TakeJob, Job
<1>6. ASSUME NEW s \in Slots, Load(s) PROVE BlockIsProved'
  BY <1>6, AnswersAssumption DEF Load, Plan, Free
<1>7. ASSUME NEW s \in Slots, StorageFails(s) PROVE BlockIsProved'
  BY <1>7, AnswersAssumption DEF StorageFails, Free, Fault
<1>8. ASSUME NEW s \in Slots, Fetch(s) PROVE BlockIsProved'
  BY <1>8, AnswersAssumption DEF Fetch, Goes
<1>9. ASSUME NEW s \in Slots, Unreadable(s) PROVE BlockIsProved'
  BY <1>9, AnswersAssumption DEF Unreadable, Free, Kept
<1>10. ASSUME NEW s \in Slots, NEW a \in Readings, Answered(s, a)
      PROVE  BlockIsProved'
  BY <1>10, AnswersAssumption DEF Answered, Pays
<1>11. ASSUME NEW s \in Slots, ModelFails(s) PROVE BlockIsProved'
  BY <1>11, AnswersAssumption DEF ModelFails, MayRetry, Free, Fault
<1>12. ASSUME NEW s \in Slots, Record(s) PROVE BlockIsProved'
  BY <1>12, AnswersAssumption DEF Record, Kept, Named, Goes
<1>13. ASSUME NEW s \in Slots, RecordDelivery(s) PROVE BlockIsProved'
  BY <1>13, AnswersAssumption
  DEF RecordDelivery, BlockProved, ClassRead, Kept, Free
<1>14. ASSUME NEW s \in Slots, BlockRefused(s) PROVE BlockIsProved'
  BY <1>14, AnswersAssumption DEF BlockRefused, Free
<1>15. ASSUME NEW s \in Slots, Backfill(s) PROVE BlockIsProved'
  BY <1>15, AnswersAssumption DEF Backfill, Free, Fault
<1>16. ASSUME NEW s \in Slots, ReadPeople(s) PROVE BlockIsProved'
  BY <1>16, AnswersAssumption DEF ReadPeople, Goes, Free, Fault
<1>17. ASSUME NEW s \in Slots, Pick(s) PROVE BlockIsProved'
  BY <1>17, AnswersAssumption DEF Pick, Pays, Fault
<1>18. ASSUME NEW s \in Slots, Remember(s) PROVE BlockIsProved'
  BY <1>18, AnswersAssumption DEF Remember, Pays, Free
<1>19. CASE UNCHANGED vars
  BY <1>19, AnswersAssumption
<1>20. QED
  BY <1>1, <1>2, <1>3, <1>4, <1>5, <1>6, <1>7, <1>8, <1>9, <1>10, <1>11,
     <1>12, <1>13, <1>14, <1>15, <1>16, <1>17, <1>18, <1>19
  DEF Next, Step, Take, Fails

\* A first payment keeps the payments apart.
LEMMA FirstPayment ==
  ASSUME TypeOK, PaidOnce, NEW s \in Slots, slot[s].msg \in Messages,
         NEW q \in Questions, Pays(s, q) \/ UNCHANGED paid,
         UNCHANGED <<lost, overlapped>>,
         slot[s].msg \in HumanMail \ (lost \cup overlapped) =>
           paid[slot[s].msg][q] = 0
  PROVE  PaidOnce'
<1> SUFFICES ASSUME NEW m \in HumanMail \ (lost \cup overlapped),
                    NEW p \in Questions
             PROVE  paid'[m][p] <= 1
  BY DEF PaidOnce
<1>1. /\ paid[m][p] <= 1 /\ paid \in [Messages -> [Questions -> Nat]]
      /\ m \in Messages /\ paid[m][p] \in Nat
  BY DEF PaidOnce, TypeOK, HumanMail
<1>2. CASE slot[s].msg = m /\ p = q
  BY <1>1, <1>2, PaysFacts
<1>3. CASE ~(slot[s].msg = m /\ p = q)
  BY <1>1, <1>3, PaysFacts
<1>4. QED
  BY <1>2, <1>3

\* Every step keeps the payments apart.
LEMMA OnceStep ==
  ASSUME TypeOK, AloneInv, ViewInv, PaidInv, PaidOnce, [Next]_vars
  PROVE  PaidOnce'
<1> USE DEF TypeOK, vars, queue, evidence, history, JobStates, SweepStates,
            Readings, Questions, HumanMail, Lost, Joined, Unpaid, Working, On,
            At, None, Unread, Rules, Idle, PaidOnce, AloneInv, ViewInv,
            PaidInv, Triages
<1>1. ASSUME NEW m \in Messages, ObjectLost(m) PROVE PaidOnce'
  BY <1>1, AnswersAssumption DEF ObjectLost, Fault
<1>2. ASSUME NEW s \in Slots, JobLost(s) PROVE PaidOnce'
  BY <1>2, AnswersAssumption DEF JobLost, Free, Fault
<1>3. ASSUME NEW s \in Slots, Sweep(s) PROVE PaidOnce'
  BY <1>3, AnswersAssumption DEF Sweep, Newest, Pending
<1>4. ASSUME NEW s \in Slots, Defer(s) PROVE PaidOnce'
  BY <1>4, AnswersAssumption DEF Defer, Free
<1>5. ASSUME NEW s \in Slots, NEW m \in Messages, TakeJob(s, m)
      PROVE  PaidOnce'
  BY <1>5, AnswersAssumption DEF TakeJob, Job
<1>6. ASSUME NEW s \in Slots, Load(s) PROVE PaidOnce'
  BY <1>6, AnswersAssumption DEF Load, Plan, Free
<1>7. ASSUME NEW s \in Slots, StorageFails(s) PROVE PaidOnce'
  BY <1>7, AnswersAssumption DEF StorageFails, Free, Fault
<1>8. ASSUME NEW s \in Slots, Fetch(s) PROVE PaidOnce'
  BY <1>8, AnswersAssumption DEF Fetch, Goes
<1>9. ASSUME NEW s \in Slots, Unreadable(s) PROVE PaidOnce'
  BY <1>9, AnswersAssumption DEF Unreadable, Free, Kept
<1>10. ASSUME NEW s \in Slots, NEW a \in Readings, Answered(s, a)
      PROVE  PaidOnce'
  <2>1. /\ slot[s].pc = "model" /\ slot[s].msg \in Messages
        /\ Pays(s, "reading") \/ UNCHANGED paid
        /\ UNCHANGED <<lost, overlapped>>
    BY <1>10 DEF Answered
  <2> HIDE DEF TypeOK, JobStates, SweepStates
  <2>2. ASSUME slot[s].msg \in HumanMail \ (lost \cup overlapped)
        PROVE  paid[slot[s].msg]["reading"] = 0
    BY <2>1, <2>2 DEF PaidOf
  <2>3. QED
    BY <2>1, <2>2, FirstPayment
<1>11. ASSUME NEW s \in Slots, ModelFails(s) PROVE PaidOnce'
  BY <1>11, AnswersAssumption DEF ModelFails, MayRetry, Free, Fault
<1>12. ASSUME NEW s \in Slots, Record(s) PROVE PaidOnce'
  BY <1>12, AnswersAssumption DEF Record, Kept, Named, Goes
<1>13. ASSUME NEW s \in Slots, RecordDelivery(s) PROVE PaidOnce'
  BY <1>13, AnswersAssumption
  DEF RecordDelivery, BlockProved, ClassRead, Kept, Free
<1>14. ASSUME NEW s \in Slots, BlockRefused(s) PROVE PaidOnce'
  BY <1>14, AnswersAssumption DEF BlockRefused, Free
<1>15. ASSUME NEW s \in Slots, Backfill(s) PROVE PaidOnce'
  BY <1>15, AnswersAssumption DEF Backfill, Free, Fault
<1>16. ASSUME NEW s \in Slots, ReadPeople(s) PROVE PaidOnce'
  BY <1>16, AnswersAssumption DEF ReadPeople, Goes, Free, Fault
<1>17. ASSUME NEW s \in Slots, Pick(s) PROVE PaidOnce'
  <2>1. /\ slot[s].pc = "pick" /\ slot[s].msg \in Messages
        /\ Pays(s, "pick") \/ UNCHANGED paid
        /\ UNCHANGED <<lost, overlapped>>
    BY <1>17 DEF Pick
  <2> HIDE DEF TypeOK, JobStates, SweepStates
  <2>2. ASSUME slot[s].msg \in HumanMail \ (lost \cup overlapped)
        PROVE  paid[slot[s].msg]["pick"] = 0
    BY <2>1, <2>2 DEF PaidOf
  <2>3. QED
    BY <2>1, <2>2, FirstPayment
<1>18. ASSUME NEW s \in Slots, Remember(s) PROVE PaidOnce'
  <2>1. /\ slot[s].pc = "memory" /\ slot[s].msg \in Messages
        /\ Pays(s, "memory") \/ UNCHANGED paid
        /\ UNCHANGED <<lost, overlapped>>
    BY <1>18 DEF Remember
  <2> HIDE DEF TypeOK, JobStates, SweepStates
  <2>2. ASSUME slot[s].msg \in HumanMail \ (lost \cup overlapped)
        PROVE  paid[slot[s].msg]["memory"] = 0
    BY <2>1, <2>2 DEF PaidOf
  <2>3. QED
    BY <2>1, <2>2, FirstPayment
<1>19. CASE UNCHANGED vars
  BY <1>19, AnswersAssumption
<1>20. QED
  BY <1>1, <1>2, <1>3, <1>4, <1>5, <1>6, <1>7, <1>8, <1>9, <1>10, <1>11,
     <1>12, <1>13, <1>14, <1>15, <1>16, <1>17, <1>18, <1>19
  DEF Next, Step, Take, Fails

\* Every step keeps the mentions with their reading.
LEMMA MentionsStep ==
  ASSUME TypeOK, AnswerInv, AloneInv, ViewInv, MentionsAreOfTheReading,
         [Next]_vars
  PROVE  MentionsAreOfTheReading'
<1> USE DEF TypeOK, vars, queue, evidence, history, JobStates, SweepStates,
            Readings, Questions, HumanMail, Lost, Joined, Unpaid, Working, On,
            At, None, Unread, Rules, Idle, MentionsAreOfTheReading, ViewInv,
            Triages, Named
<1>1. ASSUME NEW m \in Messages, ObjectLost(m) PROVE MentionsAreOfTheReading'
  BY <1>1, AnswersAssumption DEF ObjectLost, Fault
<1>2. ASSUME NEW s \in Slots, JobLost(s) PROVE MentionsAreOfTheReading'
  BY <1>2, AnswersAssumption DEF JobLost, Free, Fault
<1>3. ASSUME NEW s \in Slots, Sweep(s) PROVE MentionsAreOfTheReading'
  BY <1>3, AnswersAssumption DEF Sweep, Newest, Pending
<1>4. ASSUME NEW s \in Slots, Defer(s) PROVE MentionsAreOfTheReading'
  BY <1>4, AnswersAssumption DEF Defer, Free
<1>5. ASSUME NEW s \in Slots, NEW m \in Messages, TakeJob(s, m)
      PROVE  MentionsAreOfTheReading'
  BY <1>5, AnswersAssumption DEF TakeJob, Job
<1>6. ASSUME NEW s \in Slots, Load(s) PROVE MentionsAreOfTheReading'
  BY <1>6, AnswersAssumption DEF Load, Plan, Free
<1>7. ASSUME NEW s \in Slots, StorageFails(s) PROVE MentionsAreOfTheReading'
  BY <1>7, AnswersAssumption DEF StorageFails, Free, Fault
<1>8. ASSUME NEW s \in Slots, Fetch(s) PROVE MentionsAreOfTheReading'
  BY <1>8, AnswersAssumption DEF Fetch, Goes
<1>9. ASSUME NEW s \in Slots, Unreadable(s) PROVE MentionsAreOfTheReading'
  BY <1>9, AnswersAssumption DEF Unreadable, Free, Kept
<1>10. ASSUME NEW s \in Slots, NEW a \in Readings, Answered(s, a)
      PROVE  MentionsAreOfTheReading'
  BY <1>10, AnswersAssumption DEF Answered, Pays
<1>11. ASSUME NEW s \in Slots, ModelFails(s) PROVE MentionsAreOfTheReading'
  BY <1>11, AnswersAssumption DEF ModelFails, MayRetry, Free, Fault
<1>12. ASSUME NEW s \in Slots, Record(s) PROVE MentionsAreOfTheReading'
  <2> DEFINE n == slot[s].msg
  <2>1. slot[s] \in JobStates /\ n \in Messages /\ overlapped' = overlapped
    BY <1>12 DEF Record
  <2>2. \A m \in Messages \ {n} :
          reading'[m] = reading[m] /\ mentions'[m] = mentions[m]
    BY <1>12 DEF Record, Kept
  <2>3. ASSUME n \in HumanMail, n \notin overlapped
        PROVE  mentions'[n] # {} => mentions'[n] = Named(n, reading'[n])
    <3>1. reading[n] = None
      BY <1>12, <2>1, <2>3 DEF Record
    <3>2. mentions[n] = {}
      BY <2>1, <2>3, <3>1, AnswersAssumption
      DEF MentionsAreOfTheReading, Named
    <3>3. reading'[n] = slot[s].answer
      BY <1>12, <2>1, <3>1 DEF Record, Kept
    <3>4. mentions'[n] = Named(n, slot[s].answer)
      BY <1>12, <2>1, <3>2 DEF Record
    <3>5. QED
      BY <3>3, <3>4
  <2>4. QED
    BY <2>1, <2>2, <2>3
<1>13. ASSUME NEW s \in Slots, RecordDelivery(s)
      PROVE  MentionsAreOfTheReading'
  BY <1>13, AnswersAssumption
  DEF RecordDelivery, BlockProved, ClassRead, Kept, Free
<1>14. ASSUME NEW s \in Slots, BlockRefused(s) PROVE MentionsAreOfTheReading'
  BY <1>14, AnswersAssumption DEF BlockRefused, Free
<1>15. ASSUME NEW s \in Slots, Backfill(s) PROVE MentionsAreOfTheReading'
  BY <1>15, AnswersAssumption DEF Backfill, Free, Fault
<1>16. ASSUME NEW s \in Slots, ReadPeople(s) PROVE MentionsAreOfTheReading'
  BY <1>16, AnswersAssumption DEF ReadPeople, Goes, Free, Fault
<1>17. ASSUME NEW s \in Slots, Pick(s) PROVE MentionsAreOfTheReading'
  BY <1>17, AnswersAssumption DEF Pick, Pays, Fault
<1>18. ASSUME NEW s \in Slots, Remember(s) PROVE MentionsAreOfTheReading'
  BY <1>18, AnswersAssumption DEF Remember, Pays, Free
<1>19. CASE UNCHANGED vars
  BY <1>19, AnswersAssumption
<1>20. QED
  BY <1>1, <1>2, <1>3, <1>4, <1>5, <1>6, <1>7, <1>8, <1>9, <1>10, <1>11,
     <1>12, <1>13, <1>14, <1>15, <1>16, <1>17, <1>18, <1>19
  DEF Next, Step, Take, Fails

\* The invariant holds at the start.
LEMMA InitInv == Init => IInv
BY BoundsAssumption, AnswersAssumption
DEF Init, IInv, TypeOK, AnswerInv, AloneInv, ViewInv, PaidInv, LaterInv,
    BlockIsProved, PaidOnce, MentionsAreOfTheReading, On, At, Working, Idle,
    PaidOf, HumanMail, Unpaid, Questions, Readings, None, Unread, Rules, Triages

\* Every step keeps it.
LEMMA StepInv == IInv /\ [Next]_vars => IInv'
BY TypeStep, AnswerStep, AloneStep, ViewStep, PaidStep, LaterStep, BlockStep,
   OnceStep, MentionsStep DEF IInv

\* IInv is an invariant of the queue, for every set of messages, slots and
\* answers and every bound.
THEOREM Inductive == Spec => []IInv
<1>1. Init => IInv
  BY InitInv
<1>2. IInv /\ [Next]_vars => IInv'
  BY StepInv
<1>3. QED
  BY <1>1, <1>2, PTL DEF Spec

\* Every variable keeps its type, and a job's attempts stay within Tries.
THEOREM TypeCorrect == Spec => []TypeOK
<1>1. IInv => TypeOK
  BY DEF IInv
<1>2. QED
  BY <1>1, Inductive, PTL

\* An address is blocked only on a stored bounce reading and an observation
\* that names it (record_delivery_failure, outbound.add_contact_control).
THEOREM BlocksAreProved == Spec => []BlockIsProved
<1>1. IInv => BlockIsProved
  BY DEF IInv
<1>2. QED
  BY <1>1, Inductive, PTL

\* Each question about a mail is paid for once, but for failures and overlaps.
THEOREM PaysOnce == Spec => []PaidOnce
<1>1. IInv => PaidOnce
  BY DEF IInv
<1>2. QED
  BY <1>1, Inductive, PTL

\* The product mentions are those of the one reading, but for overlaps.
THEOREM MentionsMatch == Spec => []MentionsAreOfTheReading
<1>1. IInv => MentionsAreOfTheReading
  BY DEF IInv
<1>2. QED
  BY <1>1, Inductive, PTL

\* The later readings follow the triage, but for failures.
THEOREM PeopleFollow == Spec => []PeopleAreRead
<1>1. IInv => PeopleAreRead
  BY DEF IInv, LaterInv, PeopleAreRead, HumanMail
<1>2. QED
  BY <1>1, Inductive, PTL

==============================================================================
