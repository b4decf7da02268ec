----------------------------- MODULE TriageQueue -----------------------------
(***************************************************************************)
(* The triage queue of the mail worker (task_queue.py, triage.py): a sweep *)
(* a minute finds the messages that want a reading and defers a job for    *)
(* each; a job reads the .eml, asks the model when a person wrote it, and  *)
(* records what was read as evidence that is only ever inserted.           *)
(*                                                                         *)
(* Of mail a person wrote the model is asked up to three questions: what   *)
(* it says and, when the matcher is not sure, which case it is of, both    *)
(* before anything is recorded; and, when that is enabled, what to keep in *)
(* the memory of its cases, after.  The calls of the last, up to three for *)
(* a case, count as one.                                                   *)
(*                                                                         *)
(* A queueing lock keeps one job per message waiting, and none running: a  *)
(* job that takes longer than a minute is joined by a second one.  Each    *)
(* step below is one statement or transaction, so that jobs interleave     *)
(* where the code lets them.  An answer of the model stands for the        *)
(* products it names; what a message is (Class) is the verdict of the      *)
(* rules, which depends on the message alone.                              *)
(***************************************************************************)
EXTENDS Integers, FiniteSets

CONSTANTS Messages, \* captured and parsed, of the last DEFAULT_SINCE_DAYS
                    \* days: a newer one is greater
          Class,    \* what the rules say of each
          Slots,    \* jobs that run at once (WORKER_CONCURRENCY)
          Answers,  \* what the model may answer
          Limit,    \* SWEEP_LIMIT
          Tries,    \* RETRY.max_attempts
          MaxFaults \* bound: failures and deaths

Human == {"quote_request", "business"}
Classes == Human \cup {"bounce", "noise"}
HumanMail == {m \in Messages : Class[m] \in Human}
Questions == {"reading", "pick", "memory"}

ASSUME MessagesAssumption == Messages \subseteq Int
ASSUME ClassAssumption == Class \in [Messages -> Classes]
ASSUME AnswersAssumption == Answers \cap {"none", "unreadable", "rules"} = {}
ASSUME BoundsAssumption ==
  Limit \in Nat \ {0} /\ Tries \in Nat \ {0} /\ MaxFaults \in Nat

None == "none"
Unread == "unreadable"
Rules == "rules"
Readings == Answers \cup {Rules}

VARIABLES
  todo,      \* the messages with a waiting job
  tries,     \* the attempts it has had (procrastinate_jobs.attempts)
  slot,      \* what each slot does
  reading,   \* message_triage triage:v<N>
  requester, \* messages with requester:v1
  matched,   \* messages with case_match:v<N>
  delivery,  \* delivery_failure: "hard" names the address to block
  blocks,    \* messages whose address is blocked
  mentions,  \* product_mention rows
  people,    \* messages with people:v1 and the other later readings
  gone,      \* messages whose .eml is not in Storage, or does not parse
  faults,
  \* history, kept of the mail that people wrote
  lost,      \* a job on it failed or died
  overlapped, \* two jobs worked on it at once
  paid       \* the answers to each question, until one of these happens

queue == <<todo, tries>>
evidence == <<reading, requester, matched, delivery, blocks, mentions, people>>
history == <<lost, overlapped, paid>>
vars == <<queue, slot, evidence, gone, faults, history>>

Idle == [pc |-> "idle"]
Job(m, n) ==
  [pc |-> "load", msg |-> m, try |-> n, plan |-> None, answer |-> Rules,
   match |-> FALSE]
Working == {"load", "fetch", "model", "pick", "record", "delivery",
            "requester", "match", "later", "memory"}
On(s, m) == slot[s].pc \in Working /\ slot[s].msg = m
At(s, pc) == slot[s].pc = pc
Goes(s, pc) == slot' = [slot EXCEPT ![s].pc = pc]
Free(s) == slot' = [slot EXCEPT ![s] = Idle]

Unpaid == [q \in Questions |-> 0]

Fault == faults < MaxFaults /\ faults' = faults + 1

\* Some messages were triaged before there were requesters, case matches and
\* delivery observations; people-backfill has been run on them.
Init ==
  /\ todo = {} /\ tries = [m \in Messages |-> 0]
  /\ slot = [s \in Slots |-> Idle]
  /\ \E old \in SUBSET Messages :
       /\ reading = [m \in Messages |-> IF m \in old THEN Rules ELSE None]
       /\ people = old
  /\ requester = {} /\ matched = {} /\ blocks = {}
  /\ delivery = [m \in Messages |-> None]
  /\ mentions = [m \in Messages |-> {}]
  /\ gone = {} /\ faults = 0
  /\ paid = [m \in Messages |-> Unpaid]
  /\ lost = {} /\ overlapped = {}

-----------------------------------------------------------------------------
(* Storage, and the processes that run the slots.                          *)

ObjectLost(m) ==
  /\ m \notin gone /\ Fault
  /\ gone' = gone \cup {m}
  /\ UNCHANGED <<queue, slot, evidence, history>>

Lost(m) ==
  /\ lost' = lost \cup ({m} \cap HumanMail)
  /\ paid' = [paid EXCEPT ![m] = Unpaid]

\* A slot's job dies with its process or on a database error; its row stays
\* in the table, neither waiting nor run again.
JobLost(s) ==
  /\ ~At(s, "idle") /\ Fault
  /\ Free(s)
  /\ IF At(s, "sweep") THEN UNCHANGED <<lost, paid>> ELSE Lost(slot[s].msg)
  /\ UNCHANGED <<queue, evidence, gone, overlapped>>

-----------------------------------------------------------------------------
(* The sweep and the queue.                                                *)

ClassRead(m) == IF reading[m] = Unread THEN Unread ELSE Class[m]

\* _PENDING
Pending(m) ==
  \/ reading[m] = None
  \/ ClassRead(m) = "bounce" /\ delivery[m] = None
  \/ ClassRead(m) = "quote_request" /\ m \notin requester
  \/ ClassRead(m) \in Human /\ m \notin matched

\* order by internal_date desc limit SWEEP_LIMIT
Newest(ms) == {m \in ms : Cardinality({n \in ms : n > m}) < Limit}

\* The job of the periodic sweep takes a slot, as any other, and reads.
Sweep(s) ==
  /\ At(s, "idle")
  /\ slot' = [slot EXCEPT ![s] =
        [pc |-> "sweep", batch |-> Newest({m \in Messages : Pending(m)})]]
  /\ UNCHANGED <<queue, evidence, gone, faults, history>>

\* What it read may be old by now.  AlreadyEnqueued while a job of the message
\* waits.
Defer(s) ==
  /\ At(s, "sweep")
  /\ todo' = todo \cup slot[s].batch
  /\ Free(s)
  /\ UNCHANGED <<tries, evidence, gone, faults, history>>

Joined(m) ==
  /\ overlapped' = overlapped \cup ({m} \cap HumanMail)
  /\ paid' = [paid EXCEPT ![m] = Unpaid]

\* procrastinate_fetch_job: the job is no longer waiting.
TakeJob(s, m) ==
  /\ At(s, "idle") /\ m \in todo
  /\ todo' = todo \ {m}
  /\ slot' = [slot EXCEPT ![s] = Job(m, tries[m])]
  /\ IF \E t \in Slots : On(t, m) THEN Joined(m)
                                   ELSE UNCHANGED <<overlapped, paid>>
  /\ tries' = [tries EXCEPT ![m] = 0]
  /\ UNCHANGED <<evidence, gone, faults, lost>>

-----------------------------------------------------------------------------
(* triage_one.                                                             *)

\* Mutant: a message that has its reading is read again.
PlanAgain(m) == "triage"

\* Mutant: a case match that is missing is not asked for.
PlanNoMatch(m) ==
  IF reading[m] = None THEN "triage"
  ELSE IF ClassRead(m) = "bounce" /\ delivery[m] = None THEN "delivery"
  ELSE IF ClassRead(m) = "quote_request" /\ m \notin requester THEN "requester"
  ELSE None

\* What is missing, in the order the job asks.
Plan(m) ==
  IF reading[m] = None THEN "triage"
  ELSE IF ClassRead(m) = "bounce" /\ delivery[m] = None THEN "delivery"
  ELSE IF ClassRead(m) = "quote_request" /\ m \notin requester THEN "requester"
  ELSE IF ClassRead(m) \in Human /\ m \notin matched THEN "match"
  ELSE None

Load(s) ==
  /\ At(s, "load")
  /\ LET plan == Plan(slot[s].msg)
     IN IF plan = None THEN Free(s)
        ELSE slot' = [slot EXCEPT ![s].pc = "fetch", ![s].plan = plan]
  /\ UNCHANGED <<queue, evidence, gone, faults, history>>

StorageFails(s) ==
  /\ At(s, "fetch") /\ Fault
  /\ Free(s)
  /\ UNCHANGED <<queue, evidence, gone, history>>

\* The .eml is there: a first triage of mail a person wrote asks the model.
Fetch(s) ==
  /\ At(s, "fetch") /\ slot[s].msg \notin gone
  /\ Goes(s, IF slot[s].plan # "triage" THEN slot[s].plan
             ELSE IF Class[slot[s].msg] \in Human THEN "model" ELSE "record")
  /\ UNCHANGED <<queue, evidence, gone, faults, history>>

\* Insert ... on conflict do nothing.
Kept(table, m, value) == IF table[m] = None THEN [table EXCEPT ![m] = value]
                                            ELSE table

\* _unreadable: it writes for a first triage and for a bounce, nothing else.
Unreadable(s) ==
  LET m == slot[s].msg
  IN /\ At(s, "fetch") /\ m \in gone
     /\ delivery' = IF slot[s].plan = "delivery" THEN Kept(delivery, m, "empty")
                                                 ELSE delivery
     /\ reading' = IF slot[s].plan = "triage" THEN Kept(reading, m, Unread)
                                              ELSE reading
     /\ Free(s)
     /\ UNCHANGED <<queue, requester, matched, blocks, mentions, people, gone,
                    faults, history>>

Pays(s, q) ==
  LET m == slot[s].msg
  IN paid' = IF m \in lost \cup overlapped THEN paid
                                          ELSE [paid EXCEPT ![m][q] = @ + 1]

\* The reader answers.  The rules alone are recorded when it is off or fails
\* for good, and when parse_reading refuses the answer, which was paid for.
Answered(s, a) ==
  /\ At(s, "model")
  /\ slot' = [slot EXCEPT ![s].pc = "pick", ![s].answer = a]
  /\ Pays(s, "reading") \/ (a = Rules /\ UNCHANGED paid)
  /\ UNCHANGED <<queue, evidence, gone, faults, lost, overlapped>>

\* match_message with its settings: its own reads may fail, and then there is
\* no match.  It asks the reader again unless the reader is off, layer 1 is
\* sure or the thread is a tender's; a call that fails is not paid for, and
\* whatever the answer was there is a match.
Pick(s) ==
  /\ At(s, "pick")
  /\ \E found \in BOOLEAN :
       /\ slot' = [slot EXCEPT ![s].pc = "record", ![s].match = found]
       /\ \/ found /\ UNCHANGED faults /\ (Pays(s, "pick") \/ UNCHANGED paid)
          \/ ~found /\ Fault /\ UNCHANGED paid
  /\ UNCHANGED <<queue, evidence, gone, lost, overlapped>>

\* Mutant: one retry more.
MayRetryMore(s) == slot[s].try <= Tries

\* The attempts are counted as they end, and max_attempts bounds the retries.
MayRetry(s) == slot[s].try < Tries

\* ModelUnavailable: the job waits again under its lock.  When a sweep has put
\* another in its place, the unique index refuses and the row stays behind.
ModelFails(s) ==
  LET m == slot[s].msg
      again == MayRetry(s) /\ m \notin todo
  IN /\ At(s, "model") /\ Fault
     /\ todo' = IF again THEN todo \cup {m} ELSE todo
     /\ tries' = IF again THEN [tries EXCEPT ![m] = slot[s].try + 1] ELSE tries
     /\ Free(s)
     /\ UNCHANGED <<evidence, gone, history>>

Named(m, a) == IF Class[m] \in Human THEN {a} ELSE {}

\* Mutant: the transaction ends at the reading.
RecordEnds(s) ==
  LET m == slot[s].msg
  IN /\ At(s, "record")
     /\ reading' = Kept(reading, m, slot[s].answer)
     /\ requester' = IF Class[m] = "quote_request" THEN requester \cup {m}
                                                   ELSE requester
     /\ matched' = IF slot[s].match THEN matched \cup {m} ELSE matched
     /\ mentions' = [mentions EXCEPT ![m] = @ \cup Named(m, slot[s].answer)]
     /\ Free(s)
     /\ UNCHANGED <<queue, delivery, blocks, people, gone, faults, history>>

\* TriageDb.record, one transaction of inserts, the match among them if there
\* is one.
Record(s) ==
  LET m == slot[s].msg
  IN /\ At(s, "record")
     /\ reading' = Kept(reading, m, slot[s].answer)
     /\ requester' = IF Class[m] = "quote_request" THEN requester \cup {m}
                                                   ELSE requester
     /\ matched' = IF slot[s].match THEN matched \cup {m} ELSE matched
     /\ mentions' = [mentions EXCEPT ![m] = @ \cup Named(m, slot[s].answer)]
     /\ Goes(s, IF Class[m] = "bounce" THEN "delivery" ELSE "later")
     /\ UNCHANGED <<queue, delivery, blocks, people, gone, faults, history>>

\* What outbound.add_contact_control looks up again for itself.
BlockProved(m, observed) ==
  ClassRead(m) = "bounce" /\ reading[m] # None /\ observed = "hard"

\* record_delivery_failure: the observation and the block commit together.  A
\* bounce is one that names an address to block: of the others only the
\* observation is kept.
RecordDelivery(s) ==
  LET m == slot[s].msg
      found == Kept(delivery, m, "hard")
  IN /\ At(s, "delivery")
     /\ BlockProved(m, found[m])
     /\ delivery' = found
     /\ blocks' = blocks \cup {m}
     /\ Free(s)
     /\ UNCHANGED <<queue, reading, requester, matched, mentions, people, gone,
                    faults, history>>

\* The database refuses the block: both are rolled back and the job fails.
BlockRefused(s) ==
  LET m == slot[s].msg
  IN /\ At(s, "delivery")
     /\ ~BlockProved(m, Kept(delivery, m, "hard")[m])
     /\ Free(s)
     /\ UNCHANGED <<queue, evidence, gone, faults, history>>

Backfill(s) ==
  LET m == slot[s].msg
  IN /\ \/ /\ At(s, "requester") /\ requester' = requester \cup {m}
           /\ UNCHANGED <<matched, faults>>
        \/ /\ At(s, "match") /\ matched' = matched \cup {m}
           /\ UNCHANGED <<requester, faults>>
        \/ At(s, "match") /\ Fault /\ UNCHANGED <<requester, matched>>
     /\ Free(s)
     /\ UNCHANGED <<queue, reading, delivery, blocks, mentions, people, gone,
                    history>>

\* The readings after the triage, each in a transaction of its own that may
\* fail without failing the job.
ReadPeople(s) ==
  LET m == slot[s].msg
  IN /\ At(s, "later")
     /\ \/ /\ people' = IF Class[m] \in Human THEN people \cup {m} ELSE people
           /\ UNCHANGED <<faults, lost, paid>>
        \/ Fault /\ Lost(m) /\ UNCHANGED people
     /\ IF Class[m] \in Human THEN Goes(s, "memory") ELSE Free(s)
     /\ UNCHANGED <<queue, reading, requester, matched, delivery, blocks,
                    mentions, gone, overlapped>>

\* record_memory_reading: off, with no case to keep, refused by the match or
\* unanswered it costs nothing.  Whatever fails in it is swallowed.
Remember(s) ==
  /\ At(s, "memory")
  /\ Pays(s, "memory") \/ UNCHANGED paid
  /\ Free(s)
  /\ UNCHANGED <<queue, evidence, gone, faults, lost, overlapped>>

-----------------------------------------------------------------------------
Step(s) ==
  \/ Defer(s) \/ Load(s) \/ Fetch(s) \/ Unreadable(s)
  \/ \E a \in Readings : Answered(s, a)
  \/ Pick(s) \/ Record(s) \/ RecordDelivery(s) \/ BlockRefused(s)
  \/ Backfill(s) \/ ReadPeople(s) \/ Remember(s)

Take(s) == Sweep(s) \/ \E m \in Messages : TakeJob(s, m)

Fails(s) == JobLost(s) \/ StorageFails(s) \/ ModelFails(s)

Next ==
  \/ \E m \in Messages : ObjectLost(m)
  \/ \E s \in Slots : Take(s) \/ Step(s) \/ Fails(s)

Spec == Init /\ [][Next]_vars

\* The deferrer goes on, a slot's step ends, and jobs are fetched in the order
\* of their ids, so that none is passed over for ever.
Fairness ==
  /\ \A s \in Slots : WF_vars(Step(s))
  /\ SF_vars(\E s \in Slots : Sweep(s))
  /\ \A m \in Messages : SF_vars(\E s \in Slots : TakeJob(s, m))

FairSpec == Spec /\ Fairness

-----------------------------------------------------------------------------
JobStates ==
  [pc : Working, msg : Messages, try : 0 .. Tries,
   plan : {None, "triage", "delivery", "requester", "match"},
   answer : Readings, match : BOOLEAN]
SweepStates == [pc : {"sweep"}, batch : SUBSET Messages]

\* The types; a job's attempts never pass RETRY.max_attempts.
TypeOK ==
  /\ todo \subseteq Messages
  /\ tries \in [Messages -> 0 .. Tries]
  /\ slot \in [Slots -> {Idle} \cup SweepStates \cup JobStates]
  /\ reading \in [Messages -> Readings \cup {None, Unread}]
  /\ requester \subseteq Messages /\ matched \subseteq Messages
  /\ delivery \in [Messages -> {None, "empty", "hard"}]
  /\ blocks \subseteq Messages /\ people \subseteq Messages
  /\ mentions \in [Messages -> SUBSET Readings]
  /\ gone \subseteq Messages
  /\ faults \in 0 .. MaxFaults
  /\ paid \in [Messages -> [Questions -> Nat]]
  /\ lost \subseteq Messages /\ overlapped \subseteq Messages

\* An address is blocked only on the stored word of a message that is read as
\* a bounce and of an observation that names the address, whatever jobs, lost
\* objects and deaths came between (record_delivery_failure).
BlockIsProved ==
  \A m \in blocks :
    reading[m] = Rules /\ Class[m] = "bounce" /\ delivery[m] = "hard"

\* No question about a mail is answered, and so paid for, twice: neither what
\* it says, nor the pick of its case, nor its round of memory; but for mail a
\* job on which failed or died, or two worked at once.  A refused
\* answer counts, a failed call does not (triage_one looks for a reading before
\* it asks anything; a retry starts before any answer; a backfill asks nothing).
PaidOnce ==
  \A m \in HumanMail \ (lost \cup overlapped) : \A q \in Questions :
    paid[m][q] <= 1

\* The product mentions of a mail are those of its one reading, unless two
\* jobs worked on it at once (TriageDb.record).
MentionsAreOfTheReading ==
  \A m \in HumanMail \ overlapped :
    mentions[m] # {} => mentions[m] = Named(m, reading[m])

\* Mail a person wrote that has its triage reading has the later readings too,
\* when its job has ended, unless a job on it failed or died.
PeopleAreRead ==
  \A m \in HumanMail \ lost :
    /\ reading[m] \in Readings
    /\ \A s \in Slots : ~On(s, m)
    => m \in people

\* A message the sweep should find leaves the queue, as long as Storage still
\* has every .eml (sweep_untriaged, triage_message).
PendingIsTriaged ==
  \A m \in Messages : Pending(m) ~> (~Pending(m) \/ gone # {})
=============================================================================
