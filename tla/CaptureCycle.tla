---------------------------- MODULE CaptureCycle ----------------------------
(***************************************************************************)
(* The one-minute capture cycle (capture_queue.py): check Gmail; when that *)
(* stored mail, when this process has not followed up yet, or when it last *)
(* did FOLLOWUP_EVERY ago, file in Drive and read the quotes.  Two worker  *)
(* processes overlap during a deploy.  A child command is one step that    *)
(* ends in success, in a failure after part of its work, or at a timeout;  *)
(* GmailCapture has the steps inside gmail-sync, DriveFiling those inside  *)
(* drive-file.                                                             *)
(***************************************************************************)
EXTENDS Integers, FiniteSets

CONSTANTS Procs,         \* capture-worker processes
          Mail,          \* messages in Gmail
          Attempts,      \* len(RETRY_DELAYS) + 1
          FollowupEvery, \* FOLLOWUP_EVERY, in ticks of the clock
          StageTimeout,  \* STAGE_TIMEOUT, in ticks
          MaxFaults      \* bound: failures, deadlines, lost sessions, exits

None == -1
Nobody == "nobody"
Orphan == "orphan"    \* the session of a killed process

ASSUME AttemptsAssumption == Attempts \in Nat \ {0}
ASSUME TicksAssumption == FollowupEvery \in Nat /\ StageTimeout \in Nat
ASSUME ProcsAssumption == Procs \cap {Nobody, Orphan} = {}
ASSUME FaultsAssumption == MaxFaults \in Nat

VARIABLES
  waiting,  \* the queue has its one waiting job (queueing_lock)
  holder,   \* the session that holds CYCLE_LOCK
  broken,   \* processes whose cached lock connection is dead
  pc, attempt,
  since,    \* each process: ticks since FOLLOWUPS.last, or None
  spent,    \* each process: ticks its child command has run
  batch,    \* each process: the stored mail its drive-file or quote-read saw
  arrived, stored,  \* mail in Gmail, and in the database
  filed, read,      \* mail a drive-file, a quote-read has dealt with
  age,      \* history: ticks since each message was stored
  faults

mail == <<arrived, stored, filed, read>>
vars == <<waiting, holder, broken, pc, attempt, since, spent, batch, mail, age,
          faults>>

\* FOLLOWUP_EVERY and two commands: the age is not counted further.
MaxAge == FollowupEvery + StageTimeout + StageTimeout

InStage == {"gmail", "drive", "quote"}
InCycle(p) == pc[p] \in InStage \cup {"wait"}

\* faults is one budget for everything that goes wrong.
Fault == faults < MaxFaults /\ faults' = faults + 1

-----------------------------------------------------------------------------
(* The clock, the queue and the processes.                                 *)

Older(n, top) == IF n < top THEN n + 1 ELSE n

\* Mutant: a command runs without a timeout.
TickNoTimeout ==
  /\ since' = [p \in Procs |-> IF since[p] = None THEN None
                               ELSE Older(since[p], FollowupEvery)]
  /\ spent' = [p \in Procs |-> IF pc[p] \in InStage THEN spent[p] + 1 ELSE 0]
  /\ age' = [m \in Mail |-> IF m \in stored THEN Older(age[m], MaxAge) ELSE 0]
  /\ UNCHANGED <<waiting, holder, broken, pc, attempt, batch, mail, faults>>

\* run_stage kills a command at STAGE_TIMEOUT: it never runs longer.
Tick ==
  /\ \A p \in Procs : pc[p] \in InStage => spent[p] < StageTimeout
  /\ since' = [p \in Procs |-> IF since[p] = None THEN None
                               ELSE Older(since[p], FollowupEvery)]
  /\ spent' = [p \in Procs |-> IF pc[p] \in InStage THEN spent[p] + 1 ELSE 0]
  /\ age' = [m \in Mail |-> IF m \in stored THEN Older(age[m], MaxAge) ELSE 0]
  /\ UNCHANGED <<waiting, holder, broken, pc, attempt, batch, mail, faults>>

Arrive(m) ==
  /\ m \notin arrived
  /\ arrived' = arrived \cup {m}
  /\ UNCHANGED <<waiting, holder, broken, pc, attempt, since, spent, batch,
                 stored, filed, read, age, faults>>

\* The periodic deferrer; with a job waiting the new one is refused.
Defer ==
  /\ \E p \in Procs : pc[p] # "down"
  /\ ~waiting
  /\ waiting' = TRUE
  /\ UNCHANGED <<holder, broken, pc, attempt, since, spent, batch, mail, age,
                 faults>>

\* A worker has one slot (concurrency = 1).
TakeJob(p) ==
  /\ waiting /\ pc[p] = "idle"
  /\ waiting' = FALSE
  /\ pc' = [pc EXCEPT ![p] = "lock"]
  /\ UNCHANGED <<holder, broken, attempt, since, spent, batch, mail, age,
                 faults>>

Boot(p) ==
  /\ pc[p] = "down"
  /\ pc' = [pc EXCEPT ![p] = "idle"]
  /\ since' = [since EXCEPT ![p] = None]
  /\ UNCHANGED <<waiting, holder, broken, attempt, spent, batch, mail, age,
                 faults>>

\* What a command did before it failed or was killed.
Partly(p) ==
  \/ /\ pc[p] = "gmail"
     /\ \E part \in SUBSET (arrived \ stored) : stored' = stored \cup part
     /\ UNCHANGED <<arrived, filed, read>>
  \/ /\ pc[p] = "drive"
     /\ \E part \in SUBSET batch[p] : filed' = filed \cup part
     /\ UNCHANGED <<arrived, stored, read>>
  \/ /\ pc[p] = "quote"
     /\ \E part \in SUBSET batch[p] : read' = read \cup part
     /\ UNCHANGED <<arrived, stored, filed>>
  \/ /\ pc[p] \notin InStage
     /\ UNCHANGED mail

\* Mutant: a dead connection stays in the cache.
LeaveBroken(p) ==
  /\ pc' = [pc EXCEPT ![p] = "idle"]
  /\ attempt' = [attempt EXCEPT ![p] = 0]
  /\ spent' = [spent EXCEPT ![p] = 0]
  /\ holder' = IF holder = p THEN Nobody ELSE holder
  /\ UNCHANGED broken

\* The cycle is left: pg_advisory_unlock, or a broken connection is dropped.
Leave(p) ==
  /\ pc' = [pc EXCEPT ![p] = "idle"]
  /\ attempt' = [attempt EXCEPT ![p] = 0]
  /\ spent' = [spent EXCEPT ![p] = 0]
  /\ holder' = IF holder = p THEN Nobody ELSE holder
  /\ broken' = broken \ {p}

\* SIGTERM: the job is cancelled, the lock released, the command killed; or
\* SIGKILL: the server may keep the session for a while.
Exit(p) ==
  /\ pc[p] # "down" /\ Fault
  /\ Partly(p)
  /\ pc' = [pc EXCEPT ![p] = "down"]
  /\ attempt' = [attempt EXCEPT ![p] = 0]
  /\ spent' = [spent EXCEPT ![p] = 0]
  /\ IF holder = p THEN holder' \in {Nobody, Orphan} ELSE UNCHANGED holder
  /\ broken' = broken \ {p}
  /\ UNCHANGED <<waiting, since, batch, age>>

OrphanEnds ==
  /\ holder = Orphan
  /\ holder' = Nobody
  /\ UNCHANGED <<waiting, broken, pc, attempt, since, spent, batch, mail, age,
                 faults>>

\* The lock's connection breaks; a cycle that runs does not notice.
SessionDies(p) ==
  /\ pc[p] # "down" /\ p \notin broken /\ Fault
  /\ broken' = broken \cup {p}
  /\ holder' = IF holder = p THEN Nobody ELSE holder
  /\ UNCHANGED <<waiting, pc, attempt, since, spent, batch, mail, age>>

-----------------------------------------------------------------------------
(* cycle_lock and run_cycle.                                               *)

\* Mutant: the answer of pg_try_advisory_lock is not looked at.
LockIsFreeAlways == TRUE
LockIsFree == holder = Nobody

Acquire(p) ==
  /\ pc[p] = "lock" /\ p \notin broken /\ LockIsFree
  /\ holder' = p
  /\ pc' = [pc EXCEPT ![p] = "gmail"]
  /\ attempt' = [attempt EXCEPT ![p] = 1]
  /\ UNCHANGED <<waiting, broken, since, spent, batch, mail, age, faults>>

Locked(p) ==
  /\ pc[p] = "lock" /\ p \notin broken /\ ~LockIsFree
  /\ Leave(p)
  /\ UNCHANGED <<waiting, since, batch, mail, age, faults>>

\* The first statement on a dead connection raises; the next get reconnects.
LockFails(p) ==
  /\ pc[p] = "lock" /\ p \in broken
  /\ Leave(p)
  /\ UNCHANGED <<waiting, since, batch, mail, age, faults>>

\* Mutant of Followups.due: no safety net.
DueNoNet(p, new) == new # {} \/ since[p] = None

\* Followups.due
Due(p, new) == \/ new # {}
               \/ since[p] = None
               \/ since[p] >= FollowupEvery

New == arrived \ stored

\* gmail-sync stored what it found, and the follow-ups are due: drive-file
\* starts, and lists its candidates.
CheckedGmail(p) ==
  /\ pc[p] = "gmail" /\ Due(p, New)
  /\ stored' = stored \cup New
  /\ pc' = [pc EXCEPT ![p] = "drive"]
  /\ batch' = [batch EXCEPT ![p] = stored \cup New]
  /\ spent' = [spent EXCEPT ![p] = 0]
  /\ UNCHANGED <<waiting, holder, broken, attempt, since, arrived, filed, read,
                 age, faults>>

\* A quiet minute: nothing new, follow-ups not due.
Quiet(p) ==
  /\ pc[p] = "gmail" /\ ~Due(p, New)
  /\ Leave(p)
  /\ UNCHANGED <<waiting, since, batch, mail, age, faults>>

Filed(p) ==
  /\ pc[p] = "drive"
  /\ filed' = filed \cup batch[p]
  /\ pc' = [pc EXCEPT ![p] = "quote"]
  /\ batch' = [batch EXCEPT ![p] = stored]
  /\ spent' = [spent EXCEPT ![p] = 0]
  /\ UNCHANGED <<waiting, holder, broken, attempt, since, arrived, stored,
                 read, age, faults>>

\* read_quotes, and FOLLOWUPS.last = clock() whether it succeeded or not.
ReadQuotes(p) ==
  /\ pc[p] = "quote"
  /\ read' = read \cup batch[p]
  /\ since' = [since EXCEPT ![p] = 0]
  /\ Leave(p)
  /\ UNCHANGED <<waiting, batch, arrived, stored, filed, age, faults>>

QuotesFail(p) ==
  /\ pc[p] = "quote" /\ Fault
  /\ Partly(p)
  /\ since' = [since EXCEPT ![p] = 0]
  /\ Leave(p)
  /\ UNCHANGED <<waiting, batch, age>>

MayRetry(p) == attempt[p] < Attempts

\* CaptureTransient with an attempt left: wait, inside the lock.
StageFails(p) ==
  /\ pc[p] \in {"gmail", "drive"} /\ Fault
  /\ MayRetry(p)
  /\ Partly(p)
  /\ pc' = [pc EXCEPT ![p] = "wait"]
  /\ spent' = [spent EXCEPT ![p] = 0]
  /\ UNCHANGED <<waiting, holder, broken, attempt, since, batch, age>>

\* The last attempt, a refusal, or CYCLE_TIMEOUT (which also cuts a wait).
CycleFails(p) ==
  /\ pc[p] \in {"gmail", "drive", "wait"} /\ Fault
  /\ Partly(p)
  /\ Leave(p)
  /\ UNCHANGED <<waiting, since, batch, age>>

Retry(p) ==
  /\ pc[p] = "wait"
  /\ pc' = [pc EXCEPT ![p] = "gmail"]
  /\ attempt' = [attempt EXCEPT ![p] = @ + 1]
  /\ UNCHANGED <<waiting, holder, broken, since, spent, batch, mail, age,
                 faults>>

-----------------------------------------------------------------------------

Init ==
  /\ waiting = FALSE /\ holder = Nobody /\ broken = {}
  /\ pc = [p \in Procs |-> "down"]
  /\ attempt = [p \in Procs |-> 0]
  /\ since = [p \in Procs |-> None]
  /\ spent = [p \in Procs |-> 0]
  /\ batch = [p \in Procs |-> {}]
  /\ arrived = {} /\ stored = {} /\ filed = {} /\ read = {}
  /\ age = [m \in Mail |-> 0]
  /\ faults = 0

Step(p) == \/ Acquire(p) \/ Locked(p) \/ LockFails(p)
           \/ CheckedGmail(p) \/ Quiet(p) \/ Filed(p) \/ ReadQuotes(p)
           \/ Retry(p)

Failure(p) == \/ QuotesFail(p) \/ StageFails(p) \/ CycleFails(p)
              \/ Exit(p) \/ SessionDies(p)

Next == \/ Tick \/ Defer \/ OrphanEnds
        \/ \E m \in Mail : Arrive(m)
        \/ \E p \in Procs : Boot(p) \/ TakeJob(p) \/ Step(p) \/ Failure(p)

Spec == Init /\ [][Next]_vars

\* The cron defers, a worker takes its job and goes on with it, Render starts
\* a worker that ended, PostgreSQL ends the session of a dead client, and time
\* passes.  Nothing that fails is fair.
FairSpec ==
  /\ Spec
  /\ WF_vars(Tick) /\ WF_vars(Defer) /\ WF_vars(OrphanEnds)
  /\ WF_vars(\E p \in Procs : TakeJob(p))
  /\ \A p \in Procs : WF_vars(Boot(p)) /\ WF_vars(Step(p))

-----------------------------------------------------------------------------
(* What the cycle promises.                                                *)

\* The type of every variable.
TypeOK ==
  /\ waiting \in BOOLEAN /\ holder \in Procs \cup {Nobody, Orphan}
  /\ broken \subseteq Procs
  /\ pc \in [Procs -> {"down", "idle", "lock", "wait"} \cup InStage]
  /\ attempt \in [Procs -> 0 .. Attempts]
  /\ since \in [Procs -> (0 .. FollowupEvery) \cup {None}]
  /\ spent \in [Procs -> 0 .. StageTimeout]
  /\ batch \in [Procs -> SUBSET Mail]
  /\ arrived \subseteq Mail /\ stored \subseteq Mail
  /\ filed \subseteq Mail /\ read \subseteq Mail
  /\ age \in [Mail -> 0 .. MaxAge] /\ faults \in 0 .. MaxFaults

\* One cycle at a time, over retries, exits and deploys: two cycles overlap
\* only when one of them lost its session: a cycle that runs does not notice
\* that its lock is gone.
OverlapNeedsLostSession ==
  \A p, q \in Procs :
    InCycle(p) /\ InCycle(q) => p = q \/ {p, q} \cap broken # {}

\* A quiet minute leaves no old mail behind: what a cycle that skips filing
\* leaves unfiled was stored less than FOLLOWUP_EVERY and two commands ago,
\* whichever process stored it and whatever failed in between.
QuietLeavesFreshMail ==
  [][\A p \in Procs : Quiet(p) =>
       \A m \in stored \ filed : age[m] < MaxAge]_vars

\* Whatever fails, stored mail is filed and its quotes are read in the end:
\* the safety net finds what a failed or interrupted cycle left.
StoredIsFollowedUp ==
  \A m \in Mail : m \in stored ~> m \in filed \cap read

\* Mail that arrives is stored: no exit, lost session or crowded queue stops
\* the periodic check for good.
ArrivedIsStored == \A m \in Mail : m \in arrived ~> m \in stored
=============================================================================
