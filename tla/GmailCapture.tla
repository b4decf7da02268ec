---------------------------- MODULE GmailCapture ----------------------------
(***************************************************************************)
(* The worker's Gmail capture (gmail_sync.py): a run takes the advisory    *)
(* lock, reads the mailbox row, lists the mail that Gmail's history gained *)
(* since the stored cursor (or, when that cursor expired, the mail dated   *)
(* after the last completed run), captures message by message and only     *)
(* then moves the cursor.  Gmail, its users, killed processes, orphaned    *)
(* database sessions and a second run are the environment.                 *)
(*                                                                         *)
(* A dry run takes the steps of a run and writes nothing; it is a run that *)
(* ends in Stops before its first write, and has no action of its own.     *)
(***************************************************************************)
EXTENDS Integers, Sequences, FiniteSets

CONSTANTS Msgs,       \* Gmail message ids
          Runs,       \* processes that may execute a capture command
          Kind,       \* what each message is, see Kinds
          Overlap,    \* RESYNC_OVERLAP, in ticks of the clock
          MaxRun,     \* ticks a run may last: STAGE_TIMEOUT kills it
          Limit,      \* --limit of a backfill
          MaxLog,     \* bound: length of Gmail's history
          MaxClock,   \* bound: ticks of the clock
          MaxFaults,  \* bound: runs that stop, are killed, or lose consent
          MaxManual   \* bound: owner-run commands on an authorized mailbox

Kinds == {"plain", "bounce", "bulk", "unparsable", "oversize"}
None == -1            \* SQL null in comms.mailbox
Nobody == "nobody"    \* no session holds LOCK_NAME
OrphanIdle == "orphan_idle"   \* a killed run's session, idle
OrphanBusy == "orphan_busy"   \* a killed run's session, mid-transaction

ASSUME KindAssumption == Kind \in [Msgs -> Kinds]
ASSUME RunsAssumption == Runs \cap {Nobody, OrphanIdle, OrphanBusy} = {}
\* STAGE_TIMEOUT (300 s) is far below RESYNC_OVERLAP (a day).
ASSUME TimeAssumption == /\ Overlap \in Nat
                         /\ MaxRun \in Nat
                         /\ MaxRun <= Overlap
ASSUME BoundAssumption == /\ Limit \in Nat
                          /\ MaxLog \in Nat
                          /\ MaxClock \in Nat
                          /\ MaxFaults \in Nat
                          /\ MaxManual \in Nat

VARIABLES
  label,    \* Gmail: where each message is
  date,     \* Gmail: internalDate of each message
  log,      \* Gmail: history records that list a message, oldest first
  floor,    \* Gmail: a startHistoryId below this answers 404
  clock,
  auth,     \* comms.mailbox.authorization_state
  cursor,   \* comms.mailbox.history_id, an index into log
  synced,   \* comms.mailbox.last_synced_at
  parsed,   \* comms.message rows with parse_status parsed
  failed,   \* comms.message rows with parse_status parse_failed
  named,    \* rows whose eml_path is set
  evidence, \* pending gmail_message evidence
  objects,  \* .eml objects in Storage
  holder,   \* the session that holds the run lock
  stale,    \* that session has been quiet for STALE_LOCK_AFTER
  pc, cmd,  \* each run: its next step, its command
  from,     \* each run: mailbox.history_id as it read it
  since,    \* each run: mailbox.last_synced_at as it read it
  target,   \* each run: profile.history_id, the cursor it will write
  started,  \* each run: when it read the profile
  todo,     \* each run: listed messages still to capture
  cur,      \* each run: the message in hand
  base,     \* history: the baseline the first --init wrote
  silent,   \* history: left draft, spam or trash without INBOX or SENT
  late,     \* history: gained INBOX or SENT after the day it is dated
  resynced, \* history: some run re-listed by date
  faults, manual

gmail == <<label, date, log, floor, clock, silent, late>>
mailbox == <<auth, cursor, synced, base>>
rows == <<parsed, failed, named, evidence>>
local == <<from, since, target, started>>
vars == <<gmail, mailbox, rows, objects, holder, stale, pc, cmd, local,
          todo, cur, resynced, faults, manual>>

-----------------------------------------------------------------------------
(* Gmail and the people who use the mailbox.                               *)

Labels == {"unborn", "inbox", "archived", "draft", "spam", "trash", "gone"}

\* Moves a person can make.  "inbox" stands for INBOX or SENT.
Moves == {<<"draft", "inbox">>, <<"spam", "inbox">>, <<"trash", "inbox">>,
          <<"archived", "inbox">>, <<"inbox", "archived">>, <<"inbox", "spam">>,
          <<"inbox", "trash">>, <<"archived", "trash">>, <<"spam", "trash">>,
          <<"draft", "trash">>, <<"trash", "archived">>}

\* intake_skip_reason: a delivery report in the trash is still captured.
Excluded(m) == \/ label[m] \in {"draft", "spam"}
               \/ label[m] = "trash" /\ Kind[m] # "bounce"
Lives(m) == label[m] \notin {"unborn", "gone"}
Kept(m) == Lives(m) /\ ~Excluded(m)

Recorded == parsed \cup failed

\* history(): messagesAdded, and labelsAdded with a label of CAPTURE_LABELS.
Window(i) == {log[k] : k \in (i + 1) .. Len(log)}

\* messages_matching(): a search leaves spam and trash out.
Listable == {m \in Msgs : label[m] \in {"inbox", "archived", "draft"}}

\* Mutant: the resync forgets RESYNC_OVERLAP.
DatedSinceNoOverlap(t) == {m \in Listable : date[m] >= t}

\* messages_after(last_synced_at - RESYNC_OVERLAP)
DatedSince(t) == {m \in Listable : date[m] >= t - Overlap}

Arrive(m, l) ==
  /\ label[m] = "unborn" /\ Len(log) < MaxLog
  /\ label' = [label EXCEPT ![m] = l]
  /\ date' = [date EXCEPT ![m] = clock]
  /\ log' = Append(log, m)
  /\ UNCHANGED <<floor, clock, silent, late, mailbox, rows, objects, holder,
                 stale, pc, cmd, local, todo, cur, resynced, faults, manual>>

\* A move that gains INBOX or SENT is listed by history; any other is not.
Relabel(m, l) ==
  /\ <<label[m], l>> \in Moves
  /\ label' = [label EXCEPT ![m] = l]
  /\ IF l = "inbox"
       THEN /\ Len(log) < MaxLog
            /\ log' = Append(log, m)
            /\ late' = IF clock > date[m] THEN late \cup {m} ELSE late
            /\ UNCHANGED silent
       ELSE /\ silent' = IF label[m] \in {"draft", "spam", "trash"}
                           THEN silent \cup {m} ELSE silent
            /\ UNCHANGED <<log, late>>
  /\ UNCHANGED <<date, floor, clock, mailbox, rows, objects, holder, stale,
                 pc, cmd, local, todo, cur, resynced, faults, manual>>

Delete(m) ==
  /\ Lives(m)
  /\ label' = [label EXCEPT ![m] = "gone"]
  /\ UNCHANGED <<date, log, floor, clock, silent, late, mailbox, rows, objects,
                 holder, stale, pc, cmd, local, todo, cur, resynced, faults,
                 manual>>

\* Gmail drops old history records (about a week, not guaranteed).
Expire ==
  /\ \E f \in (floor + 1) .. Len(log) : floor' = f
  /\ UNCHANGED <<label, date, log, clock, silent, late, mailbox, rows, objects,
                 holder, stale, pc, cmd, local, todo, cur, resynced, faults,
                 manual>>

\* A run that can still write the cursor ends within MaxRun of its profile.
Tick ==
  /\ clock < MaxClock
  /\ \A r \in Runs : /\ holder = r /\ cmd[r] # "backfill"
                     /\ pc[r] \notin {"idle", "mailbox", "profile"}
                     => clock + 1 - started[r] <= MaxRun
  /\ clock' = clock + 1
  /\ UNCHANGED <<label, date, log, floor, silent, late, mailbox, rows, objects,
                 holder, stale, pc, cmd, local, todo, cur, resynced, faults,
                 manual>>

-----------------------------------------------------------------------------
(* The run lock.  Every database step of a run needs its session, and the  *)
(* run's session lives exactly as long as it holds the lock.               *)

\* Mutant: a take-over leaves the old session able to write.
SessionSurvives(r) == pc[r] # "idle"

SessionAlive(r) == holder = r

\* Mutant: the stale-holder rule misses the sessions of killed runs.
TerminableLiveOnly == stale /\ holder \in Runs

\* A stale holder that is idle is terminated; a busy one is LOCK_STUCK.
Terminable == stale /\ holder \in Runs \cup {OrphanIdle}

\* try_lock: LOCK_ACQUIRED.
TryLock(r, c) ==
  /\ pc[r] = "idle"
  /\ holder = Nobody \/ Terminable
  /\ IF c = "sync" \/ (c = "init" /\ auth # "authorized")
       THEN UNCHANGED manual
       ELSE manual < MaxManual /\ manual' = manual + 1
  /\ holder' = r
  /\ stale' = FALSE
  /\ pc' = [pc EXCEPT ![r] = "mailbox"]
  /\ cmd' = [cmd EXCEPT ![r] = c]
  /\ UNCHANGED <<gmail, mailbox, rows, objects, local, todo, cur, resynced,
                 faults>>

\* try_lock: the stale session was ended but another one is first to lock.
TryLockLoses(r) ==
  /\ pc[r] = "idle" /\ Terminable
  /\ holder' = Nobody
  /\ stale' = FALSE
  /\ UNCHANGED <<gmail, mailbox, rows, objects, pc, cmd, local, todo, cur,
                 resynced, faults, manual>>

\* The holder has been quiet for STALE_LOCK_AFTER: orphaned, or suspended.
Age ==
  /\ holder # Nobody /\ ~stale
  /\ stale' = TRUE
  /\ IF holder \in Runs THEN faults < MaxFaults /\ faults' = faults + 1
                        ELSE UNCHANGED faults
  /\ UNCHANGED <<gmail, mailbox, rows, objects, holder, pc, cmd, local, todo,
                 cur, resynced, manual>>

\* The server, or the owner by pg_terminate_backend, ends an orphan.
OrphanEnds ==
  /\ holder \in {OrphanIdle, OrphanBusy}
  /\ holder' = Nobody
  /\ stale' = FALSE
  /\ UNCHANGED <<gmail, mailbox, rows, objects, pc, cmd, local, todo, cur,
                 resynced, faults, manual>>

\* The process is over, and what it held in memory with it.
Exit(r) ==
  /\ pc' = [pc EXCEPT ![r] = "idle"]
  /\ cmd' = [cmd EXCEPT ![r] = "sync"]
  /\ from' = [from EXCEPT ![r] = None]
  /\ since' = [since EXCEPT ![r] = None]
  /\ target' = [target EXCEPT ![r] = 0]
  /\ started' = [started EXCEPT ![r] = 0]
  /\ todo' = [todo EXCEPT ![r] = {}]
  /\ cur' = [cur EXCEPT ![r] = None]

\* open_worker_db on exit: pg_advisory_unlock_all, then close.
End(r) ==
  /\ Exit(r)
  /\ holder' = IF holder = r THEN Nobody ELSE holder
  /\ stale' = (stale /\ holder # r)

\* Paused, no mailbox, wrong account, no resync baseline, an empty history
\* id, too many matches, a Gmail, Storage or database error, SIGTERM.
Stops(r) ==
  /\ pc[r] # "idle" /\ faults < MaxFaults
  /\ faults' = faults + 1
  /\ End(r)
  /\ UNCHANGED <<gmail, mailbox, rows, objects, resynced, manual>>

\* Its session was terminated: the run's next statement raises.
SessionLost(r) ==
  /\ pc[r] \in {"mailbox", "authorize", "window", "record"}
  /\ ~SessionAlive(r)
  /\ End(r)
  /\ UNCHANGED <<gmail, mailbox, rows, objects, resynced, faults, manual>>

\* SIGKILL: the server may or may not notice that the session is over.
Kill(r) ==
  /\ pc[r] # "idle" /\ faults < MaxFaults
  /\ faults' = faults + 1
  /\ Exit(r)
  /\ IF SessionAlive(r)
       THEN holder' \in {Nobody, OrphanIdle, OrphanBusy} /\ stale' = FALSE
       ELSE UNCHANGED <<holder, stale>>
  /\ UNCHANGED <<gmail, mailbox, rows, objects, resynced, manual>>

-----------------------------------------------------------------------------
(* run_gmail_sync, run_gmail_backfill and _init.                           *)

\* db.mailbox(): read once, under the lock, and used until the run ends.
ReadMailbox(r) ==
  /\ pc[r] = "mailbox" /\ SessionAlive(r)
  /\ stale' = FALSE
  /\ (cmd[r] = "init") = (auth # "authorized")
  /\ pc' = [pc EXCEPT ![r] = "profile"]
  /\ from' = [from EXCEPT ![r] = cursor]
  /\ since' = [since EXCEPT ![r] = synced]
  /\ UNCHANGED <<gmail, mailbox, rows, objects, holder, cmd, target, started,
                 todo, cur, resynced, faults, manual>>

\* not_authorized, or already_initialized.
Refused(r) ==
  /\ pc[r] = "mailbox" /\ SessionAlive(r)
  /\ (cmd[r] = "init") # (auth # "authorized")
  /\ End(r)
  /\ UNCHANGED <<gmail, mailbox, rows, objects, resynced, faults, manual>>

\* Mutant: the history id of the profile is taken one too low.
ProfileHistoryIdLow == Len(log) - 1
ProfileHistoryId == Len(log)

\* gmail.profile(): the cursor to write, read before any list.
ReadProfile(r) ==
  /\ pc[r] = "profile"
  /\ target' = [target EXCEPT ![r] = ProfileHistoryId]
  /\ started' = [started EXCEPT ![r] = clock]
  /\ pc' = [pc EXCEPT ![r] = IF cmd[r] = "init" THEN "authorize" ELSE "list"]
  /\ UNCHANGED <<gmail, mailbox, rows, objects, holder, stale, cmd, from,
                 since, todo, cur, resynced, faults, manual>>

Coalesce(stored, new) == IF stored = None THEN new ELSE stored

\* Mutant: a re-consent restarts the resync baseline at now().
AuthorizeNow(r) ==
  /\ pc[r] = "authorize" /\ SessionAlive(r)
  /\ auth' = "authorized"
  /\ cursor' = Coalesce(cursor, target[r])
  /\ synced' = clock
  /\ base' = IF cursor = None THEN target[r] ELSE base
  /\ End(r)
  /\ UNCHANGED <<gmail, rows, objects, resynced, faults, manual>>

\* db.authorize(): coalesce keeps the cursor of a mailbox that had one.
Authorize(r) ==
  /\ pc[r] = "authorize" /\ SessionAlive(r)
  /\ auth' = "authorized"
  /\ cursor' = Coalesce(cursor, target[r])
  /\ synced' = Coalesce(synced, clock)
  /\ base' = IF cursor = None THEN target[r] ELSE base
  /\ End(r)
  /\ UNCHANGED <<gmail, rows, objects, resynced, faults, manual>>

List(r, ids) ==
  /\ todo' = [todo EXCEPT ![r] = ids]
  /\ pc' = [pc EXCEPT ![r] = "window"]
  /\ UNCHANGED <<gmail, mailbox, rows, objects, holder, stale, cmd, local,
                 cur, faults, manual>>

ListHistory(r) ==
  /\ pc[r] = "list" /\ cmd[r] = "sync"
  /\ from[r] # None /\ from[r] >= floor
  /\ List(r, Window(from[r]))
  /\ UNCHANGED resynced

\* HistoryExpired; without last_synced_at the run stops (no_resync_baseline).
Resync(r) ==
  /\ pc[r] = "list" /\ cmd[r] = "sync"
  /\ from[r] = None \/ from[r] < floor
  /\ since[r] # None
  /\ List(r, DatedSince(since[r]))
  /\ resynced' = TRUE

\* A search that finds more than Limit captures nothing (Stops).
SearchMail(r) ==
  /\ pc[r] = "list" /\ cmd[r] = "backfill"
  /\ \E ids \in SUBSET Listable : /\ Cardinality(ids) <= Limit
                                  /\ List(r, ids)
  /\ UNCHANGED resynced

\* Mutant: every row is written before the upload.
AfterExamineRowFirst(m) == "record"
AfterExamine(m) == IF Kind[m] = "oversize" THEN "record" ELSE "fetch"

\* _capture_one up to the download: a duplicate, a message gone or excluded
\* is dropped; an oversize one goes to its row without an .eml.
Examine(r, m) ==
  /\ pc[r] = "window" /\ SessionAlive(r) /\ m \in todo[r]
  /\ stale' = FALSE
  /\ IF m \in Recorded \/ ~Kept(m)
       THEN /\ todo' = [todo EXCEPT ![r] = @ \ {m}]
            /\ UNCHANGED <<pc, cur>>
       ELSE /\ cur' = [cur EXCEPT ![r] = m]
            /\ pc' = [pc EXCEPT ![r] = AfterExamine(m)]
            /\ UNCHANGED todo
  /\ UNCHANGED <<gmail, mailbox, rows, objects, holder, cmd, local, resynced,
                 faults, manual>>

\* require_stageable_gmail_payload: the labels of the download decide again; a
\* message that does not parse is a ParseFailed before they are read.
Stageable(m) == Kind[m] = "unparsable" \/ ~Excluded(m)

\* gmail.raw() and store.put_if_absent(): no database statement.
Fetch(r) ==
  /\ pc[r] = "fetch"
  /\ Lives(cur[r]) => Stageable(cur[r])
  /\ IF Lives(cur[r])
       THEN /\ objects' = objects \cup {cur[r]}
            /\ pc' = [pc EXCEPT ![r] = "record"]
            /\ UNCHANGED <<todo, cur>>
       ELSE /\ todo' = [todo EXCEPT ![r] = @ \ {cur[r]}]
            /\ pc' = [pc EXCEPT ![r] = "window"]
            /\ cur' = [cur EXCEPT ![r] = None]
            /\ UNCHANGED objects
  /\ UNCHANGED <<gmail, mailbox, rows, holder, stale, cmd, local, resynced,
                 faults, manual>>

\* ManifestRefused: moved out of intake since its metadata was read.  Nothing is
\* uploaded, and the run ends with its cursor where it was.
FetchRefused(r) ==
  /\ pc[r] = "fetch" /\ Lives(cur[r]) /\ ~Stageable(cur[r])
  /\ End(r)
  /\ UNCHANGED <<gmail, mailbox, rows, objects, resynced, faults, manual>>

WithEvidence(m) == IF Kind[m] = "bulk" THEN {} ELSE {m}

\* record and record_unparsed, each one transaction; a row that exists wins.
InsertRow(m) ==
  IF m \in Recorded THEN UNCHANGED rows
  ELSE IF Kind[m] \in {"unparsable", "oversize"}
    THEN /\ failed' = failed \cup {m}
         /\ named' = IF Kind[m] = "oversize" THEN named ELSE named \cup {m}
         /\ UNCHANGED <<parsed, evidence>>
    ELSE /\ parsed' = parsed \cup {m}
         /\ named' = named \cup {m}
         /\ evidence' = evidence \cup WithEvidence(m)
         /\ UNCHANGED failed

Record(r) ==
  /\ pc[r] = "record" /\ SessionAlive(r)
  /\ stale' = FALSE
  /\ InsertRow(cur[r])
  /\ todo' = [todo EXCEPT ![r] = @ \ {cur[r]}]
  /\ pc' = [pc EXCEPT ![r] = "window"]
  /\ cur' = [cur EXCEPT ![r] = None]
  /\ UNCHANGED <<gmail, mailbox, objects, holder, cmd, local, resynced,
                 faults, manual>>

\* db.advance_cursor(), once every message of the window committed.
Advance(r) ==
  /\ pc[r] = "window" /\ SessionAlive(r)
  /\ cmd[r] = "sync" /\ todo[r] = {}
  /\ cursor' = target[r]
  /\ synced' = clock
  /\ End(r)
  /\ UNCHANGED <<gmail, auth, base, rows, objects, resynced, faults, manual>>

FinishBackfill(r) ==
  /\ pc[r] = "window" /\ cmd[r] = "backfill" /\ todo[r] = {}
  /\ End(r)
  /\ UNCHANGED <<gmail, mailbox, rows, objects, resynced, faults, manual>>

\* invalid_grant at a Gmail call of a sync: mark_revoked, if it still can.
ConsentLost(r) ==
  /\ pc[r] \in {"profile", "list", "window", "fetch"} /\ faults < MaxFaults
  /\ faults' = faults + 1
  /\ cmd[r] = "sync" /\ SessionAlive(r)
  /\ auth' = "revoked"
  /\ End(r)
  /\ UNCHANGED <<gmail, cursor, synced, base, rows, objects, resynced,
                 manual>>

-----------------------------------------------------------------------------

Init ==
  /\ label = [m \in Msgs |-> "unborn"]
  /\ date = [m \in Msgs |-> 0]
  /\ log = <<>> /\ floor = 0 /\ clock = 0
  /\ auth = "unauthorized" /\ cursor = None /\ synced = None
  /\ parsed = {} /\ failed = {} /\ named = {} /\ evidence = {}
  /\ objects = {}
  /\ holder = Nobody /\ stale = FALSE
  /\ pc = [r \in Runs |-> "idle"]
  /\ cmd = [r \in Runs |-> "sync"]
  /\ from = [r \in Runs |-> None]
  /\ since = [r \in Runs |-> None]
  /\ target = [r \in Runs |-> 0]
  /\ started = [r \in Runs |-> 0]
  /\ todo = [r \in Runs |-> {}]
  /\ cur = [r \in Runs |-> None]
  /\ base = 0 /\ silent = {} /\ late = {} /\ resynced = FALSE
  /\ faults = 0 /\ manual = 0

\* What the cron and the owner start; the environment; the steps of a run.
Start(r) == \/ \E c \in {"sync", "init", "backfill"} : TryLock(r, c)
            \/ TryLockLoses(r)

People == \/ \E m \in Msgs, l \in {"inbox", "draft", "spam"} : Arrive(m, l)
          \/ \E m \in Msgs, l \in Labels : Relabel(m, l)
          \/ \E m \in Msgs : Delete(m)
          \/ Expire
          \/ Tick

Faults(r) == Stops(r) \/ Kill(r) \/ ConsentLost(r)

Step(r) == \/ ReadMailbox(r) \/ Refused(r) \/ ReadProfile(r) \/ Authorize(r)
           \/ ListHistory(r) \/ Resync(r) \/ SearchMail(r)
           \/ \E m \in Msgs : Examine(r, m)
           \/ Fetch(r) \/ FetchRefused(r) \/ Record(r)
           \/ Advance(r) \/ FinishBackfill(r) \/ SessionLost(r)

Next == \/ People
        \/ \E r \in Runs : Start(r) \/ Step(r) \/ Faults(r)
        \/ Age
        \/ OrphanEnds

Spec == Init /\ [][Next]_vars

-----------------------------------------------------------------------------
(* What the capture promises.                                              *)

GmailTypes ==
  /\ label \in [Msgs -> Labels] /\ date \in [Msgs -> Nat]
  /\ log \in Seq(Msgs) /\ floor \in Nat /\ clock \in Nat
  /\ silent \subseteq Msgs /\ late \subseteq Msgs /\ resynced \in BOOLEAN

TableTypes ==
  /\ auth \in {"unauthorized", "authorized", "revoked"}
  /\ cursor \in Nat \cup {None} /\ synced \in Nat \cup {None} /\ base \in Nat
  /\ parsed \subseteq Msgs /\ failed \subseteq Msgs /\ named \subseteq Msgs
  /\ evidence \subseteq Msgs /\ objects \subseteq Msgs

LockTypes ==
  /\ holder \in Runs \cup {Nobody, OrphanIdle, OrphanBusy}
  /\ stale \in BOOLEAN /\ faults \in Nat /\ manual \in Nat

RunTypes ==
  /\ pc \in [Runs -> {"idle", "mailbox", "profile", "authorize", "list",
                      "window", "fetch", "record"}]
  /\ cmd \in [Runs -> {"sync", "init", "backfill"}]
  /\ from \in [Runs -> Nat \cup {None}] /\ since \in [Runs -> Nat \cup {None}]
  /\ target \in [Runs -> Nat] /\ started \in [Runs -> Nat]
  /\ todo \in [Runs -> SUBSET Msgs] /\ cur \in [Runs -> Msgs \cup {None}]

\* The type of every variable.
TypeOK == GmailTypes /\ TableTypes /\ LockTypes /\ RunTypes

\* A message the capture owes a row: kept by intake, and made so by a change
\* that history lists.  A re-listing by date also misses what was re-labelled
\* after its day and what sits in the trash (see the two Resync findings).
Owed(m) == /\ Kept(m) /\ m \notin silent
           /\ resynced => m \notin late /\ label[m] # "trash"

\* Nothing is skipped: whatever Gmail listed from the baseline up to the stored
\* cursor is recorded, is no longer owed, or is listed again after the cursor;
\* across crashes, overlapping runs, take-overs, re-consent and expired history.
NothingSkipped ==
  cursor # None =>
    \A i \in (base + 1) .. cursor :
      Owed(log[i]) => log[i] \in Recorded \/ log[i] \in Window(cursor)

\* The resync baseline is always early enough: mail that history lists after the
\* cursor is dated within RESYNC_OVERLAP of last_synced_at, so a re-listing by
\* date still reaches it, whenever the cursor expires.
ResyncReachesPending ==
  cursor # None =>
    \A m \in Window(cursor) : m \notin late => date[m] >= synced - Overlap

\* A row that names an .eml is written after the object: a crash between the
\* upload and the commit leaves an unused object, never a dangling eml_path.
RowNamesObject == named \subseteq objects

\* The stored cursor never moves back and is never cleared: not by a run that
\* lost its session to a take-over, not by a revoked consent and a new --init.
CursorOnlyMovesOn == [][cursor # None => cursor' >= cursor]_vars

\* OPERATIONS.md (R7): a draft that is later sent, and a message moved out of
\* spam, are captured.
GainedInboxIsCaptured ==
  cursor # None =>
    \A i \in (base + 1) .. cursor :
      label[log[i]] = "inbox" => \/ log[i] \in Recorded
                                 \/ log[i] \in Window(cursor)

-----------------------------------------------------------------------------
(* The inductive invariant behind the safety properties.                   *)

\* Past ReadMailbox, with its snapshot of the mailbox row.
Informed(r) == pc[r] \in {"profile", "authorize", "list", "window", "fetch",
                          "record"}
\* Past ReadProfile, with the cursor it will write.
Aimed(r) == pc[r] \in {"authorize", "list", "window", "fetch", "record"}
\* Past the listing.
Working(r) == pc[r] \in {"window", "fetch", "record"}

\* The message in hand is still to do, and uploaded before its row is written.
WorkInv ==
  \A r \in Runs :
    /\ pc[r] \in {"fetch", "record"} => cur[r] \in todo[r]
    /\ pc[r] = "record" => \/ cur[r] \in objects
                           \/ Kind[cur[r]] = "oversize"
    /\ pc[r] = "authorize" => cmd[r] = "init"
    /\ pc[r] \in {"list", "window", "fetch", "record"} => cmd[r] # "init"

\* The mailbox row, the log and the clock agree; only a running process locks.
MailboxInv ==
  /\ holder \in Runs => pc[holder] # "idle"
  /\ auth = "authorized" => cursor # None
  /\ cursor = None <=> synced = None
  /\ cursor <= Len(log) /\ synced <= clock
  /\ \A m \in Msgs : date[m] <= clock

\* What the lock holder read of the row is still what the row says, and the
\* cursor it aims at is not behind the row nor ahead of the log.
HolderInv ==
  \A r \in Runs : SessionAlive(r) =>
    /\ Informed(r) => /\ from[r] = cursor /\ since[r] = synced
                      /\ cmd[r] = "sync" => cursor # None
    /\ Aimed(r) => /\ cursor <= target[r] /\ target[r] <= Len(log)
                   /\ started[r] <= clock
                   /\ cmd[r] # "backfill" => clock - started[r] <= MaxRun
                   /\ \A m \in Window(target[r]) :
                        m \notin late => date[m] >= started[r]

\* What the holder's window owes is done, in its hands, or listed again later.
WindowInv ==
  \A r \in Runs : SessionAlive(r) /\ Working(r) /\ cmd[r] = "sync" =>
    \A i \in (base + 1) .. target[r] :
      Owed(log[i]) => \/ log[i] \in Recorded
                      \/ log[i] \in todo[r]
                      \/ log[i] \in Window(target[r])

IInv == /\ TypeOK /\ WorkInv /\ MailboxInv /\ HolderInv /\ WindowInv
        /\ NothingSkipped /\ ResyncReachesPending

-----------------------------------------------------------------------------
(* Liveness.  The scheduler starts a sync every minute and the owner runs  *)
(* --init while the mailbox is not authorized, so each is tried again and  *)
(* again while the lock is free for most of every minute: strong fairness. *)
(* A started process keeps running, and an orphan that stays busy is ended *)
(* by the owner (OPERATIONS.md 8.4): weak fairness.                        *)

Fairness ==
  /\ \A r \in Runs : /\ WF_vars(Step(r))
                      /\ SF_vars(TryLock(r, "sync"))
                      /\ SF_vars(auth # "authorized" /\ TryLock(r, "init"))
  /\ WF_vars(holder \notin Runs /\ Age)
  /\ WF_vars(holder = OrphanBusy /\ OrphanEnds)

FairSpec == Spec /\ Fairness

\* Mail that history lists after the cursor is eventually captured, unless it
\* stops being owed: deleted, moved to spam or trash, or missed by a resync.
PendingIsCaptured ==
  \A m \in Msgs :
    (cursor # None /\ m \in Window(cursor) /\ Owed(m))
      ~> (m \in Recorded \/ ~Owed(m))
=============================================================================
