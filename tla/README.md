# OrigenLab: specifications and proofs

TLA+ modules, TLC configurations and TLAPS proofs for the OrigenLab code base.
They model the programs whose correctness depends on order, failure and
concurrency: the mail worker, which captures the company mailbox into the CRM,
files what it found and reads it; the paid preparation of tender bids; the
API's commands behind their idempotency keys; and the life of a quote's
revisions.

## 1. Inventory

OrigenLab is a monorepo around one PostgreSQL (Supabase) database.

| Part | Where | State | Operations | Talks to |
|---|---|---|---|---|
| Gmail capture | `apps/worker/.../gmail_sync.py`, `database.py`, `gmail_client.py`, `capture.py`, `storage.py` | `comms.mailbox` (state, cursor, last sync), `comms.message` and its children, pending evidence, `.eml` objects, a session advisory lock | sync, `--init`, backfill | Gmail (read only), Storage, PostgreSQL |
| Capture cycle | `capture_queue.py` | the queue's one waiting job, a cycle lock, the in-memory time of the last follow-up | one cycle a minute: Gmail check, Drive filing, quote reading, with retries and deadlines | child commands, Procrastinate |
| Drive filing | `drive_filing.py`, `drive_client.py`, `api/v2/quote_case_archive.py` | files and folders in Google Drive, `drive_file` records | one document at a time: find or create the case folder, find or upload the PDF, verify, record | Drive, Storage, PostgreSQL |
| Quote reading | `quote_reader.py` | `quote_document` records and lines, refusals by week | one PDF at a time: extract, ask the model, write or refuse | Storage, a model API, PostgreSQL |
| Triage queue | `task_queue.py`, `triage.py` | Procrastinate jobs, triage runs and assertions, bounce suggestions, spend | a sweep a minute defers one job per untriaged message; a job reads, asks, validates, records | PostgreSQL, Storage, a model API |
| Worker supervisor | `mail_worker.py` | the child processes | start, watch, stop | the operating system |
| Tender preparation | `tender/job.py`, `api/v2/tenders/preparation.py`, `api/v2/model_spend.py` | `evidence.bid_preparation`, `platform.model_usage`, a session advisory lock | ask, claim, read, match, fill, record the usage, file, recover what a restart interrupted | PostgreSQL, a model API, Drive |
| Tender discovery | `tender/discovery.py` | found tenders | a daily search | the web, PostgreSQL |
| Prospect finding | `prospects/`, `api/v2/prospect_findings` | found organisations and people's verdicts | a daily search; review, «Contactar», «Preparar correo» | the web, Gmail, PostgreSQL |
| CRM API commands | `apps/api/.../v2`, `command_core.py` | `crm.*`, `platform.command_receipt`, `crm.domain_event` | commands with an idempotency key, an actor and an expected version | PostgreSQL |
| Sign-in | `v2/auth_*.py`, `v2/profile_*.py` | sessions, PIN throttles | OIDC sign-in, PIN checks, lockout | Google, PostgreSQL |
| Campaigns | `v2/audience_freeze.py`, `campaign_*.py`, `unsubscribe_*.py` | frozen audiences, blocks, sends | freeze, block, unsubscribe, test send | Gmail send, PostgreSQL |
| Quotes | `v2/quotes`, `quote_*.py`, `current_revision.py`, `case_won.py` | quotes, revisions, cases, documents | create, draft, approve, void, revise, record a historical one, choose the one in force, win | Drive, PostgreSQL |
| Mail rules | `v2/mail_rules*.py`, `quote_sent.py` | proposals and applied actions | plan over captured mail, apply, undo | PostgreSQL |
| Email pipeline | `apps/email-pipeline` | the V1 SQLite and Postgres mirrors | ingest, classify, refresh, mirror | files, databases |
| Dashboard, proxy, web site | `apps/dashboard`, `apps/dashboard-proxy`, `apps/web` | browser and edge state | views and forms | the API |

How they interact: the capture cycle runs the capture, the filing and the quote
reading as child processes, one after another, and learns only their exit code
and one line of counts.  They share the database and nothing else.  Triage finds
new mail by querying for it, not by a message from the capture.  The API writes
the quote revisions that filing and quote reading pick up, and asks for the
tender preparations that the worker's sweep claims.  The mail rules write the
same revisions and cases as people's commands do.  In the worker a database
session is the unit of locking: its advisory lock dies with it.  In the API the
transaction is: its row locks, its receipt and its event end together.

The behaviour that is hard to get right in these parts, and the properties that
make each one correct:

* **Capture.**  Two systems (Gmail's history, the mailbox row) joined by a
  cursor.  Runs overlap, die, are suspended and lose their session; consent is
  revoked; Gmail forgets its history; people move and delete mail while a run
  reads it.  Correct means: nothing that Gmail listed is passed by the cursor
  without being recorded; the resync fallback reaches what is pending; the
  cursor never goes back; a row never names a missing file; evidence and row
  commit together; capture is not locked out for ever.
* **Cycle.**  A follow-up is decided by what the last Gmail check said; retries,
  deadlines and failures sit between that answer and the follow-up.  Correct
  means: one cycle at a time, bounded attempts, filing only after a capture
  that succeeded, and new mail filed and read at once or soon.
* **Filing.**  Drive has no transaction with the database.  Correct means one
  file per document and one folder per case in spite of crashes, retries and a
  search index that lags; a record only for a verified file.
* **Triage.**  One job puts up to three paid questions to a model: what the
  message says, which case it is of, and what to keep in the memory of its cases.
  Correct means each message is triaged, none of these questions is paid for
  twice, and a message that cannot be read leaves the queue.
* **Tender preparation.**  A paid call runs between two transactions, under a
  lock that a lost session gives up.  Correct means: one worker runs one row,
  the month's bill stays within the cap, a row is ready only with its usage
  recorded, a final status stays, and every request ends.
* **Commands.**  Requests with one key race, Gmail is called between two
  transactions, and processes die around the call.  Correct means: under a key
  at most one effect, told "ok" only when it happened; quotas that requests at
  once do not pass together; an audit stream without gap or double; nobody
  waiting in a circle.
* **Quotes.**  People act on what a screen showed, the rule on what it read
  before its transaction.  Correct means: one revision in force, what was
  approved is what was shown, the revision a case was won with stands, and no
  deadlock between commands.

What is hard to test in this code is listed, line by line, under `hazards` in
`PROJECT.json`, with the properties that cover each item or the reason why none
does.  Two items have no property: the two work lists of bounded length (the
candidates of `drive-file`, the sweep of triage) whose places can be taken for
ever by items that never leave them.

## 2. Modules, and how they correspond to the code

Each component has a module `X`, an `MCX` with the small instances, a `.cfg` per
run, and where it has theorems an `XProofs`.  `PROJECT.json` maps every
definition to the lines it translates.  The definitions whose comment begins
with *Mutant:* are variants of the one below them with a plausible bug; no
specification uses them.

**`GmailCapture`** is one capture command, statement by statement: take the
advisory lock (`TryLock`), read the mailbox row (`ReadMailbox`), read Gmail's
profile and with it the cursor to write later (`ReadProfile`), authorise under
`--init`, list the window, and for each message decide, download, upload and
record; only then `Advance` the cursor.  The labels of `pc` are these places.
`label`, `date`, `log` and `floor` are Gmail: where a message is, its
`internalDate`, the history that `history.list` answers from, and where that
history begins.  `auth`, `cursor` and `synced` are the row of `comms.mailbox`;
`parsed`, `failed`, `named` and `evidence` are the rows of a message;
`objects` is Storage.  `holder` is the session with the lock: a killed run
leaves an orphan, idle or inside a transaction, and `stale` says that it has been
quiet for `STALE_LOCK_AFTER`.  A suspended process keeps its place in the
program after its session is terminated; `SessionAlive` says whether its next
statement can succeed.  Variables called *history* exist for the properties only.

**`CaptureCycle`** is one minute of `capture_queue.py`: the periodic job and its
one waiting place, the session lock over the retries, the three child commands,
the in-memory clock of the follow-ups, worker processes that start, stop and
overlap in a deploy.  A child command is one step that succeeds, fails after
part of its work, or times out: what `GmailCapture` (the mail check) and
`DriveFiling` (the filing) describe inside is here the set of messages it got
to.

**`DriveFiling`** is `drive-file` and the archiver of the API package it calls:
list the candidates, find the case's key, resolve or create its folder, search
for the file by its hash, upload, verify, record.  `drive` is the list of items in
Drive, `shown` those that Drive's search returns.  `LostAnswer` is a POST that
Drive carried out and answered with an error, which `_request` sends again.
`excused` remembers the cases for which Drive or a lost session misled a run.
The candidates are chosen as positions among the registered revisions
(`Candidates`), newest first.

**`TriageQueue`** is the sweep, Procrastinate's queue as this code uses it, and
`triage_one`: what a job has to do (`Plan`) is read once at `Load`, the `.eml`
is fetched, the model asked, and the answer recorded; a bounce gets its
observation and perhaps its block in a second transaction, and the later readings
follow in transactions of their own.  `todo` and `tries` are the waiting jobs,
`slot` the running ones.  The queueing lock covers waiting jobs only, so that
two slots may work on one message.  A reading stands for the products it names.
A job on mail a person wrote asks the model more than once (`Questions`), and
`paid` counts each question by itself: its reading (`Answered`, where an answer that
`parse_reading` refuses is paid for like any other and the rules are recorded);
before the transaction that records, the pick of its case (`Pick`: `match_message` with
the job's settings, which does not ask when layer 1 is sure, the reader is off or
the thread is a tender's, and records a match whatever the answer; only its own
failed reads leave none); and at the end, when it is enabled, the memory
(`Remember`).  A call that fails is not paid for.  `lost`, `overlapped` and `paid`
are history, kept of the mail that people wrote (`HumanMail`), the only mail a model
is asked about: `paid` starts again from nothing when a job on the mail fails or
dies or two overlap on it, since from then on `PaidOnce` promises nothing of it.

**`TenderJob`** is one sweep of `tender/job.py` with the request that precedes
it: `Ask` (the API's check of the cap and of the one open row), `TryLock`,
`Recover` (fail what is running under a lock nobody held, and charge the worst
case of a row without usage), `Claim`, and for each call `Clear` (the check of
the cap), `Send`, `Record`; then `Finish`.  `SessionLost` leaves a worker at its
place: `RecordAfresh` and `Stranded` are what `job.py` does on its fresh
session.  `billed` is what the provider bills in truth, `recorded` what the
table says; `open` and `leaked` are history.

**`BidQueue`** is its abstract specification, in terms of the requests and their
status alone: a preparation is asked for when its case has none of its phase
open (and, for a fill, a ready read), starts when it is the first that waits and
none runs, and ends once.  `KeepsTurns` is its specification, with the variables
as they are.

**`CommandReceipts`** is the transaction of a command: the claim of the receipt
(`Claim`, or `Replay`, or `Conflict`), the row or advisory lock (`Lock`), the
command's check, its event at the next position of the audit stream (`Number`
reads it, `AppendEvent` inserts it, `Collide` is the unique index), and
`CommitWhole`.  «Enviar prueba» and «Preparar correo» commit an attempt
(`CommitAttempt`), call Gmail with nothing open (`Deliver`, `DeliverFails`) and
commit the result.  A waiting request is one whose action is not enabled;
`Waits` says for what.

**`OnceOnly`** is the abstract specification of an idempotency key in terms of
three variables: the effects under a key, what the key is settled as, and what
each request was told.  `KeepsPromise` is `OnceOnly`'s specification under the
mapping at the end of `CommandReceipts`: the effects as they are, a receipt in
progress as not settled, and any answer but "ok" as "no".

**`QuoteBook`** is the commands on a quote as the people who give them see them:
`rev` is the revisions of each quote, `case` the cases, `Ask` fixes what the
screen, or the rule's snapshot, had (`saw`), the checks say when a handler goes
on and the writes what it leaves.  `BookSpec` is the abstract specification: a
command is allowed and done in one step (`DoneAtOnce`), or given up.  A revise has
one step before: `FindSource` is the statement that finds the newest issued
revision, and `Revise` copies the one that was found.  A mail has one quote, or
two of different cases (`MailAssumption`).

**`QuoteRevisions`** extends it with what the code does instead: each command is
a transaction over row locks.  `Lock` takes the next row of the handler's order
and does the checks the handler does after it; `Find` is `FindSource` under the
quote's lock; `Commit` writes, with no check any more.  `holds` is the row locks
with their mode.  `ActsAtOnce` is `BookSpec` with the locks left out: whatever runs
between the locks of a command, all it checked is so when it writes.  For the
revision a revise copies, the code promises less, and so does `BookSpec`
(`SourceStands`): the revision is not locked, a void locks nothing else, and the
one that was found may be void by the time it is copied.  It was issued, and no later one
is.

How they compose: `CaptureCycle` is the environment of `GmailCapture` (it starts
a run a minute, bounds its time by `STAGE_TIMEOUT`, restarts it) and of
`DriveFiling`; the modules share no variable, since the programs share only the
database and the exit code.  `TriageQueue` begins where `WithEvidence` of
`GmailCapture` ends: a parsed message with its evidence row.  `DriveFiling`
begins with the registered revisions that `QuoteRevisions` makes.  `CommandReceipts`
is the frame in which the commands of `QuoteRevisions` run; the latter takes the
frame's promise for granted, and models what the handlers do to shared rows.

## 3. What the runs check

| Run | Result | Instance | What it shows |
|---|---|---|---|
| `capture_overlap` | holds | one bounce, two runs, clock 0..2, history of 2, one fault | `NothingSkipped`, `ResyncReachesPending`, `CursorOnlyMovesOn` with runs that overlap, are suspended and taken over |
| `capture_rows` | holds | a bulk send, an unparsable and an oversize message, one run, one fault | `RowNamesObject`, `TypeOK` over every kind of message |
| `capture_live` | holds | one message, two runs, one fault, fairness | `PendingIsCaptured`, also past an orphaned session with the lock |
| `capture_unspam` | violated | one message, one run | a message moved out of spam is missed by a resync (`GainedInboxIsCaptured`) |
| `cycle` | holds | two processes, one message, two attempts, one fault, fairness | `TypeOK`, `OverlapNeedsLostSession`, `QuietLeavesFreshMail`, `StoredIsFollowedUp`, `ArrivedIsStored` |
| `drive` | holds | three documents, one of them bad, two cases, two filers, two faults, fairness | `TypeOK`, `CopiesAreExcused`, `RecordsAreTrue`, `RegisteredIsRecorded` |
| `triage` | holds | a quote request and a bounce, two slots, two faults, fairness | `TypeOK`, `PaidOnce`, `MentionsAreOfTheReading`, `PeopleAreRead`, `PendingIsTriaged` |
| `tender` | holds | a read, its fill and another case's read, two sweeps, a cap of two and a half worst cases, two faults, fairness | `TypeOK`, `CapHoldsButForLeaks`, `RunsOnlyItsRow`, `ReadyIsAccounted`, `EveryAskEnds`, and the refinement `KeepsTurns` |
| `tender_leak` | violated | the same, without fairness, a cap of two worst cases | a lost second call is not charged and the month passes its cap (`CapHolds`) |
| `receipts` | holds | six requests with three keys on one finding, a quota of one, one fault | `TypeOK`, `TrailInOrder`, `TrailMatches`, `BusyIsExcused`, `SomeoneRuns`, `QuotaHolds`, and the refinement `KeepsPromise` |
| `quotes` | holds | any three of sixteen requests on three minted quotes and a historical one | `TypeOK`, `OneInForce`, `ChainsEnd`, `ApprovedAsShown`, `WonStands`, `CirclesNeedTwoCases`, and the refinement `ActsAtOnce` |
| `rule_reopens` | violated | a mail of two cases and a person's move | the rule reopens a case a person closed (`OnlyPeopleReopen`) |

There is one run per question.  Two properties are theorems that no run repeats:
`BlockIsProved` (a block rests on a bounce that was read) and `Reopened` (who
opens a closed case again); and `FinalStays`, which `KeepsTurns` implies.

**Bounds.**  Every bound is a constant named `Max...` in the module, or `Limit`,
`Tries`, `Attempts` of the code, given a small value.  The interesting cases
need little: two actors for an overlap, one fault to lose a session (two in
Drive and triage, where a second failure hits the repair of the first), a clock
that goes past the overlap by one.  `capture_overlap` takes a bounce because a
bounce is captured from the trash too, and so has every move that a plain
message has and more.  For the components with theorems the safety properties do
not rest on these bounds at all (section 5).  `receipts` gives each key to two
requests, one pair of them a request and its retry (`Retries`, a symmetry of
that pair: nothing else tells the two apart), and all of them one finding, so
that they meet at every lock.  `quotes` takes every three of its requests
(`MaxAsked`): two that collide and one that changes the rows they read; each
request is made once, with what any screen could have shown.  `tender` has a
cap that stops a third call at its worst case and not at less.  `drive` and
`triage` have a `Limit` as large as their documents and messages: with a smaller
one, items that never leave the list can fill it (section 6).

**Deadlock** is checked in the runs of the capture, the cycle, filing, triage
and the tender job, where people, clocks and sweeps always have a step.  In
`receipts` and `quotes` requests are made once and the system may stop
(`CHECK_DEADLOCK FALSE`); what must not happen there, everyone waiting for
everyone, is stated as `SomeoneRuns` and `CirclesNeedTwoCases`.

**Fairness.**  Nothing that fails is fair, and no message need arrive.  Assumed
are: a started process goes on (weak); PostgreSQL ends the session of a dead
client, which its keep-alive does (weak); the cron defers the cycle and Render
restarts a worker that ended, which its supervisor brings about by failing the
service (weak); a sync is tried a minute, and the owner runs `--init` while the
mailbox is not authorised, each again and again while the lock is free for most
of every minute (strong, since a run in between takes the lock); Procrastinate
fetches jobs by id, so that none is passed over for ever, and the sweep is
deferred every minute (strong, since both slots may be busy in between).  The
bound on faults makes them finite: a system that fails for ever makes no
progress.  Each tender child runs its sweep each minute, and a sweep that has
begun goes on or its session is lost (weak, per worker).  `PendingIsTriaged`
gives up when Storage loses an object (section 4).  `receipts` and `quotes` check
no liveness: nothing makes a client retry.

## 4. Disagreements between code and documents

The first three are runs with the trace that TLC prints.

1. **Missed by a resync** (`capture_unspam`).  `docs/OPERATIONS.md` says that a
   draft later sent and a message moved out of spam are captured.  When the
   history cursor has expired, the run lists by date of arrival, so such a
   message dated before the overlap is not listed and the cursor passes it.  (A
   delivery report in the trash is missed in the same way, since a search leaves
   the trash out; `Owed` excludes both.)
2. **A call that is never charged** (`tender_leak`).  `recover_interrupted` charges
   the worst case of an interrupted preparation "so the monthly cap does not
   leak", but only when the row has no usage since its claim.  The second call of
   a preparation, lost with its process or session, is billed and never
   recorded.  `CapHoldsButForLeaks` says exactly by how much the cap can be passed.
3. **A rule that reopens a case** (`rule_reopens`).  For a mail with the quotes of
   two cases, only the action's first case is looked at again before the rule is
   applied.  The second, closed by a person since the plan, is moved on, though
   `mail_rules_repository.py` says that the action is then refused.  The theorem
   `ReopenedByWhom` says how far this reaches: every other reopening is a person's
   move.

The following were met while modelling and have no run.

4. **Moved between two reads.**  The labels are read with the metadata and again
   with the download; moved to spam in between, a message makes `build_capture`
   refuse what it calls "a bug, never data", and the run stops.  The next run
   goes on, since the cursor did not move.
5. **Retried check.**  The cycle decides on filing by what the *last* attempt of
   the mail check stored; mail stored by an attempt that then failed waits for
   the safety net, up to `FOLLOWUP_EVERY`, which `QuietLeavesFreshMail` bounds.
6. **Failed reading.**  A failed `quote-read` restarts the follow-up clock, so
   the next quiet cycle does not "read again".
7. **Repeated POST.**  `DriveClient._request` repeats an upload on 5xx; an upload
   that was carried out is made twice, and the case folder holds two files.
   `CopiesAreExcused` leaves such a case out (`excused`).
8. **Unreadable for ever.**  `_unreadable` closes a first triage and a bounce;
   a message that lacks only its requester or case match, and whose `.eml` is
   gone, is found by every sweep until it is too old.
9. **Two drafts.**  «Preparar correo» checks for a draft in its first transaction
   and writes its event in the last, with Gmail in between and no lock: two
   requests with different keys and without `again` make two drafts.
10. **Copied from a void one.**  `create-quote-revision` finds the newest issued
   revision without locking it; a void that commits before the copy leaves a
   draft made from a voided revision, where a revise that comes after the void
   would be refused or would copy an older one.  A void after the copy leaves the
   same rows, so nothing is broken by it; `ActsAtOnce` allows it in so many
   words.

## 5. What is proved

The proofs hold for every value of the constants that meets the named
assumptions, so for every number of messages, runs, processes and slots.

**`GmailCaptureProofs`**, from `KindAssumption`, `RunsAssumption`,
`TimeAssumption` (a run is shorter than `RESYNC_OVERLAP`) and
`BoundAssumption`: `TypeCorrect`, `NothingIsSkipped`, `ResyncIsEarlyEnough`,
`CursorNeverGoesBack`, `RowsNameObjects`.  `NothingSkipped`
speaks of the stored cursor, and only the step that moves it could break it; the
inductive invariant `IInv` therefore says what a run in progress knows.
`HolderInv`: what the holder of a live session read of the row is still what the
row says, and its target lies between the cursor and the end of the log.
`WindowInv`: whatever its window owes is recorded, in its hands, or listed again
later.  `WorkInv` and `MailboxInv` tie the places of a run and the row to each
other.  `TimeAssumption` is what `ResyncReachesPending` needs: the target is
read before the listing, so mail that comes after it is dated no earlier than
the run's start, which is at most `MaxRun <= Overlap` before its commit.

**`CaptureCycleProofs`**, from the four assumptions of `CaptureCycle`:
`TypeCorrect`, `CyclesExclude`, `QuietIsFresh`.  `HolderInv` says that a cycle with
a live session is the lock's holder; `FreshInv` bounds the age of unfiled mail by
the clock of the follow-ups and the time the command at hand has run; `WaitInv`
bounds the attempts.

**`DriveFilingProofs`**, from `CaseAssumption`, `FilerAssumption`,
`LimitAssumption` and `ArchiveAssumption` (the laptop archive made one folder for a
case and one file for a document): `TypeCorrect`, `RecordsAreAlwaysTrue`,
`CopiesAreAlwaysExcused`.  A copy is made when search shows none, so the invariant
must say why "not shown" means "not there" at the moment of the POST.  `Seen`: an
item that search does not show belongs to an excused case.  `AloneOf`: a run
with its session holds the lock, and one that works without it has an excused
case, so nobody else makes items of a case that is not excused.  `BlankOf`: what
a run is about to make is not there yet.  `PlacesOf`: the folder and the file a
run has in hand are those of its candidate.  `Single` is then
`CopiesAreExcused` item by item.

**`TriageQueueProofs`**, from `MessagesAssumption`, `ClassAssumption`,
`AnswersAssumption` (an answer is none of the three marks)
and `BoundsAssumption`: `TypeCorrect`, `BlocksAreProved`, `PaysOnce`, `MentionsMatch`,
`PeopleFollow`.  The invariant says what a running job may rely on: `AloneInv`
that jobs on a message without an overlap are alone on it; `ViewInv` that such a
job, while it triages, still finds the message without a reading, however old its
plan is; `AnswerInv` that only mail a person wrote is given to the model;
`PaidInv`, question by question, that what was paid for is in the hands of a job
past that question, or the message has its reading, so that no job asks again;
`LaterInv` that the readings after a triage are there or a job is about to write
them.

**`TenderJobProofs`**, from `PrepAssumption`, `WorkerAssumption`,
`MoneyAssumption` and `BoundAssumption`: `CapHoldsButForLeaksAlways`,
`SingleFlight`, `ReadyAccounted`, `FinalStaysAlways`, `AlwaysKeepsTurns`,
`TurnsHoldAlways`, `Types`.  `FlightInv` says
which row a worker may still write, with and without its session; `OpenInv` ties
the history of a call to the place of its worker; `MoneyInv` bounds what is
billed, or may be by a call that is cleared, by what is recorded, given up, and
open in the one running row.  `AlwaysKeepsTurns` is the refinement of `BidQueue`,
step by step: a recovery is one end and not two because at most one row runs,
a claim is a start because none runs under a live lock (both `FlightInv`), and a
final status, a stranded worker's on a fresh session included, ends a row that
runs or changes nothing.  What follows of the queue alone (`TurnsHold`) is then true of
the job: one runs, a case has one open of a phase, a fill keeps its ready read,
and none that waits is overtaken.

**`CommandReceiptsProofs`**, from `RequestAssumption` and `BoundAssumption`:
`ReceiptsKeepThePromise` (the refinement: the initial states map to `OnceOnly`'s
and every step to a step of it or a stutter), `QuotaAlways`,
`TrailInOrderAlways`, `TrailAlwaysMatches`, `BusyExcused`, `SomeoneAlwaysRuns`,
`Types`.  `KeyInv` says what a receipt tells
of its effect and of the request behind it, `PlaceInv` what a request may rely on
at its place, `LockInv` and `QuotaInv` that the room under the quota seen under
the lock is still there at the commit, `TrailInv` that an inserted position is
the next one and nobody else's.  `HolderInv` says that a lock is held by a request
between its check and its commit, which waits for nothing: so whoever waits,
waits for somebody who runs.  `NumberedInv` and `EventInv` say where the event of
a key is: nowhere before it is inserted, and once after.

**`QuoteRevisionsProofs`**, from `QuoteAssumption`, `MailAssumption` and
`StartAssumption`: `OneInForceAlways`, `ChainsAlwaysEnd`,
`ApprovedAsShownAlways`, `WonStandsAlways`, `AlwaysActsAtOnce`,
`CirclesAlwaysNeedTwoCases`, `ReopenedByWhom`, `Types`.  `LocksExclude` says that
row locks do what they are for, `SawOK` that what a request was shown is no newer
than what there is, and `Checked` that what a handler checked of a row when it
locked it still holds: the only way to change a row is to hold its lock.

* `AlwaysActsAtOnce` is the refinement of `BookSpec`.  A commit checks nothing, so
  the proof must say that all a command checked, each row at the moment it was
  locked, would pass again at its commit: `PermitInv`, kept because every other
  command's write needs a row this one holds.  What a revise found is the
  exception: `SourceOK` says what the quote's lock alone keeps of it.
* `CirclesAlwaysNeedTwoCases`.  `OrderInv` says that every command on one case
  takes the case, the quote and the revisions in that order.  Who holds a
  revision and waits for another is an approval or a choice, which hold the case
  and the quote too; who waits for that revision is then a void, the one command
  that takes a revision without them, and it holds nothing else.  So nobody waits
  for it, and there is no circle.
* `ReopenedByWhom`.  A closed case is opened again only by a person's move, or
  by the rule for a mail that was linked before, and then it is the mail's
  second case, the one not looked at again (`ReadOpen`).

Each invariant is `IInv`, shown by `Init => IInv`, one step per action, and
`IInv => P`; the temporal steps combine these.

Every safety property that a passing run checks is a theorem.  Only model-checked
are the liveness properties `PendingIsCaptured`, `StoredIsFollowedUp`,
`ArrivedIsStored`, `RegisteredIsRecorded`, `PendingIsTriaged` and
`EveryAskEnds`: they rest on fairness and on `ENABLED`, which the prover does not
reason about.

## 6. What is left out

* *Capture*: dry runs (they write nothing); the parser and the skip rules beyond
  the kind of a message.
* *Cycle*: a child command that outlives its killed parent; the `asyncio` lock
  inside one process, since a process runs one job at a time.
* *Filing*: people who move or trash items in Drive, a name that is taken, the
  tender package.  The candidates are the newest `limit` documents without a
  row: with more always-refused documents than `limit`, an older one waits.
* *Triage*: the rules and what the matcher decides (data); `triage-once` and the
  backfill commands, run by hand, which ask and pay for themselves; the calls of a
  round of memory one by one (up to three for each case of the mail); the 14-day window and a new `TRIAGE_VERSION`; soft
  bounces; a sweep's inserts one by one (they are one step).  The sweep takes the
  newest `SWEEP_LIMIT` pending messages: as many that stay pending (item 8 of
  section 4) keep the older ones out.
* *Tender preparation*: what a read, a match or a filled form contains, the
  package and its filing in Drive; the change of the month; prices, which are
  one worst case and an actual cost below it.  A request is one step, so its place
  in the queue (`requested_at`, the start of its transaction) and the moment it
  is seen are one; two requests of different cases that commit the other way
  round may swap their places.
* *Commands*: what the commands other than the four write inside their one
  transaction; editing a finding; the daily quota, which is counted like the
  hourly one; the `expected_version` check, which is one comparison under the row
  lock and is modelled where it matters, in `QuoteRevisions`.
* *Quotes*: create-quote with its numbering; `record_case_quotation`, with which a
  person records a sent quotation (`Record` is the worker's `record_quotation`; the
  person's takes the case's row for itself, compares its version and counts it up);
  a mail with more than two quotes, or with several of one case; PDFs and previews; prices, terms and
  recipients (one value, `text`); the locks that foreign keys take; undo of a
  rule.
* *Other components*: see `components` in `PROJECT.json`.

### Not modelled

Sign-in is one database function under two row locks around an identity
provider.  The worker supervisor is a sequential loop over operating-system
processes; what its children leave behind when they die is modelled where they
leave it.  Tender discovery, the prospect search, the email pipeline, the
dashboard, the proxy and the web site are batch scripts, I/O and views without
shared state that several actors change.  Most of the repository's lines are of
these kinds, which is why the modules cover a small share of them.

## 7. What could follow

1. `QuoteReading`: a paid reading that is written or refused for a week, and the
   composition of `CaptureCycle` with it.
2. `create-quote`: the numbering lock and the handlers it calls, next to the lock
   order that `QuoteRevisions` has for the commands on what it creates.
3. The other mail rules and their undo, as actions of `QuoteRevisions`.
4. People who move, rename or trash items in Drive, and the tender package, in
   `DriveFiling`.
