----------------------------- MODULE DriveFiling -----------------------------
(***************************************************************************)
(* drive-file (cli.py, drive_filing.py) and the archiver it calls          *)
(* (quote_case_archive.py): every registered quote PDF is put in its       *)
(* case's Drive folder and a drive_file row records where.  Drive and the  *)
(* database are two systems: what a run did in Drive before it died is     *)
(* found again by search, and Drive's search index may lag.  A document is *)
(* its SHA-256.                                                            *)
(***************************************************************************)
EXTENDS Integers, Sequences, FiniteSets

CONSTANTS Docs, Cases,
          CaseOf,   \* the opportunity of each document
          Bad,      \* documents refused for what they are (bytes, names)
          Archive,  \* what the laptop archive put in Drive before
          Filers,   \* drive-file processes
          Limit,    \* candidates of one run
          MaxFaults \* bound: lost answers, index lags, refusals, deaths

Nobody == "nobody"
Orphan == "orphan"     \* the session of a killed process

\* Keys of a case: its CRM id, or the one the laptop archive gave it.
Keys == {"crm", "archive"}
CaseFolder(c, k) == [kind |-> "case", case |-> c, key |-> k]
Revision(d, k, i) == [kind |-> "revision", doc |-> d, key |-> k, folder |-> i]

ASSUME CaseAssumption == CaseOf \in [Docs -> Cases] /\ Bad \subseteq Docs
ASSUME FilerAssumption == Filers \cap {Nobody, Orphan} = {}
ASSUME LimitAssumption == Limit \in Nat \ {0} /\ MaxFaults \in Nat

CaseItems == [kind : {"case"}, case : Cases, key : Keys]
RevisionItems(ids) ==
  [kind : {"revision"}, doc : Docs, key : Keys, folder : ids]

\* The laptop archive made one folder for a case and one file for a document.
ASSUME ArchiveAssumption ==
  /\ Archive \in Seq(CaseItems \cup RevisionItems(DOMAIN Archive))
  /\ \A i, j \in DOMAIN Archive :
       \/ i = j
       \/ Archive[i].kind # Archive[j].kind
       \/ Archive[i].kind = "case" /\ Archive[i].case # Archive[j].case
       \/ Archive[i].kind = "revision" /\ Archive[i].doc # Archive[j].doc

VARIABLES
  registered,  \* quote revisions with a PDF, oldest first
  records,     \* drive_file rows, oldest first
  drive,       \* the items in Drive, by id
  shown,       \* the ids that Drive's search finds
  holder,      \* the session that holds the drive-file lock
  lost,        \* runs whose session ended under them
  pc, todo,    \* each run: its place, the candidates left
  key, folder, file,  \* of the candidate it works on
  excused,     \* history: cases for which Drive or a session misled a run
  faults

run == <<pc, todo, key, folder, file>>
sessions == <<holder, lost>>
world == <<registered, records, drive, shown, excused>>
vars == <<world, sessions, run, faults>>

Fault == faults < MaxFaults /\ faults' = faults + 1

Recorded(d) == \E i \in DOMAIN records : records[i].doc = d

Doc(f) == Head(todo[f])
Case(f) == CaseOf[Doc(f)]

\* find_by_property and children: what a search finds.
NamesFound(c) == {i \in shown : drive[i].kind = "case" /\ drive[i].case = c}
FoldersFound(c, k) == {i \in NamesFound(c) : drive[i].key = k}
CopiesFound(d) ==
  {i \in shown : drive[i].kind = "revision" /\ drive[i].doc = d}

-----------------------------------------------------------------------------
(* The database, Drive and the sessions.                                   *)

\* A person or a rule registers a quote.
Register(d) ==
  /\ \A i \in DOMAIN registered : registered[i] # d
  /\ registered' = Append(registered, d)
  /\ UNCHANGED <<sessions, records, drive, shown, run, excused,
                 faults>>

Show(i) ==
  /\ i \in DOMAIN drive \ shown
  /\ shown' = shown \cup {i}
  /\ UNCHANGED <<sessions, registered, records, drive, run, excused,
                 faults>>

OrphanEnds ==
  /\ holder = Orphan
  /\ holder' = Nobody
  /\ UNCHANGED <<world, lost, run, faults>>

TryLock(f) ==
  /\ pc[f] = "idle" /\ holder = Nobody
  /\ holder' = f
  /\ lost' = lost \ {f}
  /\ pc' = [pc EXCEPT ![f] = "list"]
  /\ UNCHANGED <<world, todo, key, folder, file, faults>>

\* A run ends; with its process goes its session.
End(f, h) ==
  /\ pc' = [pc EXCEPT ![f] = "idle"]
  /\ todo' = [todo EXCEPT ![f] = <<>>]
  /\ holder' = IF holder = f THEN h ELSE holder
  /\ UNCHANGED <<key, folder, file, lost>>

\* A kill, a revoked consent: the run stops where it is.
Crash(f) ==
  /\ pc[f] # "idle" /\ Fault
  /\ \E h \in {Nobody, Orphan} : End(f, h)
  /\ UNCHANGED <<world>>

\* A run works on a candidate until its next statement.
Working(f) == pc[f] \in {"folder", "create", "file", "upload", "record"}

SessionLost(f) ==
  /\ pc[f] # "idle" /\ f \notin lost /\ Fault
  /\ lost' = lost \cup {f}
  /\ holder' = IF holder = f THEN Nobody ELSE holder
  /\ excused' = IF Working(f) THEN excused \cup {Case(f)} ELSE excused
  /\ UNCHANGED <<registered, records, drive, shown, run>>

\* The first statement on a lost session raises, and no handler catches it.
Dies(f) ==
  /\ pc[f] \in {"list", "key", "record"} /\ f \in lost
  /\ End(f, Nobody)
  /\ UNCHANGED <<world, faults>>

-----------------------------------------------------------------------------
(* One run: DriveFiler.run and file_one.                                   *)

\* Mutant: the run goes on after its last candidate.
NextDocPast(f) ==
  IF todo[f] # <<>>
    THEN /\ todo' = [todo EXCEPT ![f] = Tail(@)]
         /\ pc' = [pc EXCEPT ![f] = "key"]
         /\ UNCHANGED <<sessions, key, folder, file>>
    ELSE End(f, Nobody)

\* The next candidate, or the end of the run.
NextDoc(f) ==
  IF Len(todo[f]) > 1
    THEN /\ todo' = [todo EXCEPT ![f] = Tail(@)]
         /\ pc' = [pc EXCEPT ![f] = "key"]
         /\ UNCHANGED <<sessions, key, folder, file>>
    ELSE End(f, Nobody)

\* FilingRefused, DriveError, StorageError: count it, go on with the next.
Refuse(f) ==
  /\ NextDoc(f)
  /\ UNCHANGED world

\* _CANDIDATES_SQL: what has no row yet, newest first, at most Limit; as
\* positions in registered.
Open == {i \in DOMAIN registered : ~Recorded(registered[i])}
Room == IF Cardinality(Open) < Limit THEN Cardinality(Open) ELSE Limit
Candidates ==
  {s \in [1 .. Room -> Open] :
     /\ \A i, j \in 1 .. Room : i < j => s[i] > s[j]
     /\ \A p \in Open : \E i \in 1 .. Room : s[i] = p \/ (i = Room /\ p < s[i])}

List(f) ==
  /\ pc[f] = "list" /\ f \notin lost
  /\ \/ Open = {} /\ End(f, Nobody)
     \/ /\ Open # {}
        /\ \E s \in Candidates :
             todo' = [todo EXCEPT ![f] = [i \in 1 .. Room |-> registered[s[i]]]]
        /\ pc' = [pc EXCEPT ![f] = "key"]
        /\ UNCHANGED <<sessions, key, folder, file>>
  /\ UNCHANGED <<world, faults>>

\* The case key of the first row of the case.
FirstRecord(c) == {i \in DOMAIN records :
                     /\ CaseOf[records[i].doc] = c
                     /\ \A j \in 1 .. i - 1 : CaseOf[records[j].doc] # c}

\* The case keys of the files that hold the case's other revisions.
Siblings(d) ==
  UNION {CopiesFound(registered[i]) :
         i \in {j \in DOMAIN registered :
                  registered[j] # d /\ CaseOf[registered[j]] = CaseOf[d]}}

\* Mutant: every case gets a new folder key.
CaseKeysNew(d) == {"crm"}

\* DriveFiler.case_key: a row of the case, a file of the case, the one folder
\* with the case's opening number, or a new key.
CaseKeys(d) ==
  LET c == CaseOf[d]
      first == {records[i].file : i \in FirstRecord(c)}
      named == NamesFound(c)
  IN IF first # {} THEN {drive[i].key : i \in first}
     ELSE IF Siblings(d) # {} THEN {drive[i].key : i \in Siblings(d)}
     ELSE IF Cardinality(named) = 1 THEN {drive[i].key : i \in named}
     ELSE {"crm"}

CaseKey(f) ==
  /\ pc[f] = "key" /\ f \notin lost /\ Doc(f) \notin Bad
  /\ \E k \in CaseKeys(Doc(f)) : key' = [key EXCEPT ![f] = k]
  /\ pc' = [pc EXCEPT ![f] = "folder"]
  /\ UNCHANGED <<world, sessions, todo, folder, file, faults>>

BadDoc(f) ==
  /\ pc[f] = "key" /\ Doc(f) \in Bad
  /\ Refuse(f)
  /\ UNCHANGED faults

\* _resolve_case_folder, up to the creation.
ResolveFolder(f) ==
  /\ pc[f] = "folder"
  /\ LET hits == FoldersFound(Case(f), key[f])
     IN \/ /\ Cardinality(hits) = 1
           /\ folder' = [folder EXCEPT ![f] = CHOOSE i \in hits : TRUE]
           /\ pc' = [pc EXCEPT ![f] = "file"]
           /\ UNCHANGED <<world, sessions, todo, key, file>>
        \/ /\ hits = {} /\ NamesFound(Case(f)) = {}
           /\ pc' = [pc EXCEPT ![f] = "create"]
           /\ UNCHANGED <<world, sessions, todo, key, folder, file>>
        \/ /\ Cardinality(hits) # 1
           /\ NamesFound(Case(f)) # {}
           /\ Refuse(f)
  /\ UNCHANGED faults

\* A POST that Drive carries out: a new item, which its search may not show
\* yet.
Post(f, item) ==
  LET id == Len(drive) + 1
  IN /\ drive' = Append(drive, item)
     /\ \/ shown' = shown \cup {id} /\ UNCHANGED <<faults, excused>>
        \/ shown' = shown /\ Fault /\ excused' = excused \cup {Case(f)}

\* Drive carries the POST out and answers 5xx: the client sends it again, or
\* gives up and the document is refused.
LostAnswer(f) ==
  /\ pc[f] \in {"create", "upload"} /\ Fault
  /\ drive' = Append(drive, IF pc[f] = "create"
                              THEN CaseFolder(Case(f), key[f])
                              ELSE Revision(Doc(f), key[f], folder[f]))
  /\ shown' = shown \cup {Len(drive) + 1}
  /\ \/ /\ excused' = excused \cup {Case(f)}
        /\ UNCHANGED <<sessions, run>>
     \/ /\ NextDoc(f)
        /\ UNCHANGED excused
  /\ UNCHANGED <<registered, records>>

CreateFolder(f) ==
  /\ pc[f] = "create"
  /\ Post(f, CaseFolder(Case(f), key[f]))
  /\ folder' = [folder EXCEPT ![f] = Len(drive) + 1]
  /\ pc' = [pc EXCEPT ![f] = "file"]
  /\ UNCHANGED <<sessions, registered, records, todo, key, file>>

\* Mutant: a file that an interrupted run left is not looked for.
HitsNone(f) == {}

\* Mutant: files are looked for by the key of the case.
HitsOfCase(f) ==
  {i \in shown : drive[i].kind = "revision" /\ CaseOf[drive[i].doc] = Case(f)}

\* The files with this document, wherever they are.
Hits(f) == CopiesFound(Doc(f))

InCase(f, i) == drive[i].key = key[f] /\ drive[i].folder = folder[f]

\* archive_case, up to the upload: one hit in the case folder is reused.
FindFile(f) ==
  /\ pc[f] = "file"
  /\ \/ /\ Hits(f) = {}
        /\ pc' = [pc EXCEPT ![f] = "upload"]
        /\ UNCHANGED <<world, sessions, todo, key, folder, file>>
     \/ /\ Cardinality(Hits(f)) = 1 /\ \A i \in Hits(f) : InCase(f, i)
        /\ file' = [file EXCEPT ![f] = CHOOSE i \in Hits(f) : TRUE]
        /\ pc' = [pc EXCEPT ![f] = "record"]
        /\ UNCHANGED <<world, sessions, todo, key, folder>>
     \/ /\ Cardinality(Hits(f)) > 1 \/ \E i \in Hits(f) : ~InCase(f, i)
        /\ Refuse(f)
  /\ UNCHANGED faults

Upload(f) ==
  /\ pc[f] = "upload"
  /\ Post(f, Revision(Doc(f), key[f], folder[f]))
  /\ file' = [file EXCEPT ![f] = Len(drive) + 1]
  /\ pc' = [pc EXCEPT ![f] = "record"]
  /\ UNCHANGED <<sessions, registered, records, todo, key, folder>>

\* _record, after _verify: the first row of a document stays.
Record(f) ==
  /\ pc[f] = "record" /\ f \notin lost
  /\ records' = IF Recorded(Doc(f)) THEN records
                ELSE Append(records, [doc |-> Doc(f), file |-> file[f]])
  /\ NextDoc(f)
  /\ UNCHANGED <<registered, drive, shown, excused, faults>>

\* Storage or Drive does not answer, or what Drive holds fails _verify.
Unavailable(f) ==
  /\ pc[f] = "key" \/ Working(f)
  /\ Fault
  /\ Refuse(f)

-----------------------------------------------------------------------------

Init ==
  /\ registered = <<>> /\ records = <<>>
  /\ drive = Archive /\ shown = DOMAIN Archive
  /\ holder = Nobody /\ lost = {}
  /\ pc = [f \in Filers |-> "idle"] /\ todo = [f \in Filers |-> <<>>]
  /\ key = [f \in Filers |-> "crm"]
  /\ folder = [f \in Filers |-> 0] /\ file = [f \in Filers |-> 0]
  /\ excused = {} /\ faults = 0

Step(f) == \/ List(f) \/ CaseKey(f) \/ BadDoc(f) \/ ResolveFolder(f)
           \/ CreateFolder(f) \/ FindFile(f) \/ Upload(f) \/ Record(f)
           \/ Dies(f)

Failure(f) == Crash(f) \/ SessionLost(f) \/ LostAnswer(f) \/ Unavailable(f)

Next == \/ OrphanEnds
        \/ \E d \in Docs : Register(d)
        \/ \E i \in DOMAIN drive : Show(i)
        \/ \E f \in Filers : TryLock(f) \/ Step(f) \/ Failure(f)

Spec == Init /\ [][Next]_vars

\* The capture cycle starts a run again and again, a run goes on, PostgreSQL
\* ends the session of a dead client.
FairSpec ==
  /\ Spec
  /\ WF_vars(OrphanEnds) /\ WF_vars(\E f \in Filers : TryLock(f))
  /\ \A f \in Filers : WF_vars(Step(f))

-----------------------------------------------------------------------------
(* What filing promises.                                                   *)

Ids == DOMAIN drive
Copies(d) == {i \in Ids : drive[i].kind = "revision" /\ drive[i].doc = d}
CaseFolders(c) == {i \in Ids : drive[i].kind = "case" /\ drive[i].case = c}

\* The type of every variable.
TypeOK ==
  /\ registered \in Seq(Docs)
  /\ records \in Seq([doc : Docs, file : Ids])
  /\ drive \in Seq(CaseItems \cup RevisionItems(Ids))
  /\ shown \subseteq Ids
  /\ holder \in Filers \cup {Nobody, Orphan} /\ lost \subseteq Filers
  /\ pc \in [Filers -> {"idle", "list", "key", "folder", "create", "file",
                          "upload", "record"}]
  /\ todo \in [Filers -> Seq(Docs)]
  /\ \A f \in Filers : pc[f] \notin {"idle", "list"} => todo[f] # <<>>
  /\ key \in [Filers -> Keys]
  /\ folder \in [Filers -> Ids \cup {0}] /\ file \in [Filers -> Ids \cup {0}]
  /\ excused \subseteq Cases
  /\ faults \in 0 .. MaxFaults

\* A document has one file and a case one folder, over crashes, retried runs
\* and refusals, unless Drive answered an error for what it did, its search
\* hid an item, or a session was lost in the middle.
CopiesAreExcused ==
  \A c \in Cases \ excused :
    /\ Cardinality(CaseFolders(c)) <= 1
    /\ \A d \in Docs : CaseOf[d] = c => Cardinality(Copies(d)) <= 1

\* A row names a file of its document, in a folder of its case that has the
\* file's key, and a document has one row: also when two runs file at once.
RecordsAreTrue ==
  /\ \A i \in DOMAIN records :
       LET d == records[i].doc
           item == drive[records[i].file]
       IN /\ item.kind = "revision" /\ item.doc = d
          /\ drive[item.folder] = CaseFolder(CaseOf[d], item.key)
  /\ \A i, j \in DOMAIN records : records[i].doc = records[j].doc => i = j

\* What can be filed is filed and recorded in the end, also when a run died
\* between the upload and the row.
RegisteredIsRecorded ==
  \A d \in Docs \ Bad :
    (\E i \in DOMAIN registered : registered[i] = d)
      ~> (Recorded(d) \/ CaseOf[d] \in excused)
=============================================================================
