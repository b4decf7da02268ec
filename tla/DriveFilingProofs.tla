--------------------------- MODULE DriveFilingProofs ---------------------------
(***************************************************************************)
(* The safety properties of DriveFiling, for every set of documents, cases *)
(* and filers.  The argument: a run that has its session is the only one   *)
(* at work, what search did not show it is not in Drive unless its case is *)
(* excused, and a run that works without a session has an excused case.    *)
(***************************************************************************)
EXTENDS DriveFiling, FiniteSetTheorems, SequenceTheorems, TLAPS

Items(ids) == CaseItems \cup RevisionItems(ids)

ItemCase(i) == IF drive[i].kind = "case" THEN drive[i].case
                                         ELSE CaseOf[drive[i].doc]

\* What a run has found or made is what it takes it for.
PlacesOf(f) ==
  /\ pc[f] \in {"file", "upload", "record"} =>
       folder[f] \in Ids /\ drive[folder[f]] = CaseFolder(Case(f), key[f])
  /\ pc[f] = "record" =>
       file[f] \in Ids /\ drive[file[f]] = Revision(Doc(f), key[f], folder[f])

\* A run with its session is the lock's holder; one that works without it has
\* an excused case.
AloneOf(f) ==
  /\ pc[f] # "idle" /\ f \notin lost => holder = f
  /\ Working(f) /\ f \in lost => Case(f) \in excused

\* What a run is about to make is not there yet.
BlankOf(f) ==
  /\ pc[f] = "create" => Case(f) \in excused \/ CaseFolders(Case(f)) = {}
  /\ pc[f] = "upload" => Case(f) \in excused \/ Copies(Doc(f)) = {}

RunInv(f) == PlacesOf(f) /\ AloneOf(f) /\ BlankOf(f)

Seen == \A i \in Ids : i \in shown \/ ItemCase(i) \in excused

\* One folder for a case, one file for a document.
SameThing(i, j) ==
  \/ /\ drive[i].kind = "case" /\ drive[j].kind = "case"
     /\ drive[i].case = drive[j].case
  \/ /\ drive[i].kind = "revision" /\ drive[j].kind = "revision"
     /\ drive[i].doc = drive[j].doc
Single ==
  \A i, j \in Ids : SameThing(i, j) => i = j \/ ItemCase(i) \in excused

IInv ==
  /\ TypeOK /\ RecordsAreTrue /\ Seen /\ Single
  /\ \A f \in Filers : RunInv(f)

\* What a step of f leaves as it is: what the other runs keep in hand.
Kept(f) ==
  \A g \in Filers \ {f} :
    /\ pc'[g] = pc[g] /\ todo'[g] = todo[g] /\ key'[g] = key[g]
    /\ folder'[g] = folder[g] /\ file'[g] = file[g]

\* What such a step may do to what all share.
Shared(f) ==
  /\ Ids \subseteq Ids' /\ \A i \in Ids : drive'[i] = drive[i]
  /\ \A i \in Ids' \ Ids : Working(f) /\ ItemCase(i)' = Case(f)
  /\ excused \subseteq excused'
  /\ \A g \in Filers \ {f} :
       /\ g \in lost' <=> g \in lost
       /\ holder = g => holder' = g

Leaves(f) == NextDoc(f) \/ \E h \in {Nobody, Orphan} : End(f, h)

-----------------------------------------------------------------------------

\* The run at work on a candidate has one, and it is a document of a case.
LEMMA Candidate ==
  ASSUME TypeOK, NEW f \in Filers, pc[f] \notin {"idle", "list"}
  PROVE  Doc(f) \in Docs /\ Case(f) \in Cases
<1>1. todo[f] \in Seq(Docs) /\ todo[f] # <<>>
  BY DEF TypeOK
<1>2. Doc(f) \in Docs
  BY <1>1 DEF Doc
<1>3. QED
  BY <1>2, CaseAssumption DEF Case

\* What an item of Drive is.
LEMMA ItemIs ==
  ASSUME TypeOK, NEW i \in Ids
  PROVE  /\ drive[i].key \in Keys
         /\ drive[i].kind \in {"case", "revision"}
         /\ drive[i].kind = "case" =>
              /\ drive[i].case \in Cases
              /\ drive[i] = CaseFolder(drive[i].case, drive[i].key)
         /\ drive[i].kind = "revision" =>
              /\ drive[i].doc \in Docs /\ drive[i].folder \in Ids
              /\ drive[i] = Revision(drive[i].doc, drive[i].key, drive[i].folder)
<1>1. drive[i] \in CaseItems \/ drive[i] \in RevisionItems(Ids)
  BY DEF TypeOK, Ids
<1>2. CASE drive[i] \in CaseItems
  BY <1>2 DEF CaseItems, CaseFolder
<1>3. CASE drive[i] \in RevisionItems(Ids)
  BY <1>3 DEF RevisionItems, Revision
<1>4. QED
  BY <1>1, <1>2, <1>3

\* Items of Drive stay items when Drive grows.
LEMMA Grown ==
  ASSUME TypeOK, NEW item \in Items(Ids), drive' = Append(drive, item)
  PROVE  /\ Ids' = Ids \cup {Len(drive) + 1} /\ Len(drive) + 1 \notin Ids
         /\ \A i \in Ids : drive'[i] = drive[i]
         /\ drive'[Len(drive) + 1] = item
         /\ drive' \in Seq(CaseItems \cup RevisionItems(Ids'))
<1>1. drive \in Seq(Items(Ids)) /\ Len(drive) \in Nat
  BY DEF TypeOK, Items
<1>2. /\ Ids = 1 .. Len(drive) /\ Ids' = 1 .. Len(drive) + 1
      /\ \A i \in Ids : drive'[i] = drive[i]
      /\ drive'[Len(drive) + 1] = item
  BY <1>1 DEF Ids
<1>3. Ids' = Ids \cup {Len(drive) + 1} /\ Len(drive) + 1 \notin Ids
  BY <1>1, <1>2
<1>4. RevisionItems(Ids) \subseteq RevisionItems(Ids')
  BY <1>3 DEF RevisionItems
<1>5. Items(Ids) \subseteq CaseItems \cup RevisionItems(Ids')
  BY <1>4 DEF Items
<1>6. \A i \in Ids' : drive'[i] \in CaseItems \cup RevisionItems(Ids')
  <2> SUFFICES ASSUME NEW i \in Ids'
               PROVE  drive'[i] \in Items(Ids)
    BY <1>5
  <2>1. CASE i \in Ids
    BY <2>1, <1>1, <1>2
  <2>2. CASE i = Len(drive) + 1
    BY <2>2, <1>2
  <2>3. QED
    BY <2>1, <2>2, <1>3
<1>7. drive' \in Seq(Items(Ids))
  BY <1>1
<1>8. drive' \in Seq(CaseItems \cup RevisionItems(Ids'))
  BY <1>7, <1>5
<1>9. QED
  BY <1>2, <1>3, <1>8

-----------------------------------------------------------------------------

\* A step of f keeps what the other runs rely on: an item of a case that is
\* not excused is made only by the lock's holder.
LEMMA OtherRuns ==
  ASSUME IInv, NEW f \in Filers, Kept(f), Shared(f),
         NEW g \in Filers, g # f
  PROVE  RunInv(g)'
<1>1. /\ pc'[g] = pc[g] /\ key'[g] = key[g] /\ folder'[g] = folder[g]
      /\ file'[g] = file[g] /\ Doc(g)' = Doc(g) /\ Case(g)' = Case(g)
  BY DEF Kept, Doc, Case
<1>2. PlacesOf(g) /\ AloneOf(g) /\ BlankOf(g)
  BY DEF IInv, RunInv
<1>3. PlacesOf(g)'
  BY <1>1, <1>2 DEF PlacesOf, Shared
<1>4. AloneOf(g)'
  <2>1. /\ g \in lost' <=> g \in lost
        /\ holder = g => holder' = g
        /\ excused \subseteq excused'
    BY DEF Shared
  <2>2. Working(g)' <=> Working(g)
    BY <1>1 DEF Working
  <2>3. QED
    BY <2>1, <2>2, <1>1, <1>2 DEF AloneOf
<1>5. Working(g) /\ Case(g) \notin excused =>
        \A i \in Ids' \ Ids : ItemCase(i)' # Case(g)
  <2> SUFFICES ASSUME Working(g), Case(g) \notin excused,
                      NEW i \in Ids' \ Ids, ItemCase(i)' = Case(g)
               PROVE  FALSE
    OBVIOUS
  <2>1. Working(f) /\ Case(f) = Case(g)
    BY DEF Shared
  <2>2. AloneOf(f)
    BY DEF IInv, RunInv
  <2>3. pc[f] # "idle" /\ pc[g] # "idle"
    BY <2>1 DEF Working
  <2>4. holder = f /\ holder = g
    BY <2>1, <2>2, <2>3, <1>2 DEF AloneOf
  <2>5. QED
    BY <2>4
<1>6. BlankOf(g)'
  <2>1. ASSUME pc[g] = "create", Case(g) \notin excused'
        PROVE  CaseFolders(Case(g))' = {}
    <3>1. Working(g) /\ Case(g) \notin excused /\ CaseFolders(Case(g)) = {}
      BY <2>1, <1>2 DEF BlankOf, Shared, Working
    <3>2. SUFFICES ASSUME NEW i \in Ids', drive'[i].kind = "case",
                          drive'[i].case = Case(g)
                   PROVE  FALSE
      BY <1>1 DEF CaseFolders
    <3>3. CASE i \in Ids
      BY <3>1, <3>2, <3>3 DEF Shared, CaseFolders
    <3>4. CASE i \notin Ids
      BY <3>1, <3>2, <3>4, <1>5 DEF ItemCase
    <3>5. QED
      BY <3>3, <3>4
  <2>2. ASSUME pc[g] = "upload", Case(g) \notin excused'
        PROVE  Copies(Doc(g))' = {}
    <3>1. Working(g) /\ Case(g) \notin excused /\ Copies(Doc(g)) = {}
      BY <2>2, <1>2 DEF BlankOf, Shared, Working
    <3>2. SUFFICES ASSUME NEW i \in Ids', drive'[i].kind = "revision",
                          drive'[i].doc = Doc(g)
                   PROVE  FALSE
      BY <1>1 DEF Copies
    <3>3. CASE i \in Ids
      BY <3>1, <3>2, <3>3 DEF Shared, Copies
    <3>4. CASE i \notin Ids
      BY <3>1, <3>2, <3>4, <1>5 DEF ItemCase, Case
    <3>5. QED
      BY <3>3, <3>4
  <2>3. QED
    BY <2>1, <2>2, <1>1 DEF BlankOf
<1>7. QED
  BY <1>3, <1>4, <1>6 DEF RunInv

\* So a step of f keeps the invariant when it keeps its own part and what is
\* said of Drive and the records.
LEMMA StepOf ==
  ASSUME IInv, NEW f \in Filers, Kept(f), Shared(f),
         TypeOK', RecordsAreTrue', Seen', Single', RunInv(f)'
  PROVE  IInv'
<1>1. \A g \in Filers : RunInv(g)'
  BY OtherRuns
<1>2. QED
  BY <1>1 DEF IInv

\* A step that leaves Drive alone keeps what is said of it.
LEMMA SameDrive ==
  ASSUME IInv, drive' = drive, shown \subseteq shown', excused \subseteq excused'
  PROVE  Seen' /\ Single' /\ (records' = records => RecordsAreTrue')
<1>1. Seen'
  BY DEF IInv, Seen, ItemCase, Ids
<1>2. Single'
  BY DEF IInv, Single, SameThing, ItemCase, Ids
<1>3. records' = records => RecordsAreTrue'
  BY DEF IInv, RecordsAreTrue
<1>4. QED
  BY <1>1, <1>2, <1>3
-----------------------------------------------------------------------------
(* The runs' ends.                                                         *)

Spots == {"idle", "list", "key", "folder", "create", "file", "upload", "record"}

\* A run that goes to its next candidate, or ends, holds on to nothing.
LEMMA Leaving ==
  ASSUME IInv, NEW f \in Filers, pc[f] # "idle", Leaves(f)
  PROVE  /\ Kept(f) /\ RunInv(f)'
         /\ pc' \in [Filers -> Spots] /\ todo' \in [Filers -> Seq(Docs)]
         /\ \A g \in Filers : pc'[g] \notin {"idle", "list"} => todo'[g] # <<>>
         /\ holder' \in Filers \cup {Nobody, Orphan} /\ lost' = lost
         /\ key' = key /\ folder' = folder /\ file' = file
         /\ \A g \in Filers \ {f} : holder = g => holder' = g
<1> USE DEF Spots
<1>1. TypeOK /\ AloneOf(f)
  BY DEF IInv, RunInv
<1>2. CASE NextDoc(f) /\ Len(todo[f]) > 1
  <2>1. /\ todo' = [todo EXCEPT ![f] = Tail(@)]
        /\ pc' = [pc EXCEPT ![f] = "key"]
        /\ UNCHANGED <<holder, lost, key, folder, file>>
    BY <1>2 DEF NextDoc, sessions
  <2>2. Tail(todo[f]) \in Seq(Docs) /\ Tail(todo[f]) # <<>>
    <3>1. todo[f] \in Seq(Docs)
      BY <1>1 DEF TypeOK
    <3>2. Tail(todo[f]) \in Seq(Docs) /\ Len(Tail(todo[f])) = Len(todo[f]) - 1
      BY <3>1, <1>2
    <3>3. Len(todo[f]) \in Nat /\ Len(todo[f]) > 1
      BY <3>1, <1>2
    <3>4. ASSUME NEW t, Len(t) = Len(todo[f]) - 1
          PROVE  t # <<>>
      <4> DEFINE n == Len(todo[f])
      <4>1. n - 1 # 0
        <5>1. n \in Nat /\ n > 1
          BY <3>3
        <5> HIDE DEF n
        <5>2. QED
          BY <5>1
      <4>2. Len(<<>>) = 0
        OBVIOUS
      <4>3. QED
        BY <4>1, <4>2, <3>4
    <3>5. QED
      BY <3>2, <3>4
  <2>3. pc'[f] = "key" /\ (f \notin lost' => holder' = f)
    BY <2>1, <1>1 DEF TypeOK, AloneOf
  <2>4. RunInv(f)'
    BY <2>3 DEF RunInv, PlacesOf, AloneOf, BlankOf, Working
  <2>5. Kept(f)
    BY <2>1, <1>1 DEF Kept, TypeOK
  <2>6. QED
    BY <2>1, <2>2, <2>4, <2>5, <1>1 DEF TypeOK
<1>3. CASE \/ NextDoc(f) /\ ~(Len(todo[f]) > 1)
           \/ \E h \in {Nobody, Orphan} : End(f, h)
  <2>1. PICK h \in {Nobody, Orphan} : End(f, h)
    BY <1>3 DEF NextDoc
  <2>2. /\ pc' = [pc EXCEPT ![f] = "idle"] /\ todo' = [todo EXCEPT ![f] = <<>>]
        /\ holder' = IF holder = f THEN h ELSE holder
        /\ UNCHANGED <<key, folder, file, lost>>
    BY <2>1 DEF End
  <2>3. pc'[f] = "idle"
    BY <2>2, <1>1 DEF TypeOK
  <2>4. RunInv(f)'
    BY <2>3 DEF RunInv, PlacesOf, AloneOf, BlankOf, Working
  <2>5. Kept(f)
    BY <2>2, <1>1 DEF Kept, TypeOK
  <2>6. <<>> \in Seq(Docs)
    OBVIOUS
  <2>7. QED
    BY <2>2, <2>4, <2>5, <2>6, <1>1 DEF TypeOK
<1>4. QED
  BY <1>2, <1>3 DEF Leaves

\* Such a step keeps the invariant when it leaves Drive alone.
LEMMA LeaveStep ==
  ASSUME IInv, NEW f \in Filers, pc[f] # "idle", Leaves(f),
         UNCHANGED <<registered, drive, shown, excused>>,
         records' \in Seq([doc : Docs, file : Ids]), RecordsAreTrue',
         faults' \in 0 .. MaxFaults
  PROVE  IInv'
<1>1. TypeOK'
  BY Leaving DEF IInv, TypeOK, Spots, Ids
<1>2. Shared(f)
  BY Leaving DEF Shared, Ids
<1>3. Seen' /\ Single'
  BY SameDrive
<1>4. QED
  BY <1>1, <1>2, <1>3, Leaving, StepOf

\* A candidate that is left with nothing recorded.
LEMMA RefuseStep ==
  ASSUME IInv, NEW f \in Filers, pc[f] # "idle", Leaves(f), UNCHANGED world,
         faults' \in 0 .. MaxFaults
  PROVE  IInv'
<1>1. UNCHANGED <<registered, drive, shown, excused>> /\ records' = records
  BY DEF world
<1>2. RecordsAreTrue' /\ records' \in Seq([doc : Docs, file : Ids])
  BY <1>1, SameDrive DEF IInv, TypeOK
<1>3. QED
  BY <1>1, <1>2, LeaveStep

\* One more fault.
LEMMA FaultType ==
  ASSUME TypeOK, faults' = faults \/ Fault
  PROVE  faults' \in 0 .. MaxFaults
BY LimitAssumption DEF TypeOK, Fault

\* A row says what its run found or made.
LEMMA RecordStep ==
  ASSUME IInv, NEW f \in Filers, Record(f)
  PROVE  IInv'
<1>1. /\ TypeOK /\ RecordsAreTrue /\ PlacesOf(f) /\ pc[f] = "record"
      /\ NextDoc(f) /\ UNCHANGED <<registered, drive, shown, excused, faults>>
  BY DEF IInv, RunInv, Record
<1>2. Doc(f) \in Docs /\ Case(f) \in Cases
  BY <1>1, Candidate
<1>3. /\ file[f] \in Ids /\ drive[file[f]] = Revision(Doc(f), key[f], folder[f])
      /\ folder[f] \in Ids
      /\ drive[folder[f]] = CaseFolder(CaseOf[Doc(f)], key[f])
  BY <1>1 DEF PlacesOf, Case
<1>4. CASE Recorded(Doc(f))
  <2>1. records' = records
    BY <1>4 DEF Record
  <2>2. QED
    BY <2>1, <1>1, RefuseStep, FaultType DEF world, Leaves
<1>5. CASE ~Recorded(Doc(f))
  <2> DEFINE row == [doc |-> Doc(f), file |-> file[f]]
  <2>1. records' = Append(records, row)
    BY <1>5 DEF Record
  <2>2. /\ records \in Seq([doc : Docs, file : Ids])
        /\ row \in [doc : Docs, file : Ids]
        /\ row.doc = Doc(f) /\ row.file = file[f]
    BY <1>1, <1>2, <1>3 DEF TypeOK
  <2> HIDE DEF row
  <2>3. /\ records' \in Seq([doc : Docs, file : Ids])
        /\ DOMAIN records' = DOMAIN records \cup {Len(records) + 1}
        /\ \A i \in DOMAIN records : records'[i] = records[i]
        /\ records'[Len(records) + 1] = row
        /\ Len(records) + 1 \notin DOMAIN records
    BY <2>1, <2>2
  <2>4. /\ drive[row.file].kind = "revision" /\ drive[row.file].doc = row.doc
        /\ drive[drive[row.file].folder]
             = CaseFolder(CaseOf[row.doc], drive[row.file].key)
    BY <2>2, <1>3 DEF Revision
  <2>5. \A i \in DOMAIN records : records[i].doc # row.doc
    BY <1>5, <2>2 DEF Recorded
  <2>6. RecordsAreTrue'
    BY <2>3, <2>4, <2>5, <1>1 DEF RecordsAreTrue
  <2>7. QED
    BY <2>3, <2>6, <1>1, LeaveStep, FaultType DEF Leaves
<1>6. QED
  BY <1>4, <1>5
-----------------------------------------------------------------------------
(* What a run makes in Drive.                                              *)

Made(f) == IF pc[f] = "create" THEN CaseFolder(Case(f), key[f])
                               ELSE Revision(Doc(f), key[f], folder[f])

LEMMA MadeIs ==
  ASSUME IInv, NEW f \in Filers, pc[f] \in {"create", "upload"}
  PROVE  /\ Made(f) \in Items(Ids) /\ Case(f) \in Cases /\ Doc(f) \in Docs
         /\ pc[f] = "create" =>
              /\ Made(f) = CaseFolder(Case(f), key[f])
              /\ Made(f).kind = "case" /\ Made(f).case = Case(f)
         /\ pc[f] = "upload" =>
              /\ Made(f) = Revision(Doc(f), key[f], folder[f])
              /\ Made(f).kind = "revision" /\ Made(f).doc = Doc(f)
              /\ folder[f] \in Ids
              /\ drive[folder[f]] = CaseFolder(Case(f), key[f])
<1>1. TypeOK /\ PlacesOf(f) /\ Doc(f) \in Docs /\ Case(f) \in Cases
  BY Candidate DEF IInv, RunInv
<1>2. key[f] \in Keys
  BY <1>1 DEF TypeOK
<1>3. CASE pc[f] = "create"
  BY <1>1, <1>2, <1>3 DEF Made, CaseFolder, Items, CaseItems
<1>4. CASE pc[f] = "upload"
  <2>1. folder[f] \in Ids /\ drive[folder[f]] = CaseFolder(Case(f), key[f])
    BY <1>1, <1>4 DEF PlacesOf
  <2>2. QED
    BY <2>1, <1>1, <1>2, <1>4 DEF Made, Revision, Items, RevisionItems
<1>5. QED
  BY <1>3, <1>4

LEMMA SeqWidens ==
  ASSUME NEW S, NEW T, S \subseteq T, NEW s \in Seq(S)
  PROVE  s \in Seq(T)
OBVIOUS

\* A new item is seen or its case is excused, and it is the only one of its
\* case or document.
LEMMA Posted ==
  ASSUME IInv, NEW f \in Filers, pc[f] \in {"create", "upload"},
         NEW n, n = Len(drive) + 1,
         drive' = Append(drive, Made(f)), records' = records,
         excused' \in {excused, excused \cup {Case(f)}},
         shown' = shown \cup {n}
           \/ (shown' = shown /\ Case(f) \in excused')
  PROVE  /\ Ids' = Ids \cup {n} /\ n \notin Ids
         /\ \A i \in Ids : drive'[i] = drive[i]
         /\ drive'[n] = Made(f)
         /\ drive' \in Seq(CaseItems \cup RevisionItems(Ids'))
         /\ records' \in Seq([doc : Docs, file : Ids'])
         /\ shown' \subseteq Ids' /\ excused' \subseteq Cases
         /\ ItemCase(n)' = Case(f)
         /\ Seen' /\ Single' /\ RecordsAreTrue'
<1>1. TypeOK /\ Seen /\ Single /\ RecordsAreTrue /\ BlankOf(f)
  BY DEF IInv, RunInv
<1>2. /\ Ids' = Ids \cup {n} /\ n \notin Ids
      /\ \A i \in Ids : drive'[i] = drive[i]
      /\ drive'[n] = Made(f)
      /\ drive' \in Seq(CaseItems \cup RevisionItems(Ids'))
  BY <1>1, Grown, MadeIs
<1>3. /\ Case(f) \in Cases /\ Doc(f) \in Docs
      /\ pc[f] = "create" => Made(f).kind = "case" /\ Made(f).case = Case(f)
      /\ pc[f] = "upload" => Made(f).kind = "revision" /\ Made(f).doc = Doc(f)
  BY MadeIs
<1>4. ItemCase(n)' = Case(f)
  BY <1>2, <1>3 DEF ItemCase, Case
<1>5. \A i \in Ids : ItemCase(i)' = ItemCase(i)
  BY <1>2 DEF ItemCase
<1>6. Seen'
  BY <1>1, <1>2, <1>4, <1>5 DEF Seen
<1>7. \A i \in Ids : SameThing(i, n)' \/ SameThing(n, i)' => Case(f) \in excused
  <2> SUFFICES ASSUME NEW i \in Ids, SameThing(i, n)' \/ SameThing(n, i)',
                      Case(f) \notin excused
               PROVE  FALSE
    OBVIOUS
  <2>1. drive'[i] = drive[i] /\ drive'[n] = Made(f)
    BY <1>2
  <2>2. CASE pc[f] = "create"
    <3>1. drive[i].kind = "case" /\ drive[i].case = Case(f)
      BY <2>1, <2>2, <1>3 DEF SameThing
    <3>2. QED
      BY <3>1, <2>2, <1>1 DEF BlankOf, CaseFolders
  <2>3. CASE pc[f] = "upload"
    <3>1. drive[i].kind = "revision" /\ drive[i].doc = Doc(f)
      BY <2>1, <2>3, <1>3 DEF SameThing
    <3>2. QED
      BY <3>1, <2>3, <1>1 DEF BlankOf, Copies
  <2>4. QED
    BY <2>2, <2>3
<1>8. \A i \in Ids : SameThing(i, n)' \/ SameThing(n, i)' =>
        ItemCase(i)' = ItemCase(n)'
  BY DEF SameThing, ItemCase
<1>9. Single'
  <2> SUFFICES ASSUME NEW i \in Ids', NEW j \in Ids', SameThing(i, j)', i # j
               PROVE  ItemCase(i)' \in excused'
    BY DEF Single
  <2>1. CASE i \in Ids /\ j \in Ids
    <3>1. SameThing(i, j)
      BY <2>1, <1>2 DEF SameThing
    <3>2. QED
      BY <3>1, <2>1, <1>1, <1>5 DEF Single
  <2>2. CASE i \in Ids /\ j = n
    BY <2>2, <1>4, <1>7, <1>8
  <2>3. CASE i = n /\ j \in Ids
    BY <2>3, <1>4, <1>7, <1>8
  <2>4. QED
    BY <2>1, <2>2, <2>3, <1>2
<1>10. \A i \in DOMAIN records : records[i].file \in Ids
  <2>1. records \in Seq([doc : Docs, file : Ids])
    BY <1>1 DEF TypeOK
  <2>2. \A i \in DOMAIN records : records[i] \in [doc : Docs, file : Ids]
    <3> DEFINE R == [doc : Docs, file : Ids]
    <3>1. records \in Seq(R)
      BY <2>1
    <3> HIDE DEF R
    <3>2. \A i \in DOMAIN records : records[i] \in R
      BY <3>1
    <3>3. QED
      BY <3>2 DEF R
  <2>3. QED
    BY <2>2
<1>11. RecordsAreTrue'
  <2> SUFFICES ASSUME NEW i \in DOMAIN records
               PROVE  LET d == records[i].doc
                          item == drive'[records[i].file]
                      IN /\ item.kind = "revision" /\ item.doc = d
                         /\ drive'[item.folder] = CaseFolder(CaseOf[d], item.key)
    BY <1>1 DEF RecordsAreTrue
  <2>1. /\ records[i].file \in Ids
        /\ drive'[records[i].file] = drive[records[i].file]
    BY <1>2, <1>10
  <2>2. drive[records[i].file].kind = "revision"
    BY <1>1 DEF RecordsAreTrue
  <2>3. drive[records[i].file].folder \in Ids
    BY <2>1, <2>2, <1>1, ItemIs
  <2>4. drive'[drive[records[i].file].folder]
          = drive[drive[records[i].file].folder]
    BY <2>3, <1>2
  <2>5. QED
    BY <2>1, <2>4, <1>1 DEF RecordsAreTrue
<1>12. records' \in Seq([doc : Docs, file : Ids'])
  <2>1. [doc : Docs, file : Ids] \subseteq [doc : Docs, file : Ids']
    BY <1>2
  <2>2. records \in Seq([doc : Docs, file : Ids])
    BY <1>1 DEF TypeOK
  <2>3. QED
    BY <2>1, <2>2, SeqWidens
<1>13. shown' \subseteq Ids' /\ excused' \subseteq Cases
  BY <1>1, <1>2, <1>3 DEF TypeOK
<1>14. QED
  BY <1>2, <1>4, <1>6, <1>9, <1>11, <1>12, <1>13

\* A run that made an item goes on with it, or loses the answer.
LEMMA PostStep ==
  ASSUME IInv, NEW f \in Filers, CreateFolder(f) \/ Upload(f)
  PROVE  IInv'
<1> PICK n : n = Len(drive) + 1
  OBVIOUS
<1>1. /\ TypeOK /\ RunInv(f) /\ pc[f] \in {"create", "upload"}
      /\ Post(f, Made(f))
      /\ UNCHANGED <<holder, lost, registered, records, todo, key>>
      /\ pc[f] = "create" =>
           /\ folder' = [folder EXCEPT ![f] = n] /\ file' = file
           /\ pc' = [pc EXCEPT ![f] = "file"]
      /\ pc[f] = "upload" =>
           /\ file' = [file EXCEPT ![f] = n] /\ folder' = folder
           /\ pc' = [pc EXCEPT ![f] = "record"]
  BY DEF IInv, CreateFolder, Upload, Made, sessions
<1>2. /\ drive' = Append(drive, Made(f)) /\ records' = records
      /\ excused' \in {excused, excused \cup {Case(f)}}
      /\ shown' = shown \cup {n} \/ (shown' = shown /\ Case(f) \in excused')
      /\ faults' = faults \/ Fault
  BY <1>1 DEF Post
<1>3. /\ Ids' = Ids \cup {n} /\ n \notin Ids
      /\ \A i \in Ids : drive'[i] = drive[i]
      /\ drive'[n] = Made(f)
      /\ drive' \in Seq(CaseItems \cup RevisionItems(Ids'))
      /\ records' \in Seq([doc : Docs, file : Ids'])
      /\ shown' \subseteq Ids' /\ excused' \subseteq Cases
      /\ ItemCase(n)' = Case(f)
      /\ Seen' /\ Single' /\ RecordsAreTrue'
  BY <1>1, <1>2, Posted
<1>4. TypeOK'
  <2>1. faults' \in 0 .. MaxFaults
    BY <1>1, <1>2, FaultType
  <2>2. /\ pc' \in [Filers -> Spots] /\ todo[f] # <<>>
        /\ \A g \in Filers : g = f \/ pc'[g] = pc[g]
    BY <1>1 DEF TypeOK, Spots
  <2>3. /\ folder' \in [Filers -> Ids' \cup {0}]
        /\ file' \in [Filers -> Ids' \cup {0}]
    <3>1. /\ folder \in [Filers -> Ids' \cup {0}]
          /\ file \in [Filers -> Ids' \cup {0}]
      BY <1>1, <1>3 DEF TypeOK
    <3>2. n \in Ids'
      BY <1>3
    <3>3. CASE pc[f] = "create"
      BY <3>1, <3>2, <3>3, <1>1
    <3>4. CASE pc[f] = "upload"
      BY <3>1, <3>2, <3>4, <1>1
    <3>5. QED
      BY <3>3, <3>4, <1>1
  <2>4. QED
    BY <2>1, <2>2, <2>3, <1>1, <1>3 DEF TypeOK, Spots
<1>5. Kept(f) /\ Doc(f)' = Doc(f) /\ Case(f)' = Case(f)
  BY <1>1 DEF Kept, TypeOK, Doc, Case
<1>6. Shared(f)
  BY <1>1, <1>2, <1>3 DEF Shared, Working
<1>7. RunInv(f)'
  <2>1. PlacesOf(f)'
    <3>1. CASE pc[f] = "create"
      <4>1. folder'[f] = n /\ pc'[f] = "file"
        BY <1>1, <3>1 DEF TypeOK
      <4>2. drive'[n] = CaseFolder(Case(f), key[f])
        BY <1>1, <1>3, <3>1, MadeIs
      <4>3. QED
        BY <4>1, <4>2, <1>1, <1>3, <1>5 DEF PlacesOf
    <3>2. CASE pc[f] = "upload"
      <4>1. file'[f] = n /\ pc'[f] = "record" /\ folder'[f] = folder[f]
        BY <1>1, <3>2 DEF TypeOK
      <4>2. /\ drive'[n] = Revision(Doc(f), key[f], folder[f])
            /\ folder[f] \in Ids
            /\ drive[folder[f]] = CaseFolder(Case(f), key[f])
        BY <1>1, <1>3, <3>2, MadeIs
      <4>3. QED
        BY <4>1, <4>2, <1>1, <1>3, <1>5 DEF PlacesOf
    <3>3. QED
      BY <3>1, <3>2, <1>1
  <2>2. pc'[f] \in {"file", "record"}
    BY <1>1 DEF TypeOK
  <2>3. AloneOf(f)'
    BY <2>2, <1>1, <1>2, <1>5 DEF RunInv, AloneOf, Working
  <2>4. QED
    BY <2>1, <2>2, <2>3 DEF RunInv, BlankOf
<1>8. QED
  BY <1>3, <1>4, <1>5, <1>6, <1>7, StepOf
\* Drive carried a POST out and its answer was lost: the client sends it
\* again, or the run goes on with the next candidate.
LEMMA LostAnswerStep ==
  ASSUME IInv, NEW f \in Filers, LostAnswer(f)
  PROVE  IInv'
<1> PICK n : n = Len(drive) + 1
  OBVIOUS
<1>1. /\ TypeOK /\ RunInv(f) /\ pc[f] \in {"create", "upload"} /\ Fault
      /\ drive' = Append(drive, Made(f)) /\ shown' = shown \cup {n}
      /\ UNCHANGED <<registered, records>>
  BY DEF IInv, LostAnswer, Made
<1>2. \/ /\ excused' = excused \cup {Case(f)}
         /\ UNCHANGED <<holder, lost, pc, todo, key, folder, file>>
      \/ NextDoc(f) /\ excused' = excused
  BY DEF LostAnswer, sessions, run
<1>3. excused' \in {excused, excused \cup {Case(f)}}
  BY <1>2
<1>4. /\ Ids' = Ids \cup {n} /\ n \notin Ids
      /\ \A i \in Ids : drive'[i] = drive[i]
      /\ drive' \in Seq(CaseItems \cup RevisionItems(Ids'))
      /\ records' \in Seq([doc : Docs, file : Ids'])
      /\ shown' \subseteq Ids' /\ excused' \subseteq Cases
      /\ ItemCase(n)' = Case(f)
      /\ Seen' /\ Single' /\ RecordsAreTrue'
  BY <1>1, <1>3, Posted
<1>5. /\ folder \in [Filers -> Ids' \cup {0}]
      /\ file \in [Filers -> Ids' \cup {0}]
  BY <1>1, <1>4 DEF TypeOK
<1>6. faults' \in 0 .. MaxFaults
  BY <1>1, FaultType
<1>7. CASE NextDoc(f) /\ excused' = excused
  <2>1. Leaves(f) /\ pc[f] # "idle"
    BY <1>1, <1>7 DEF Leaves
  <2>2. /\ Kept(f) /\ RunInv(f)'
        /\ pc' \in [Filers -> Spots] /\ todo' \in [Filers -> Seq(Docs)]
        /\ \A g \in Filers : pc'[g] \notin {"idle", "list"} => todo'[g] # <<>>
        /\ holder' \in Filers \cup {Nobody, Orphan} /\ lost' = lost
        /\ key' = key /\ folder' = folder /\ file' = file
        /\ \A g \in Filers \ {f} : holder = g => holder' = g
    BY <2>1, Leaving
  <2>3. TypeOK'
    BY <1>1, <1>4, <1>5, <1>6, <2>2 DEF TypeOK, Spots
  <2>4. Shared(f)
    BY <1>1, <1>4, <1>7, <2>2 DEF Shared, Working
  <2>5. QED
    BY <1>4, <2>2, <2>3, <2>4, StepOf
<1>8. CASE /\ excused' = excused \cup {Case(f)}
           /\ UNCHANGED <<holder, lost, pc, todo, key, folder, file>>
  <2>1. TypeOK'
    BY <1>1, <1>4, <1>5, <1>6, <1>8 DEF TypeOK
  <2>2. Kept(f) /\ Case(f)' = Case(f) /\ Doc(f)' = Doc(f)
    BY <1>8 DEF Kept, Case, Doc
  <2>3. Shared(f)
    BY <1>1, <1>4, <1>8 DEF Shared, Working
  <2>4. PlacesOf(f)'
    BY <1>1, <1>4, <1>8, <2>2 DEF RunInv, PlacesOf
  <2>5. AloneOf(f)'
    BY <1>1, <1>8, <2>2 DEF RunInv, AloneOf, Working
  <2>6. BlankOf(f)'
    BY <1>8, <2>2 DEF BlankOf
  <2>7. QED
    BY <1>4, <2>1, <2>2, <2>3, <2>4, <2>5, <2>6, StepOf DEF RunInv
<1>9. QED
  BY <1>2, <1>7, <1>8

-----------------------------------------------------------------------------
(* The steps that leave Drive alone.                                       *)

\* A step of f that goes on with what it has in hand.
LEMMA OwnStep ==
  ASSUME IInv, NEW f \in Filers, NEW spot \in Spots,
         UNCHANGED <<registered, records, drive, shown, excused, faults>>,
         pc' = [pc EXCEPT ![f] = spot],
         todo' \in [Filers -> Seq(Docs)], spot # "list" => todo'[f] # <<>>,
         holder' \in Filers \cup {Nobody, Orphan}, lost' \subseteq Filers,
         key' \in [Filers -> Keys], folder' \in [Filers -> Ids \cup {0}],
         file' \in [Filers -> Ids \cup {0}],
         \A g \in Filers \ {f} :
           /\ todo'[g] = todo[g] /\ key'[g] = key[g]
           /\ folder'[g] = folder[g] /\ file'[g] = file[g]
           /\ g \in lost' <=> g \in lost
           /\ holder = g => holder' = g,
         RunInv(f)'
  PROVE  IInv'
<1>1. TypeOK
  BY DEF IInv
<1>2. Kept(f)
  BY <1>1 DEF Kept, TypeOK
<1>3. TypeOK'
  <2>1. pc' \in [Filers -> Spots]
    BY <1>1 DEF TypeOK, Spots
  <2>2. \A g \in Filers : pc'[g] \notin {"idle", "list"} => todo'[g] # <<>>
    BY <1>1, <1>2 DEF TypeOK, Kept
  <2>3. QED
    BY <1>1, <2>1, <2>2 DEF TypeOK, Spots, Ids
<1>4. Shared(f)
  BY DEF Shared, Ids
<1>5. Seen' /\ Single' /\ RecordsAreTrue'
  BY SameDrive
<1>6. QED
  BY <1>2, <1>3, <1>4, <1>5, StepOf

LEMMA TryLockStep ==
  ASSUME IInv, NEW f \in Filers, TryLock(f)
  PROVE  IInv'
<1>1. /\ TypeOK /\ pc[f] = "idle" /\ holder = Nobody /\ holder' = f
      /\ lost' = lost \ {f} /\ pc' = [pc EXCEPT ![f] = "list"]
      /\ UNCHANGED <<registered, records, drive, shown, excused, faults>>
      /\ UNCHANGED <<todo, key, folder, file>>
  BY DEF IInv, TryLock, world
<1>2. Nobody \notin Filers
  BY FilerAssumption
<1>3. pc'[f] = "list"
  BY <1>1 DEF TypeOK
<1>4. RunInv(f)'
  BY <1>1, <1>3 DEF RunInv, PlacesOf, AloneOf, BlankOf, Working
<1>5. "list" \in Spots
  BY DEF Spots
<1>6. QED
  BY <1>1, <1>2, <1>4, <1>5, OwnStep DEF TypeOK

\* The candidates are documents, and there is one if a row is missing.
LEMMA CandidatesAre ==
  ASSUME TypeOK, Open # {}, NEW s \in Candidates
  PROVE  /\ [i \in 1 .. Room |-> registered[s[i]]] \in Seq(Docs)
         /\ [i \in 1 .. Room |-> registered[s[i]]] # <<>>
<1>1. /\ registered \in Seq(Docs) /\ Len(registered) \in Nat
      /\ Open \subseteq 1 .. Len(registered)
      /\ \A p \in 1 .. Len(registered) : registered[p] \in Docs
  BY DEF TypeOK, Open
<1>2. IsFiniteSet(Open)
  <2>1. IsFiniteSet(1 .. Len(registered))
    BY <1>1, FS_Interval
  <2>2. QED
    BY <1>1, <2>1, FS_Subset
<1>3. Cardinality(Open) \in Nat /\ Cardinality(Open) # 0
  BY <1>2, FS_CardinalityType, FS_EmptySet
<1>4. Room \in Nat \ {0}
  BY <1>3, LimitAssumption DEF Room
<1>5. s \in [1 .. Room -> Open]
  BY DEF Candidates
<1> DEFINE t == [i \in 1 .. Room |-> registered[s[i]]]
<1>6. \A i \in 1 .. Room : registered[s[i]] \in Docs
  BY <1>1, <1>5
<1>7. t \in Seq(Docs) /\ Len(t) = Room
  BY <1>4, <1>6
<1> HIDE DEF t
<1>8. t # <<>>
  <2>1. Len(<<>>) = 0
    OBVIOUS
  <2>2. QED
    BY <2>1, <1>4, <1>7
<1>9. QED
  BY <1>7, <1>8 DEF t

LEMMA ListStep ==
  ASSUME IInv, NEW f \in Filers, List(f)
  PROVE  IInv'
<1>1. /\ TypeOK /\ AloneOf(f) /\ pc[f] = "list" /\ f \notin lost
      /\ UNCHANGED <<registered, records, drive, shown, excused, faults>>
      /\ UNCHANGED world
  BY DEF IInv, RunInv, List, world
<1>2. CASE End(f, Nobody)
  <2>1. faults' \in 0 .. MaxFaults
    BY <1>1, FaultType
  <2>2. QED
    BY <1>1, <1>2, <2>1, RefuseStep DEF Leaves
<1>3. CASE /\ Open # {}
           /\ \E s \in Candidates :
                todo' = [todo EXCEPT ![f] = [i \in 1 .. Room |-> registered[s[i]]]]
           /\ pc' = [pc EXCEPT ![f] = "key"]
           /\ UNCHANGED <<sessions, key, folder, file>>
  <2>1. PICK s \in Candidates :
          todo' = [todo EXCEPT ![f] = [i \in 1 .. Room |-> registered[s[i]]]]
    BY <1>3
  <2>2. /\ [i \in 1 .. Room |-> registered[s[i]]] \in Seq(Docs)
        /\ [i \in 1 .. Room |-> registered[s[i]]] # <<>>
    BY <1>1, <1>3, CandidatesAre
  <2>3. todo' \in [Filers -> Seq(Docs)] /\ todo'[f] # <<>>
    BY <2>1, <2>2, <1>1 DEF TypeOK
  <2>4. \A g \in Filers \ {f} : todo'[g] = todo[g]
    BY <2>1, <1>1 DEF TypeOK
  <2>5. pc'[f] = "key" /\ UNCHANGED <<holder, lost, key, folder, file>>
    BY <1>1, <1>3 DEF TypeOK, sessions
  <2>6. RunInv(f)'
    BY <2>5, <1>1 DEF RunInv, PlacesOf, AloneOf, BlankOf, Working
  <2>7. "key" \in Spots
    BY DEF Spots
  <2>8. QED
    BY <1>1, <1>3, <2>3, <2>4, <2>5, <2>6, <2>7, OwnStep DEF TypeOK
<1>4. QED
  BY <1>2, <1>3 DEF List

LEMMA SessionLostStep ==
  ASSUME IInv, NEW f \in Filers, SessionLost(f)
  PROVE  IInv'
<1>1. /\ TypeOK /\ RunInv(f) /\ Fault /\ f \notin lost
      /\ lost' = lost \cup {f}
      /\ holder' = IF holder = f THEN Nobody ELSE holder
      /\ excused' = IF Working(f) THEN excused \cup {Case(f)} ELSE excused
      /\ UNCHANGED <<registered, records, drive, shown, pc, todo, key, folder,
                     file>>
  BY DEF IInv, SessionLost, run
<1>2. Kept(f) /\ Case(f)' = Case(f) /\ Doc(f)' = Doc(f)
  BY <1>1 DEF Kept, Case, Doc
<1>3. Working(f) => Case(f) \in Cases
  BY <1>1, Candidate DEF Working
<1>4. TypeOK'
  <2>1. faults' \in 0 .. MaxFaults
    BY <1>1, FaultType
  <2>2. excused' \subseteq Cases
    BY <1>1, <1>3 DEF TypeOK
  <2>3. QED
    BY <1>1, <2>1, <2>2 DEF TypeOK, Ids
<1>5. Shared(f)
  BY <1>1 DEF Shared, Ids
<1>6. excused \subseteq excused'
  BY <1>1
<1>7. Seen' /\ Single' /\ RecordsAreTrue'
  BY <1>1, <1>6, SameDrive
<1>8. RunInv(f)'
  <2>1. PlacesOf(f)'
    BY <1>1, <1>2 DEF RunInv, PlacesOf, Ids
  <2>2. AloneOf(f)'
    BY <1>1, <1>2 DEF AloneOf, Working
  <2>3. BlankOf(f)'
    BY <1>1, <1>2, <1>6 DEF RunInv, BlankOf, Copies, CaseFolders, Ids
  <2>4. QED
    BY <2>1, <2>2, <2>3 DEF RunInv
<1>9. QED
  BY <1>2, <1>4, <1>5, <1>7, <1>8, StepOf

\* Whatever gives the case its key, it is a key.
LEMMA CaseKeysAre ==
  ASSUME IInv, NEW d \in Docs
  PROVE  CaseKeys(d) \subseteq Keys
<1>1. \A i \in Ids : drive[i].key \in Keys
  BY ItemIs DEF IInv
<1>2. \A i \in DOMAIN records : records[i].file \in Ids
  <2> DEFINE R == [doc : Docs, file : Ids]
  <2>1. records \in Seq(R)
    BY DEF IInv, TypeOK
  <2> HIDE DEF R
  <2>2. \A i \in DOMAIN records : records[i] \in R
    BY <2>1
  <2>3. QED
    BY <2>2 DEF R
<1>3. shown \subseteq Ids
  BY DEF IInv, TypeOK
<1>4. Siblings(d) \subseteq Ids /\ NamesFound(CaseOf[d]) \subseteq Ids
  BY <1>3 DEF Siblings, CopiesFound, NamesFound
<1>5. FirstRecord(CaseOf[d]) \subseteq DOMAIN records
  BY DEF FirstRecord
<1>6. "crm" \in Keys
  BY DEF Keys
<1>7. QED
  BY <1>1, <1>2, <1>4, <1>5, <1>6 DEF CaseKeys

LEMMA CaseKeyStep ==
  ASSUME IInv, NEW f \in Filers, CaseKey(f)
  PROVE  IInv'
<1>1. /\ TypeOK /\ AloneOf(f) /\ pc[f] = "key" /\ f \notin lost
      /\ pc' = [pc EXCEPT ![f] = "folder"]
      /\ UNCHANGED <<registered, records, drive, shown, excused, faults>>
      /\ UNCHANGED <<holder, lost, todo, folder, file>>
  BY DEF IInv, RunInv, CaseKey, world, sessions
<1>2. Doc(f) \in Docs
  BY <1>1, Candidate
<1>3. PICK k \in CaseKeys(Doc(f)) : key' = [key EXCEPT ![f] = k]
  BY DEF CaseKey
<1>4. k \in Keys
  BY <1>2, <1>3, CaseKeysAre
<1>5. key' \in [Filers -> Keys] /\ \A g \in Filers \ {f} : key'[g] = key[g]
  BY <1>1, <1>3, <1>4 DEF TypeOK
<1>6. pc'[f] = "folder"
  BY <1>1 DEF TypeOK
<1>7. RunInv(f)'
  BY <1>1, <1>6 DEF RunInv, PlacesOf, AloneOf, BlankOf, Working
<1>8. "folder" \in Spots /\ todo[f] # <<>>
  BY <1>1 DEF Spots, TypeOK
<1>9. QED
  BY <1>1, <1>5, <1>7, <1>8, OwnStep DEF TypeOK

\* What a search does not show of a case that is not excused is not there.
LEMMA SearchIsRight ==
  ASSUME IInv
  PROVE  /\ \A c : c \notin excused /\ NamesFound(c) = {} => CaseFolders(c) = {}
         /\ \A d : CaseOf[d] \notin excused /\ CopiesFound(d) = {}
                     => Copies(d) = {}
<1>1. Seen
  BY DEF IInv
<1>2. QED
  BY <1>1 DEF Seen, ItemCase, NamesFound, CaseFolders, CopiesFound, Copies

LEMMA ResolveFolderStep ==
  ASSUME IInv, NEW f \in Filers, ResolveFolder(f)
  PROVE  IInv'
<1> DEFINE hits == FoldersFound(Case(f), key[f])
<1>1. TypeOK /\ RunInv(f) /\ pc[f] = "folder" /\ faults' = faults
  BY DEF IInv, ResolveFolder
<1>2. todo[f] # <<>> /\ Case(f) \in Cases
  BY <1>1, Candidate DEF TypeOK
<1>3. AloneOf(f) /\ Working(f)
  BY <1>1 DEF RunInv, Working
<1>4. CASE /\ Cardinality(hits) = 1
           /\ folder' = [folder EXCEPT ![f] = CHOOSE i \in hits : TRUE]
           /\ pc' = [pc EXCEPT ![f] = "file"]
           /\ UNCHANGED <<world, sessions, todo, key, file>>
  <2>1. hits # {}
    BY <1>4, FS_EmptySet
  <2>2. PICK i : i \in hits /\ folder' = [folder EXCEPT ![f] = i]
    BY <2>1, <1>4
  <2>3. i \in Ids /\ drive[i] = CaseFolder(Case(f), key[f])
    BY <2>2, <1>1, ItemIs DEF FoldersFound, NamesFound, TypeOK
  <2>4. /\ UNCHANGED <<registered, records, drive, shown, excused, faults>>
        /\ UNCHANGED <<holder, lost, todo, key, file>>
        /\ Case(f)' = Case(f) /\ pc'[f] = "file" /\ folder'[f] = i
        /\ pc' = [pc EXCEPT ![f] = "file"]
    BY <1>1, <1>4, <2>2 DEF world, sessions, Case, Doc, TypeOK
  <2>5. RunInv(f)'
    BY <2>3, <2>4, <1>1, <1>3 DEF RunInv, PlacesOf, AloneOf, BlankOf, Working, Ids
  <2>6. /\ folder' \in [Filers -> Ids \cup {0}]
        /\ \A g \in Filers \ {f} : folder'[g] = folder[g]
    BY <2>2, <2>3, <1>1 DEF TypeOK
  <2>7. "file" \in Spots
    BY DEF Spots
  <2>8. QED
    BY <2>4, <2>5, <2>6, <2>7, <1>1, <1>2, OwnStep DEF TypeOK
<1>5. CASE /\ hits = {} /\ NamesFound(Case(f)) = {}
           /\ pc' = [pc EXCEPT ![f] = "create"]
           /\ UNCHANGED <<world, sessions, todo, key, folder, file>>
  <2>1. /\ UNCHANGED <<registered, records, drive, shown, excused, faults>>
        /\ UNCHANGED <<holder, lost, todo, key, folder, file>>
        /\ Case(f)' = Case(f) /\ pc'[f] = "create"
        /\ pc' = [pc EXCEPT ![f] = "create"]
    BY <1>1, <1>5 DEF world, sessions, Case, Doc, TypeOK
  <2>2. Case(f) \in excused \/ CaseFolders(Case(f)) = {}
    BY <1>5, SearchIsRight
  <2>3. CaseFolders(Case(f))' = CaseFolders(Case(f))
    BY <2>1 DEF CaseFolders, Ids
  <2>4. RunInv(f)'
    BY <2>1, <2>2, <2>3, <1>3 DEF RunInv, PlacesOf, AloneOf, BlankOf, Working
  <2>5. "create" \in Spots
    BY DEF Spots
  <2>6. QED
    BY <2>1, <2>4, <2>5, <1>1, <1>2, OwnStep DEF TypeOK
<1>6. CASE Refuse(f)
  BY <1>1, <1>6, RefuseStep, FaultType DEF Refuse, Leaves
<1>7. QED
  BY <1>4, <1>5, <1>6 DEF ResolveFolder

LEMMA FindFileStep ==
  ASSUME IInv, NEW f \in Filers, FindFile(f)
  PROVE  IInv'
<1>1. TypeOK /\ RunInv(f) /\ pc[f] = "file" /\ faults' = faults
  BY DEF IInv, FindFile
<1>2. todo[f] # <<>> /\ Doc(f) \in Docs
  BY <1>1, Candidate DEF TypeOK
<1>3. /\ AloneOf(f) /\ Working(f)
      /\ folder[f] \in Ids /\ drive[folder[f]] = CaseFolder(Case(f), key[f])
  BY <1>1 DEF RunInv, PlacesOf, Working
<1>4. CASE /\ Hits(f) = {}
           /\ pc' = [pc EXCEPT ![f] = "upload"]
           /\ UNCHANGED <<world, sessions, todo, key, folder, file>>
  <2>1. /\ UNCHANGED <<registered, records, drive, shown, excused, faults>>
        /\ UNCHANGED <<holder, lost, todo, key, folder, file>>
        /\ Case(f)' = Case(f) /\ Doc(f)' = Doc(f) /\ pc'[f] = "upload"
        /\ pc' = [pc EXCEPT ![f] = "upload"]
    BY <1>1, <1>4 DEF world, sessions, Case, Doc, TypeOK
  <2>2. Case(f) \in excused \/ Copies(Doc(f)) = {}
    BY <1>4, SearchIsRight DEF Hits, Case
  <2>3. Copies(Doc(f))' = Copies(Doc(f))
    BY <2>1 DEF Copies, Ids
  <2>4. RunInv(f)'
    BY <2>1, <2>2, <2>3, <1>3
    DEF RunInv, PlacesOf, AloneOf, BlankOf, Working, Ids
  <2>5. "upload" \in Spots
    BY DEF Spots
  <2>6. QED
    BY <2>1, <2>4, <2>5, <1>1, <1>2, OwnStep DEF TypeOK
<1>5. CASE /\ Cardinality(Hits(f)) = 1 /\ \A i \in Hits(f) : InCase(f, i)
           /\ file' = [file EXCEPT ![f] = CHOOSE i \in Hits(f) : TRUE]
           /\ pc' = [pc EXCEPT ![f] = "record"]
           /\ UNCHANGED <<world, sessions, todo, key, folder>>
  <2>1. Hits(f) # {}
    BY <1>5, FS_EmptySet
  <2>2. PICK i : i \in Hits(f) /\ file' = [file EXCEPT ![f] = i]
    BY <2>1, <1>5
  <2>3. i \in Ids /\ drive[i] = Revision(Doc(f), key[f], folder[f])
    <3>1. /\ i \in Ids /\ drive[i].kind = "revision" /\ drive[i].doc = Doc(f)
          /\ drive[i].key = key[f] /\ drive[i].folder = folder[f]
      BY <2>2, <1>1, <1>5 DEF Hits, CopiesFound, InCase, TypeOK
    <3>2. QED
      BY <3>1, <1>1, ItemIs
  <2>4. /\ UNCHANGED <<registered, records, drive, shown, excused, faults>>
        /\ UNCHANGED <<holder, lost, todo, key, folder>>
        /\ Case(f)' = Case(f) /\ Doc(f)' = Doc(f) /\ pc'[f] = "record"
        /\ file'[f] = i /\ pc' = [pc EXCEPT ![f] = "record"]
    BY <1>1, <1>5, <2>2 DEF world, sessions, Case, Doc, TypeOK
  <2>5. RunInv(f)'
    BY <2>3, <2>4, <1>3 DEF RunInv, PlacesOf, AloneOf, BlankOf, Working, Ids
  <2>6. /\ file' \in [Filers -> Ids \cup {0}]
        /\ \A g \in Filers \ {f} : file'[g] = file[g]
    BY <2>2, <2>3, <1>1 DEF TypeOK
  <2>7. "record" \in Spots
    BY DEF Spots
  <2>8. QED
    BY <2>4, <2>5, <2>6, <2>7, <1>1, <1>2, OwnStep DEF TypeOK
<1>6. CASE Refuse(f)
  BY <1>1, <1>6, RefuseStep, FaultType DEF Refuse, Leaves
<1>7. QED
  BY <1>4, <1>5, <1>6 DEF FindFile

-----------------------------------------------------------------------------
(* The invariant and what follows from it.                                 *)

LEMMA InitInv == Init => IInv
<1> SUFFICES ASSUME Init
             PROVE  IInv
  OBVIOUS
<1>1. /\ drive = Archive /\ shown = DOMAIN Archive /\ Ids = DOMAIN Archive
      /\ drive \in Seq(CaseItems \cup RevisionItems(Ids))
  BY ArchiveAssumption DEF Init, Ids
<1>2. TypeOK
  <2>1. <<>> \in Seq(Docs) /\ <<>> \in Seq([doc : Docs, file : Ids])
    OBVIOUS
  <2>2. "crm" \in Keys
    BY DEF Keys
  <2>3. 0 \in 0 .. MaxFaults
    BY LimitAssumption
  <2>4. QED
    BY <1>1, <2>1, <2>2, <2>3 DEF Init, TypeOK
<1>3. RecordsAreTrue
  BY DEF Init, RecordsAreTrue
<1>4. Seen
  BY <1>1 DEF Seen
<1>5. Single
  BY <1>1, ArchiveAssumption DEF Single, SameThing
<1>6. \A f \in Filers : RunInv(f)
  BY DEF Init, RunInv, PlacesOf, AloneOf, BlankOf, Working
<1>7. QED
  BY <1>2, <1>3, <1>4, <1>5, <1>6 DEF IInv

\* What happens outside the runs disturbs none of them.
LEMMA OutsideStep ==
  ASSUME IInv,
         OrphanEnds \/ (\E d \in Docs : Register(d))
           \/ (\E i \in DOMAIN drive : Show(i)) \/ UNCHANGED vars
  PROVE  IInv'
<1>1. /\ UNCHANGED <<records, drive, excused, lost, run, faults>>
      /\ shown \subseteq shown' /\ shown' \subseteq Ids
      /\ registered' \in Seq(Docs)
      /\ holder' = holder \/ (holder = Orphan /\ holder' = Nobody)
  <2>1. TypeOK
    BY DEF IInv
  <2>2. CASE OrphanEnds
    BY <2>1, <2>2 DEF OrphanEnds, world, TypeOK
  <2>3. CASE \E d \in Docs : Register(d)
    BY <2>1, <2>3 DEF Register, sessions, TypeOK
  <2>4. CASE \E i \in DOMAIN drive : Show(i)
    BY <2>1, <2>4 DEF Show, sessions, TypeOK, Ids
  <2>5. CASE UNCHANGED vars
    BY <2>1, <2>5 DEF vars, world, sessions, TypeOK
  <2>6. QED
    BY <2>2, <2>3, <2>4, <2>5
<1>2. UNCHANGED <<pc, todo, key, folder, file>>
  BY <1>1 DEF run
<1>3. TypeOK'
  BY <1>1, <1>2 DEF IInv, TypeOK, Ids
<1>4. Seen' /\ Single' /\ RecordsAreTrue'
  BY <1>1, SameDrive
<1>5. ASSUME NEW f \in Filers
      PROVE  RunInv(f)'
  <2>1. /\ RunInv(f) /\ Case(f)' = Case(f) /\ Doc(f)' = Doc(f)
        /\ Working(f)' = Working(f)
    BY <1>2 DEF IInv, Case, Doc, Working
  <2>2. PlacesOf(f)'
    BY <1>1, <1>2, <2>1 DEF RunInv, PlacesOf, Ids
  <2>3. AloneOf(f)'
    BY <1>1, <1>2, <2>1, FilerAssumption DEF RunInv, AloneOf
  <2>4. BlankOf(f)'
    BY <1>1, <1>2, <2>1 DEF RunInv, BlankOf, CaseFolders, Copies, Ids
  <2>5. QED
    BY <2>2, <2>3, <2>4 DEF RunInv
<1>6. QED
  BY <1>3, <1>4, <1>5 DEF IInv

\* A run that dies, or leaves its candidate, leaves nothing in hand.
LEMMA LeavingSteps ==
  ASSUME IInv, NEW f \in Filers,
         Crash(f) \/ Dies(f) \/ BadDoc(f) \/ Unavailable(f)
  PROVE  IInv'
<1>1. CASE Crash(f)
  BY <1>1, RefuseStep, FaultType DEF Crash, Leaves, IInv
<1>2. CASE Dies(f)
  BY <1>2, RefuseStep, FaultType DEF Dies, Leaves, IInv
<1>3. CASE BadDoc(f)
  BY <1>3, RefuseStep, FaultType DEF BadDoc, Refuse, Leaves, IInv
<1>4. CASE Unavailable(f)
  BY <1>4, RefuseStep, FaultType DEF Unavailable, Working, Refuse, Leaves, IInv
<1>5. QED
  BY <1>1, <1>2, <1>3, <1>4

LEMMA NextInv == IInv /\ [Next]_vars => IInv'
<1> SUFFICES ASSUME IInv, [Next]_vars
             PROVE  IInv'
  OBVIOUS
<1>1. CASE OrphanEnds \/ (\E d \in Docs : Register(d))
             \/ (\E i \in DOMAIN drive : Show(i)) \/ UNCHANGED vars
  BY <1>1, OutsideStep
<1>2. ASSUME NEW f \in Filers, TryLock(f)
      PROVE  IInv'
  BY <1>2, TryLockStep
<1>3. ASSUME NEW f \in Filers, Step(f)
      PROVE  IInv'
  <2>1. CASE List(f)
    BY <2>1, ListStep
  <2>2. CASE CaseKey(f)
    BY <2>2, CaseKeyStep
  <2>3. CASE ResolveFolder(f)
    BY <2>3, ResolveFolderStep
  <2>4. CASE CreateFolder(f) \/ Upload(f)
    BY <2>4, PostStep
  <2>5. CASE FindFile(f)
    BY <2>5, FindFileStep
  <2>6. CASE Record(f)
    BY <2>6, RecordStep
  <2>7. CASE BadDoc(f) \/ Dies(f)
    BY <2>7, LeavingSteps
  <2>8. QED
    BY <1>3, <2>1, <2>2, <2>3, <2>4, <2>5, <2>6, <2>7 DEF Step
<1>4. ASSUME NEW f \in Filers, Failure(f)
      PROVE  IInv'
  <2>1. CASE Crash(f) \/ Unavailable(f)
    BY <2>1, LeavingSteps
  <2>2. CASE SessionLost(f)
    BY <2>2, SessionLostStep
  <2>3. CASE LostAnswer(f)
    BY <2>3, LostAnswerStep
  <2>4. QED
    BY <1>4, <2>1, <2>2, <2>3 DEF Failure
<1>5. QED
  BY <1>1, <1>2, <1>3, <1>4 DEF Next

\* The conjunction behind the safety properties of filing (DriveFiler.run and
\* the archiver it calls) is an invariant.
THEOREM Inductive == Spec => []IInv
<1>1. Init => IInv
  BY InitInv
<1>2. IInv /\ [Next]_vars => IInv'
  BY NextInv
<1>3. QED
  BY <1>1, <1>2, PTL DEF Spec

\* Every variable of drive-file keeps its type, and a run at work on a
\* candidate has one.
THEOREM TypeCorrect == Spec => []TypeOK
<1>1. IInv => TypeOK
  BY DEF IInv
<1>2. QED
  BY <1>1, Inductive, PTL

\* A drive_file row names a file of its document, in the folder of its case,
\* and a document has one row.
THEOREM RecordsAreAlwaysTrue == Spec => []RecordsAreTrue
<1>1. IInv => RecordsAreTrue
  BY DEF IInv
<1>2. QED
  BY <1>1, Inductive, PTL

\* A set whose members are all one has at most one.
LEMMA AtMostOne ==
  ASSUME NEW S, \A x, y \in S : x = y
  PROVE  Cardinality(S) <= 1
<1>1. CASE S = {}
  BY <1>1, FS_EmptySet
<1>2. CASE S # {}
  <2>1. PICK x : x \in S
    BY <1>2
  <2>2. S = {x}
    BY <2>1
  <2>3. Cardinality(S) = 1
    BY <2>2, FS_Singleton
  <2>4. QED
    BY <2>3
<1>3. QED
  BY <1>1, <1>2

\* A second folder of a case or file of a document (archive_case) has a case
\* for which Drive or a session misled a run.
THEOREM CopiesAreAlwaysExcused == Spec => []CopiesAreExcused
<1>1. IInv => CopiesAreExcused
  <2> SUFFICES ASSUME IInv, NEW c \in Cases \ excused
               PROVE  /\ Cardinality(CaseFolders(c)) <= 1
                      /\ \A d \in Docs :
                           CaseOf[d] = c => Cardinality(Copies(d)) <= 1
    BY DEF CopiesAreExcused
  <2>1. Single
    BY DEF IInv
  <2>2. \A i, j \in CaseFolders(c) : i = j
    BY <2>1 DEF CaseFolders, Single, SameThing, ItemCase
  <2>3. ASSUME NEW d \in Docs, CaseOf[d] = c
        PROVE  \A i, j \in Copies(d) : i = j
    BY <2>1, <2>3 DEF Copies, Single, SameThing, ItemCase
  <2>4. QED
    BY <2>2, <2>3, AtMostOne
<1>2. QED
  BY <1>1, Inductive, PTL
=============================================================================
