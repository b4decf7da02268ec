------------------------- MODULE GmailCaptureProofs -------------------------
(***************************************************************************)
(* Proofs about GmailCapture, for every value of its constants.            *)
(***************************************************************************)
EXTENDS GmailCapture, TLAPS

\* Every step keeps the types and the order of the steps of a run.
LEMMA TypeStep ==
  ASSUME TypeOK, WorkInv, [Next]_vars
  PROVE  TypeOK' /\ WorkInv'
<1> USE DEF vars, gmail, mailbox, rows, local, None, Nobody, OrphanIdle,
            OrphanBusy
<1>1. CASE Expire
  BY <1>1
  DEF Expire, Labels, TypeOK, GmailTypes, TableTypes, LockTypes, RunTypes,
      WorkInv
<1>2. CASE Tick
  BY <1>2
  DEF Tick, Labels, TypeOK, GmailTypes, TableTypes, LockTypes, RunTypes,
      WorkInv
<1>3. CASE Age
  BY <1>3
  DEF Age, Labels, TypeOK, GmailTypes, TableTypes, LockTypes, RunTypes, WorkInv
<1>4. CASE OrphanEnds
  BY <1>4
  DEF OrphanEnds, Labels, TypeOK, GmailTypes, TableTypes, LockTypes, RunTypes,
      WorkInv
<1>5. ASSUME NEW m \in Msgs, Delete(m) PROVE TypeOK' /\ WorkInv'
  BY <1>5
  DEF Delete, Labels, TypeOK, GmailTypes, TableTypes, LockTypes, RunTypes,
      WorkInv
<1>6. ASSUME NEW m \in Msgs, NEW l \in Labels, Arrive(m, l)
      PROVE TypeOK' /\ WorkInv'
  BY <1>6
  DEF Arrive, Labels, TypeOK, GmailTypes, TableTypes, LockTypes, RunTypes,
      WorkInv
<1>7. ASSUME NEW m \in Msgs, NEW l \in Labels, Relabel(m, l)
      PROVE TypeOK' /\ WorkInv'
  <2>. USE DEF TypeOK
  <2>1. GmailTypes'
    <3>1. CASE l = "inbox"
      <4>1. log' = Append(log, m)
        BY <1>7, <3>1 DEF Relabel
      <4>2. log' \in Seq(Msgs)
        BY <4>1 DEF GmailTypes
      <4>3. QED
        BY <1>7, <3>1, <4>2 DEF Relabel, GmailTypes
    <3>2. CASE l # "inbox"
      BY <1>7, <3>2 DEF Relabel, GmailTypes
    <3>3. QED
      BY <3>1, <3>2
  <2>2. TableTypes'
    BY <1>7 DEF Relabel, TableTypes
  <2>3. LockTypes'
    BY <1>7 DEF Relabel, LockTypes
  <2>4. RunTypes'
    BY <1>7 DEF Relabel, RunTypes
  <2>5. WorkInv'
    BY <1>7 DEF Relabel, WorkInv, RunTypes
  <2>6. QED
    BY <2>1, <2>2, <2>3, <2>4, <2>5
<1>8. ASSUME NEW r \in Runs, NEW c \in {"sync", "init", "backfill"},
      TryLock(r, c)
      PROVE TypeOK' /\ WorkInv'
  <2>. USE DEF TypeOK
  <2>1. GmailTypes'
    BY <1>8 DEF TryLock, GmailTypes
  <2>2. TableTypes'
    BY <1>8 DEF TryLock, TableTypes
  <2>3. LockTypes'
    <3>1. /\ holder' = r /\ stale' = FALSE
          /\ faults' = faults /\ manual' \in Nat
      BY <1>8 DEF TryLock, LockTypes
    <3>2. QED
      BY <3>1 DEF LockTypes
  <2>4. RunTypes'
    BY <1>8 DEF TryLock, RunTypes
  <2>5. WorkInv'
    BY <1>8 DEF TryLock, WorkInv, RunTypes
  <2>6. QED
    BY <2>1, <2>2, <2>3, <2>4, <2>5
<1>9. ASSUME NEW r \in Runs, NEW m \in Msgs, Examine(r, m)
      PROVE TypeOK' /\ WorkInv'
  <2>. USE DEF TypeOK
  <2>1. GmailTypes'
    BY <1>9 DEF Examine, GmailTypes
  <2>2. TableTypes'
    BY <1>9 DEF Examine, TableTypes
  <2>3. LockTypes'
    BY <1>9 DEF Examine, LockTypes
  <2>4. RunTypes'
    BY <1>9 DEF Examine, AfterExamine, RunTypes
  <2>5. WorkInv'
    BY <1>9 DEF Examine, AfterExamine, WorkInv, RunTypes
  <2>6. QED
    BY <2>1, <2>2, <2>3, <2>4, <2>5
<1>10. ASSUME NEW r \in Runs, TryLockLoses(r) PROVE TypeOK' /\ WorkInv'
  BY <1>10
  DEF TryLockLoses, Labels, TypeOK, GmailTypes, TableTypes, LockTypes,
      RunTypes, WorkInv
<1>11. ASSUME NEW r \in Runs, ReadMailbox(r) PROVE TypeOK' /\ WorkInv'
  <2>1. GmailTypes' /\ TableTypes' /\ LockTypes'
    BY <1>11 DEF ReadMailbox, TypeOK, GmailTypes, TableTypes, LockTypes
  <2>2. RunTypes'
    BY <1>11 DEF ReadMailbox, TypeOK, TableTypes, RunTypes
  <2>3. WorkInv'
    BY <1>11 DEF ReadMailbox, TypeOK, RunTypes, WorkInv
  <2>4. QED
    BY <2>1, <2>2, <2>3 DEF TypeOK
<1>12. ASSUME NEW r \in Runs, Refused(r) PROVE TypeOK' /\ WorkInv'
  BY <1>12
  DEF Refused, End, Exit, Labels, TypeOK, GmailTypes, TableTypes, LockTypes,
      RunTypes, WorkInv
<1>13. ASSUME NEW r \in Runs, ReadProfile(r) PROVE TypeOK' /\ WorkInv'
  BY <1>13
  DEF ReadProfile, ProfileHistoryId, Labels, TypeOK, GmailTypes, TableTypes,
      LockTypes, RunTypes, WorkInv
<1>14. ASSUME NEW r \in Runs, Authorize(r) PROVE TypeOK' /\ WorkInv'
  BY <1>14
  DEF Authorize, Coalesce, End, Exit, Labels, TypeOK, GmailTypes, TableTypes,
      LockTypes, RunTypes, WorkInv
<1>15. ASSUME NEW r \in Runs, ListHistory(r) PROVE TypeOK' /\ WorkInv'
  <2>. USE DEF TypeOK
  <2>1. GmailTypes'
    BY <1>15 DEF ListHistory, List, Window, GmailTypes
  <2>2. TableTypes'
    BY <1>15 DEF ListHistory, List, Window, TableTypes
  <2>3. LockTypes'
    BY <1>15 DEF ListHistory, List, Window, LockTypes
  <2>4. RunTypes'
    BY <1>15 DEF ListHistory, List, Window, RunTypes, GmailTypes
  <2>5. WorkInv'
    BY <1>15 DEF ListHistory, List, Window, WorkInv, RunTypes
  <2>6. QED
    BY <2>1, <2>2, <2>3, <2>4, <2>5
<1>16. ASSUME NEW r \in Runs, Resync(r) PROVE TypeOK' /\ WorkInv'
  <2>. USE DEF TypeOK
  <2>1. GmailTypes'
    BY <1>16 DEF Resync, List, DatedSince, Listable, GmailTypes
  <2>2. TableTypes'
    BY <1>16 DEF Resync, List, DatedSince, Listable, TableTypes
  <2>3. LockTypes'
    BY <1>16 DEF Resync, List, DatedSince, Listable, LockTypes
  <2>4. RunTypes'
    BY <1>16 DEF Resync, List, DatedSince, Listable, RunTypes
  <2>5. WorkInv'
    BY <1>16 DEF Resync, List, DatedSince, Listable, WorkInv, RunTypes
  <2>6. QED
    BY <2>1, <2>2, <2>3, <2>4, <2>5
<1>17. ASSUME NEW r \in Runs, SearchMail(r) PROVE TypeOK' /\ WorkInv'
  <2>. USE DEF TypeOK
  <2>1. GmailTypes'
    BY <1>17 DEF SearchMail, List, Listable, GmailTypes
  <2>2. TableTypes'
    BY <1>17 DEF SearchMail, List, Listable, TableTypes
  <2>3. LockTypes'
    BY <1>17 DEF SearchMail, List, Listable, LockTypes
  <2>4. RunTypes'
    BY <1>17 DEF SearchMail, List, Listable, RunTypes
  <2>5. WorkInv'
    BY <1>17 DEF SearchMail, List, Listable, WorkInv, RunTypes
  <2>6. QED
    BY <2>1, <2>2, <2>3, <2>4, <2>5
<1>18. ASSUME NEW r \in Runs, Fetch(r) PROVE TypeOK' /\ WorkInv'
  <2>. USE DEF TypeOK
  <2>1. GmailTypes'
    BY <1>18 DEF Fetch, GmailTypes
  <2>2. TableTypes'
    BY <1>18 DEF Fetch, TableTypes, RunTypes, WorkInv
  <2>3. LockTypes'
    BY <1>18 DEF Fetch, LockTypes
  <2>4. RunTypes'
    BY <1>18 DEF Fetch, RunTypes
  <2>5. WorkInv'
    BY <1>18 DEF Fetch, WorkInv, RunTypes
  <2>6. QED
    BY <2>1, <2>2, <2>3, <2>4, <2>5
<1>19. ASSUME NEW r \in Runs, Record(r) PROVE TypeOK' /\ WorkInv'
  <2>. USE DEF TypeOK
  <2>1. GmailTypes'
    BY <1>19 DEF Record, InsertRow, Recorded, GmailTypes
  <2>2. TableTypes'
    BY <1>19
    DEF Record, InsertRow, WithEvidence, Recorded, TableTypes, RunTypes,
        WorkInv
  <2>3. LockTypes'
    BY <1>19 DEF Record, InsertRow, Recorded, LockTypes
  <2>4. RunTypes'
    BY <1>19 DEF Record, InsertRow, Recorded, RunTypes
  <2>5. WorkInv'
    BY <1>19 DEF Record, InsertRow, Recorded, WorkInv, RunTypes
  <2>6. QED
    BY <2>1, <2>2, <2>3, <2>4, <2>5
<1>20. ASSUME NEW r \in Runs, Advance(r) PROVE TypeOK' /\ WorkInv'
  BY <1>20
  DEF Advance, End, Exit, Labels, TypeOK, GmailTypes, TableTypes, LockTypes,
      RunTypes, WorkInv
<1>21. ASSUME NEW r \in Runs, FinishBackfill(r) PROVE TypeOK' /\ WorkInv'
  BY <1>21
  DEF FinishBackfill, End, Exit, Labels, TypeOK, GmailTypes, TableTypes,
      LockTypes, RunTypes, WorkInv
<1>22. ASSUME NEW r \in Runs, SessionLost(r) PROVE TypeOK' /\ WorkInv'
  BY <1>22
  DEF SessionLost, End, Exit, Labels, TypeOK, GmailTypes, TableTypes,
      LockTypes, RunTypes, WorkInv
<1>22a. ASSUME NEW r \in Runs, FetchRefused(r) PROVE TypeOK' /\ WorkInv'
  BY <1>22a
  DEF FetchRefused, End, Exit, Labels, TypeOK, GmailTypes, TableTypes,
      LockTypes, RunTypes, WorkInv
<1>23. ASSUME NEW r \in Runs, Stops(r) PROVE TypeOK' /\ WorkInv'
  BY <1>23
  DEF Stops, End, Exit, Labels, TypeOK, GmailTypes, TableTypes, LockTypes,
      RunTypes, WorkInv
<1>24. ASSUME NEW r \in Runs, Kill(r) PROVE TypeOK' /\ WorkInv'
  <2>. USE DEF TypeOK
  <2>1. GmailTypes'
    BY <1>24 DEF Kill, Exit, GmailTypes
  <2>2. TableTypes'
    BY <1>24 DEF Kill, Exit, TableTypes
  <2>3. LockTypes'
    <3>1. /\ holder' \in {holder, Nobody, OrphanIdle, OrphanBusy}
          /\ stale' \in {stale, FALSE}
      BY <1>24, Zenon DEF Kill
    <3>2. faults' = faults + 1 /\ manual' = manual
      BY <1>24 DEF Kill
    <3>3. holder' \in Runs \cup {Nobody, OrphanIdle, OrphanBusy}
      BY <3>1 DEF LockTypes
    <3>4. stale' \in BOOLEAN
      BY <3>1, Zenon DEF LockTypes
    <3>5. QED
      BY <3>2, <3>3, <3>4 DEF LockTypes
  <2>4. RunTypes'
    BY <1>24 DEF Kill, Exit, RunTypes
  <2>5. WorkInv'
    BY <1>24 DEF Kill, Exit, WorkInv, RunTypes
  <2>6. QED
    BY <2>1, <2>2, <2>3, <2>4, <2>5
<1>25. ASSUME NEW r \in Runs, ConsentLost(r) PROVE TypeOK' /\ WorkInv'
  BY <1>25
  DEF ConsentLost, End, Exit, Labels, TypeOK, GmailTypes, TableTypes,
      LockTypes, RunTypes, WorkInv
<1>26. CASE UNCHANGED vars
  BY <1>26
  DEF Labels, TypeOK, GmailTypes, TableTypes, LockTypes, RunTypes, WorkInv
<1> HIDE DEF vars, gmail, mailbox, rows, local, None, Nobody, OrphanIdle,
             OrphanBusy
<1>27. QED
  BY <1>1, <1>2, <1>3, <1>4, <1>5, <1>6, <1>7, <1>8, <1>9, <1>10, <1>11,
     <1>12, <1>13, <1>14, <1>15, <1>16, <1>17, <1>18, <1>19, <1>20, <1>21,
     <1>22, <1>22a, <1>23, <1>24, <1>25, <1>26
  DEF Labels, Next, People, Start, Step,
     Faults

\* A position of the history log keeps its message.
LEMMA LogGrows ==
  ASSUME GmailTypes, NEW m \in Msgs, log' = Append(log, m)
  PROVE  /\ Len(log') = Len(log) + 1
         /\ \A i \in 1 .. Len(log) : log'[i] = log[i]
         /\ \A i \in Nat :
              i <= Len(log) => Window(i)' = Window(i) \cup {m}
<1>1. /\ Len(log') = Len(log) + 1
      /\ \A i \in 1 .. Len(log) : log'[i] = log[i]
      /\ log'[Len(log) + 1] = m
      /\ Len(log) \in Nat
  BY DEF GmailTypes
<1>2. ASSUME NEW i \in Nat, i <= Len(log)
      PROVE  Window(i)' = Window(i) \cup {m}
  <2>1. (i + 1) .. Len(log') = ((i + 1) .. Len(log)) \cup {Len(log) + 1}
    BY <1>1, <1>2
  <2>2. \A k \in (i + 1) .. Len(log) : log'[k] = log[k]
    BY <1>1, <1>2
  <2>3. QED
    BY <1>1, <2>1, <2>2 DEF Window
<1>3. QED
  BY <1>1, <1>2

\* Every step keeps the mailbox row, the log and the clock in agreement.
LEMMA MailboxStep ==
  ASSUME IInv, [Next]_vars
  PROVE  MailboxInv'
<1> USE DEF vars, gmail, mailbox, rows, local, None, Nobody, OrphanIdle,
            OrphanBusy
<1>1. CASE Expire
  BY <1>1
  DEF Expire, IInv, TypeOK, GmailTypes, TableTypes, LockTypes, RunTypes,
      MailboxInv
<1>2. CASE Tick
  BY <1>2
  DEF Tick, IInv, TypeOK, GmailTypes, TableTypes, LockTypes, RunTypes,
      MailboxInv
<1>3. CASE Age
  BY <1>3
  DEF Age, IInv, TypeOK, GmailTypes, TableTypes, LockTypes, RunTypes,
      MailboxInv
<1>4. CASE OrphanEnds
  BY <1>4, RunsAssumption
  DEF OrphanEnds, IInv, TypeOK, GmailTypes, TableTypes, LockTypes, RunTypes,
      MailboxInv
<1>5. ASSUME NEW m \in Msgs, Delete(m) PROVE MailboxInv'
  BY <1>5
  DEF Delete, IInv, TypeOK, GmailTypes, TableTypes, LockTypes, RunTypes,
      MailboxInv
<1>6. ASSUME NEW m \in Msgs, NEW l \in Labels, Arrive(m, l)
      PROVE MailboxInv'
  BY <1>6
  DEF Arrive, IInv, TypeOK, GmailTypes, TableTypes, LockTypes, RunTypes,
      MailboxInv
<1>7. ASSUME NEW m \in Msgs, NEW l \in Labels, Relabel(m, l) PROVE
      MailboxInv'
  <2>1. CASE l = "inbox"
    BY <1>7, <2>1
    DEF Relabel, IInv, TypeOK, GmailTypes, TableTypes, LockTypes, RunTypes,
        MailboxInv
  <2>2. CASE l # "inbox"
    BY <1>7, <2>2
    DEF Relabel, IInv, TypeOK, GmailTypes, TableTypes, LockTypes, RunTypes,
        MailboxInv
  <2>3. QED
    BY <2>1, <2>2
<1>8. ASSUME NEW r \in Runs, NEW c \in {"sync", "init", "backfill"},
      TryLock(r, c)
      PROVE MailboxInv'
  BY <1>8
  DEF TryLock, Terminable, IInv, TypeOK, GmailTypes, TableTypes, LockTypes,
      RunTypes, MailboxInv
<1>9. ASSUME NEW r \in Runs, NEW m \in Msgs, Examine(r, m) PROVE MailboxInv'
  BY <1>9
  DEF Examine, AfterExamine, IInv, TypeOK, GmailTypes, TableTypes, LockTypes,
      RunTypes, MailboxInv
<1>10. ASSUME NEW r \in Runs, TryLockLoses(r) PROVE MailboxInv'
  BY <1>10, RunsAssumption
  DEF TryLockLoses, Terminable, IInv, TypeOK, GmailTypes, TableTypes,
      LockTypes, RunTypes, MailboxInv
<1>11. ASSUME NEW r \in Runs, ReadMailbox(r) PROVE MailboxInv'
  BY <1>11
  DEF ReadMailbox, SessionAlive, IInv, TypeOK, GmailTypes, TableTypes,
      LockTypes, RunTypes, MailboxInv
<1>12. ASSUME NEW r \in Runs, Refused(r) PROVE MailboxInv'
  BY <1>12, RunsAssumption
  DEF Refused, End, Exit, IInv, TypeOK, GmailTypes, TableTypes, LockTypes,
      RunTypes, MailboxInv
<1>13. ASSUME NEW r \in Runs, ReadProfile(r) PROVE MailboxInv'
  BY <1>13
  DEF ReadProfile, IInv, TypeOK, GmailTypes, TableTypes, LockTypes, RunTypes,
      MailboxInv
<1>14. ASSUME NEW r \in Runs, Authorize(r) PROVE MailboxInv'
  BY <1>14, RunsAssumption
  DEF Authorize, Coalesce, End, Exit, HolderInv, Aimed, SessionAlive, IInv,
      TypeOK, GmailTypes, TableTypes, LockTypes, RunTypes, MailboxInv
<1>15. ASSUME NEW r \in Runs, ListHistory(r) PROVE MailboxInv'
  BY <1>15
  DEF ListHistory, List, IInv, TypeOK, GmailTypes, TableTypes, LockTypes,
      RunTypes, MailboxInv
<1>16. ASSUME NEW r \in Runs, Resync(r) PROVE MailboxInv'
  BY <1>16
  DEF Resync, List, IInv, TypeOK, GmailTypes, TableTypes, LockTypes, RunTypes,
      MailboxInv
<1>17. ASSUME NEW r \in Runs, SearchMail(r) PROVE MailboxInv'
  BY <1>17
  DEF SearchMail, List, IInv, TypeOK, GmailTypes, TableTypes, LockTypes,
      RunTypes, MailboxInv
<1>18. ASSUME NEW r \in Runs, Fetch(r) PROVE MailboxInv'
  BY <1>18
  DEF Fetch, IInv, TypeOK, GmailTypes, TableTypes, LockTypes, RunTypes,
      MailboxInv
<1>19. ASSUME NEW r \in Runs, Record(r) PROVE MailboxInv'
  BY <1>19
  DEF Record, InsertRow, IInv, TypeOK, GmailTypes, TableTypes, LockTypes,
      RunTypes, MailboxInv
<1>20. ASSUME NEW r \in Runs, Advance(r) PROVE MailboxInv'
  BY <1>20, RunsAssumption
  DEF Advance, End, Exit, HolderInv, Aimed, SessionAlive, IInv, TypeOK,
      GmailTypes, TableTypes, LockTypes, RunTypes, MailboxInv
<1>21. ASSUME NEW r \in Runs, FinishBackfill(r) PROVE MailboxInv'
  BY <1>21, RunsAssumption
  DEF FinishBackfill, End, Exit, IInv, TypeOK, GmailTypes, TableTypes,
      LockTypes, RunTypes, MailboxInv
<1>22. ASSUME NEW r \in Runs, SessionLost(r) PROVE MailboxInv'
  BY <1>22, RunsAssumption
  DEF SessionLost, End, Exit, IInv, TypeOK, GmailTypes, TableTypes, LockTypes,
      RunTypes, MailboxInv
<1>22a. ASSUME NEW r \in Runs, FetchRefused(r) PROVE MailboxInv'
  BY <1>22a, RunsAssumption
  DEF FetchRefused, End, Exit, IInv, TypeOK, GmailTypes, TableTypes, LockTypes,
      RunTypes, MailboxInv
<1>23. ASSUME NEW r \in Runs, Stops(r) PROVE MailboxInv'
  BY <1>23, RunsAssumption
  DEF Stops, End, Exit, IInv, TypeOK, GmailTypes, TableTypes, LockTypes,
      RunTypes, MailboxInv
<1>24. ASSUME NEW r \in Runs, Kill(r) PROVE MailboxInv'
  <2>1. CASE SessionAlive(r)
    BY <1>24, <2>1, RunsAssumption
    DEF Kill, Exit, SessionAlive, IInv, MailboxInv
  <2>2. CASE ~SessionAlive(r)
    BY <1>24, <2>2
    DEF Kill, Exit, SessionAlive, IInv, TypeOK, RunTypes, MailboxInv
  <2>3. QED
    BY <2>1, <2>2
<1>25. ASSUME NEW r \in Runs, ConsentLost(r) PROVE MailboxInv'
  BY <1>25, RunsAssumption
  DEF ConsentLost, End, Exit, IInv, TypeOK, GmailTypes, TableTypes, LockTypes,
      RunTypes, MailboxInv
<1>26. CASE UNCHANGED vars
  BY <1>26
  DEF IInv, TypeOK, GmailTypes, TableTypes, LockTypes, RunTypes, MailboxInv
<1> HIDE DEF vars, gmail, mailbox, rows, local, None, Nobody, OrphanIdle,
             OrphanBusy
<1>27. QED
  BY <1>1, <1>2, <1>3, <1>4, <1>5, <1>6, <1>7, <1>8, <1>9, <1>10, <1>11,
     <1>12, <1>13, <1>14, <1>15, <1>16, <1>17, <1>18, <1>19, <1>20, <1>21,
     <1>22, <1>22a, <1>23, <1>24, <1>25, <1>26
  DEF Labels, Next, People, Start, Step,
     Faults

\* A run that ends takes its session with it: the holder, if any, is another.
LEMMA EndedRun ==
  ASSUME HolderInv, RunTypes, LockTypes, NEW r \in Runs, End(r),
         UNCHANGED <<log, date, clock, late, cursor, synced>>
  PROVE  HolderInv'
<1>1. ASSUME NEW q \in Runs, SessionAlive(q)'
      PROVE  /\ SessionAlive(q) /\ pc'[q] = pc[q] /\ cmd'[q] = cmd[q]
             /\ from'[q] = from[q] /\ since'[q] = since[q]
             /\ target'[q] = target[q] /\ started'[q] = started[q]
  BY <1>1, RunsAssumption DEF End, Exit, SessionAlive, RunTypes
<1>2. QED
  BY <1>1 DEF HolderInv, Informed, Aimed, Window

\* What the lock holder read stays what the row says: nobody else writes it.
LEMMA HolderStep ==
  ASSUME IInv, [Next]_vars
  PROVE  HolderInv'
<1> USE DEF vars, gmail, mailbox, rows, local, None, Nobody, OrphanIdle,
            OrphanBusy
<1>1. CASE Expire
  BY <1>1, RunsAssumption
  DEF Expire, Window, IInv, TypeOK, GmailTypes, TableTypes, LockTypes,
      RunTypes, MailboxInv, HolderInv, Informed, Aimed, SessionAlive
<1>2. CASE Tick
  BY <1>2, RunsAssumption
  DEF Tick, Window, IInv, TypeOK, GmailTypes, TableTypes, LockTypes, RunTypes,
      MailboxInv, HolderInv, Informed, Aimed, SessionAlive
<1>3. CASE Age
  BY <1>3, RunsAssumption
  DEF Age, Window, IInv, TypeOK, GmailTypes, TableTypes, LockTypes, RunTypes,
      MailboxInv, HolderInv, Informed, Aimed, SessionAlive
<1>4. CASE OrphanEnds
  BY <1>4, RunsAssumption
  DEF OrphanEnds, Window, IInv, TypeOK, GmailTypes, TableTypes, LockTypes,
      RunTypes, MailboxInv, HolderInv, Informed, Aimed, SessionAlive
<1>5. ASSUME NEW m \in Msgs, Delete(m) PROVE HolderInv'
  BY <1>5, RunsAssumption
  DEF Delete, Window, Labels, IInv, TypeOK, GmailTypes, TableTypes, LockTypes,
      RunTypes, MailboxInv, HolderInv, Informed, Aimed, SessionAlive
<1>6. ASSUME NEW m \in Msgs, NEW l \in Labels, Arrive(m, l) PROVE HolderInv'
  <2>1. /\ Len(log') = Len(log) + 1
        /\ \A i \in Nat : i <= Len(log) => Window(i)' = Window(i) \cup {m}
    BY <1>6, LogGrows DEF Arrive, IInv, TypeOK
  <2>2. QED
    BY <1>6, <2>1
    DEF Arrive, IInv, TypeOK, GmailTypes, TableTypes, LockTypes, RunTypes,
        MailboxInv, HolderInv, Informed, Aimed, SessionAlive
<1>7. ASSUME NEW m \in Msgs, NEW l \in Labels, Relabel(m, l)
      PROVE HolderInv'
  <2>1. CASE l = "inbox"
    <3>1. /\ Len(log') = Len(log) + 1
          /\ \A i \in Nat : i <= Len(log) => Window(i)' = Window(i) \cup {m}
      BY <1>7, <2>1, LogGrows DEF Relabel, IInv, TypeOK
    <3>2. QED
      BY <1>7, <2>1, <3>1
      DEF Relabel, IInv, TypeOK, GmailTypes, TableTypes, LockTypes, RunTypes,
          MailboxInv, HolderInv, Informed, Aimed, SessionAlive
  <2>2. CASE l # "inbox"
    BY <1>7, <2>2
    DEF Relabel, Window, IInv, TypeOK, GmailTypes, TableTypes, LockTypes,
        RunTypes, MailboxInv, HolderInv, Informed, Aimed, SessionAlive
  <2>3. QED
    BY <2>1, <2>2
<1>8. ASSUME NEW r \in Runs, NEW c \in {"sync", "init", "backfill"},
      TryLock(r, c)
      PROVE HolderInv'
  BY <1>8, RunsAssumption
  DEF TryLock, Window, IInv, TypeOK, GmailTypes, TableTypes, LockTypes,
      RunTypes, MailboxInv, HolderInv, Informed, Aimed, SessionAlive
<1>9. ASSUME NEW r \in Runs, NEW m \in Msgs, Examine(r, m) PROVE HolderInv'
  BY <1>9, RunsAssumption
  DEF Examine, Window, IInv, TypeOK, GmailTypes, TableTypes, LockTypes,
      RunTypes, MailboxInv, HolderInv, Informed, Aimed, SessionAlive
<1>10. ASSUME NEW r \in Runs, TryLockLoses(r) PROVE HolderInv'
  BY <1>10, RunsAssumption
  DEF TryLockLoses, Window, IInv, TypeOK, GmailTypes, TableTypes, LockTypes,
      RunTypes, MailboxInv, HolderInv, Informed, Aimed, SessionAlive
<1>11. ASSUME NEW r \in Runs, ReadMailbox(r) PROVE HolderInv'
  BY <1>11, RunsAssumption
  DEF ReadMailbox, Window, IInv, TypeOK, GmailTypes, TableTypes, LockTypes,
      RunTypes, MailboxInv, HolderInv, Informed, Aimed, SessionAlive
<1>12. ASSUME NEW r \in Runs, Refused(r) PROVE HolderInv'
  BY <1>12, EndedRun DEF Refused, IInv, TypeOK
<1>13. ASSUME NEW r \in Runs, ReadProfile(r) PROVE HolderInv'
  <2>1. \A i \in Nat : i = Len(log) => Window(i) = {}
    BY DEF Window, IInv, TypeOK, GmailTypes
  <2>2. Len(log) \in Nat
    BY DEF IInv, TypeOK, GmailTypes
  <2>3. \A i : Window(i)' = Window(i)
    BY <1>13 DEF ReadProfile, Window
  <2>4. QED
    BY <1>13, <2>1, <2>2, <2>3, TimeAssumption
    DEF ReadProfile, ProfileHistoryId, IInv, TypeOK, GmailTypes, TableTypes,
        LockTypes, RunTypes, MailboxInv, HolderInv, Informed, Aimed,
        SessionAlive
<1>14. ASSUME NEW r \in Runs, Authorize(r) PROVE HolderInv'
  BY <1>14, RunsAssumption
  DEF Authorize, End, Exit, Window, IInv, TypeOK, GmailTypes,
      TableTypes, LockTypes, RunTypes, MailboxInv, HolderInv, Informed, Aimed,
      SessionAlive
<1>15. ASSUME NEW r \in Runs, ListHistory(r) PROVE HolderInv'
  BY <1>15, RunsAssumption
  DEF ListHistory, List, Window, IInv, TypeOK, GmailTypes, TableTypes,
      LockTypes, RunTypes, MailboxInv, HolderInv, Informed, Aimed, SessionAlive
<1>16. ASSUME NEW r \in Runs, Resync(r) PROVE HolderInv'
  BY <1>16, RunsAssumption
  DEF Resync, List, Window, IInv, TypeOK, GmailTypes, TableTypes,
      LockTypes, RunTypes, MailboxInv, HolderInv, Informed, Aimed, SessionAlive
<1>17. ASSUME NEW r \in Runs, SearchMail(r) PROVE HolderInv'
  BY <1>17, RunsAssumption
  DEF SearchMail, List, Window, IInv, TypeOK, GmailTypes, TableTypes,
      LockTypes, RunTypes, MailboxInv, HolderInv, Informed, Aimed, SessionAlive
<1>18. ASSUME NEW r \in Runs, Fetch(r) PROVE HolderInv'
  BY <1>18, RunsAssumption
  DEF Fetch, Window, IInv, TypeOK, GmailTypes, TableTypes, LockTypes, RunTypes,
      MailboxInv, HolderInv, Informed, Aimed, SessionAlive
<1>19. ASSUME NEW r \in Runs, Record(r) PROVE HolderInv'
  BY <1>19, RunsAssumption
  DEF Record, InsertRow, Window, IInv, TypeOK, GmailTypes,
      TableTypes, LockTypes, RunTypes, MailboxInv, HolderInv, Informed, Aimed,
      SessionAlive
<1>20. ASSUME NEW r \in Runs, Advance(r) PROVE HolderInv'
  BY <1>20, RunsAssumption
  DEF Advance, End, Exit, Window, IInv, TypeOK, GmailTypes,
      TableTypes, LockTypes, RunTypes, MailboxInv, HolderInv, Informed, Aimed,
      SessionAlive
<1>21. ASSUME NEW r \in Runs, FinishBackfill(r) PROVE HolderInv'
  BY <1>21, EndedRun DEF FinishBackfill, IInv, TypeOK
<1>22. ASSUME NEW r \in Runs, SessionLost(r) PROVE HolderInv'
  BY <1>22, EndedRun DEF SessionLost, IInv, TypeOK
<1>22a. ASSUME NEW r \in Runs, FetchRefused(r) PROVE HolderInv'
  BY <1>22a, EndedRun DEF FetchRefused, IInv, TypeOK
<1>23. ASSUME NEW r \in Runs, Stops(r) PROVE HolderInv'
  BY <1>23, EndedRun DEF Stops, IInv, TypeOK
<1>24. ASSUME NEW r \in Runs, Kill(r) PROVE HolderInv'
  <2>1. CASE SessionAlive(r)
    BY <1>24, <2>1, RunsAssumption DEF Kill, Exit, SessionAlive, HolderInv
  <2>2. CASE ~SessionAlive(r)
    BY <1>24, <2>2
    DEF Kill, Exit, Window, IInv, TypeOK, GmailTypes, TableTypes, LockTypes,
        RunTypes, MailboxInv, HolderInv, Informed, Aimed, SessionAlive
  <2>3. QED
    BY <2>1, <2>2
<1>25. ASSUME NEW r \in Runs, ConsentLost(r) PROVE HolderInv'
  BY <1>25, EndedRun DEF ConsentLost, IInv, TypeOK
<1>26. CASE UNCHANGED vars
  <2>1. HolderInv
    BY DEF IInv
  <2>2. QED
    BY <1>26, <2>1 DEF HolderInv, Informed, Aimed, SessionAlive, Window
<1> HIDE DEF vars, gmail, mailbox, rows, local, None, Nobody, OrphanIdle,
             OrphanBusy
<1>27. QED
  BY <1>1, <1>2, <1>3, <1>4, <1>5, <1>6, <1>7, <1>8, <1>9, <1>10, <1>11,
     <1>12, <1>13, <1>14, <1>15, <1>16, <1>17, <1>18, <1>19, <1>20, <1>21,
     <1>22, <1>22a, <1>23, <1>24, <1>25, <1>26
  DEF Labels, Next, People, Start, Step,
     Faults

\* The log only grows, a row is never lost, and only a move that history lists
\* makes a message owed.
LEMMA JournalStep ==
  ASSUME TypeOK, [Next]_vars
  PROVE  /\ log' = log \/ \E n \in Msgs : log' = Append(log, n)
         /\ Recorded \subseteq Recorded'
         /\ \A n \in Msgs : Owed(n)' => Owed(n) \/ log' = Append(log, n)
<1> DEFINE Journal ==
              /\ log' = log \/ \E n \in Msgs : log' = Append(log, n)
              /\ Recorded \subseteq Recorded'
              /\ \A n \in Msgs : Owed(n)' => Owed(n) \/ log' = Append(log, n)
<1> USE DEF vars, gmail, mailbox, rows, local, None, Nobody, OrphanIdle,
            OrphanBusy
<1>1. CASE Expire
  BY <1>1 DEF Expire, Owed, Kept, Excluded, Lives, Recorded
<1>2. CASE Tick
  BY <1>2 DEF Tick, Owed, Kept, Excluded, Lives, Recorded
<1>3. CASE Age
  BY <1>3 DEF Age, Owed, Kept, Excluded, Lives, Recorded
<1>4. CASE OrphanEnds
  BY <1>4 DEF OrphanEnds, Owed, Kept, Excluded, Lives, Recorded
<1>5. ASSUME NEW m \in Msgs, Delete(m) PROVE Journal
  BY <1>5 DEF Delete, TypeOK, GmailTypes, Owed, Kept, Excluded, Lives, Recorded
<1>6. ASSUME NEW m \in Msgs, NEW l \in Labels, Arrive(m, l) PROVE Journal
  BY <1>6 DEF Arrive, TypeOK, GmailTypes, Owed, Kept, Excluded, Lives, Recorded
<1>7. ASSUME NEW m \in Msgs, NEW l \in Labels, Relabel(m, l) PROVE Journal
  <2>1. CASE l = "inbox"
    BY <1>7, <2>1
    DEF Relabel, GmailTypes, TypeOK, Owed, Kept, Excluded, Lives, Recorded
  <2>2. CASE l # "inbox"
    BY <1>7, <2>2
    DEF Relabel, GmailTypes, TypeOK, Owed, Kept, Excluded, Lives, Recorded,
        Moves
  <2>3. QED
    BY <2>1, <2>2
<1>8. ASSUME NEW r \in Runs, NEW c \in {"sync", "init", "backfill"},
      TryLock(r, c)
      PROVE Journal
  BY <1>8 DEF TryLock, Owed, Kept, Excluded, Lives, Recorded
<1>9. ASSUME NEW r \in Runs, NEW m \in Msgs, Examine(r, m) PROVE Journal
  BY <1>9 DEF Examine, Owed, Kept, Excluded, Lives, Recorded
<1>10. ASSUME NEW r \in Runs, TryLockLoses(r) PROVE Journal
  BY <1>10 DEF TryLockLoses, Owed, Kept, Excluded, Lives, Recorded
<1>11. ASSUME NEW r \in Runs, ReadMailbox(r) PROVE Journal
  BY <1>11 DEF ReadMailbox, Owed, Kept, Excluded, Lives, Recorded
<1>12. ASSUME NEW r \in Runs, Refused(r) PROVE Journal
  BY <1>12 DEF Refused, End, Exit, Owed, Kept, Excluded, Lives, Recorded
<1>13. ASSUME NEW r \in Runs, ReadProfile(r) PROVE Journal
  BY <1>13 DEF ReadProfile, Owed, Kept, Excluded, Lives, Recorded
<1>14. ASSUME NEW r \in Runs, Authorize(r) PROVE Journal
  BY <1>14 DEF Authorize, End, Exit, Owed, Kept, Excluded, Lives, Recorded
<1>15. ASSUME NEW r \in Runs, ListHistory(r) PROVE Journal
  BY <1>15 DEF ListHistory, List, Owed, Kept, Excluded, Lives, Recorded
<1>16. ASSUME NEW r \in Runs, Resync(r) PROVE Journal
  BY <1>16
  DEF Resync, List, TypeOK, GmailTypes, Owed, Kept, Excluded, Lives, Recorded
<1>17. ASSUME NEW r \in Runs, SearchMail(r) PROVE Journal
  BY <1>17 DEF SearchMail, List, Owed, Kept, Excluded, Lives, Recorded
<1>18. ASSUME NEW r \in Runs, Fetch(r) PROVE Journal
  BY <1>18 DEF Fetch, Owed, Kept, Excluded, Lives, Recorded
<1>19. ASSUME NEW r \in Runs, Record(r) PROVE Journal
  BY <1>19 DEF Record, InsertRow, Owed, Kept, Excluded, Lives, Recorded
<1>20. ASSUME NEW r \in Runs, Advance(r) PROVE Journal
  BY <1>20 DEF Advance, End, Exit, Owed, Kept, Excluded, Lives, Recorded
<1>21. ASSUME NEW r \in Runs, FinishBackfill(r) PROVE Journal
  BY <1>21 DEF FinishBackfill, End, Exit, Owed, Kept, Excluded, Lives, Recorded
<1>22. ASSUME NEW r \in Runs, SessionLost(r) PROVE Journal
  BY <1>22 DEF SessionLost, End, Exit, Owed, Kept, Excluded, Lives, Recorded
<1>22a. ASSUME NEW r \in Runs, FetchRefused(r) PROVE Journal
  BY <1>22a DEF FetchRefused, End, Exit, Owed, Kept, Excluded, Lives, Recorded
<1>23. ASSUME NEW r \in Runs, Stops(r) PROVE Journal
  BY <1>23 DEF Stops, End, Exit, Owed, Kept, Excluded, Lives, Recorded
<1>24. ASSUME NEW r \in Runs, Kill(r) PROVE Journal
  BY <1>24 DEF Kill, Exit, Owed, Kept, Excluded, Lives, Recorded
<1>25. ASSUME NEW r \in Runs, ConsentLost(r) PROVE Journal
  BY <1>25 DEF ConsentLost, End, Exit, Owed, Kept, Excluded, Lives, Recorded
<1>26. CASE UNCHANGED vars
  BY <1>26 DEF Owed, Kept, Excluded, Lives, Recorded
<1> HIDE DEF vars, gmail, mailbox, rows, local, None, Nobody, OrphanIdle,
             OrphanBusy
<1>27. QED
  BY <1>1, <1>2, <1>3, <1>4, <1>5, <1>6, <1>7, <1>8, <1>9, <1>10, <1>11,
     <1>12, <1>13, <1>14, <1>15, <1>16, <1>17, <1>18, <1>19, <1>20, <1>21,
     <1>22, <1>22a, <1>23, <1>24, <1>25, <1>26
  DEF Labels, Next, People, Start, Step,
     Faults

\* Only Authorize and Advance write the cursor, and only with the lock.
LEMMA CursorWriters ==
  ASSUME [Next]_vars
  PROVE  \/ UNCHANGED <<cursor, base, synced>>
         \/ \E r \in Runs : Authorize(r) \/ Advance(r)
<1> USE DEF vars, mailbox
<1>1. ASSUME NEW r \in Runs, Start(r) \/ Faults(r)
      PROVE  UNCHANGED <<cursor, base, synced>>
  BY <1>1 DEF Start, Faults, TryLock, TryLockLoses, Stops, Kill, ConsentLost
<1>2. ASSUME NEW r \in Runs, Step(r)
      PROVE  \/ UNCHANGED <<cursor, base, synced>>
             \/ Authorize(r) \/ Advance(r)
  BY <1>2
  DEF Step, ReadMailbox, Refused, ReadProfile, ListHistory, Resync, SearchMail,
      List, Examine, Fetch, FetchRefused, Record, FinishBackfill,
      SessionLost
<1>3. CASE People
  BY <1>3 DEF People, Arrive, Relabel, Delete, Expire, Tick
<1>4. CASE Age \/ OrphanEnds \/ UNCHANGED vars
  BY <1>4 DEF Age, OrphanEnds
<1>5. QED
  BY <1>1, <1>2, <1>3, <1>4 DEF Next

\* A message listed after a position stays listed after it, and a message that
\* a step makes owed is listed after every position.
LEMMA WindowGrows ==
  ASSUME TypeOK, [Next]_vars
  PROVE  /\ Len(log) <= Len(log')
         /\ \A i \in 1 .. Len(log) : log'[i] = log[i]
         /\ \A i \in Nat : i <= Len(log) =>
              /\ Window(i) \subseteq Window(i)'
              /\ \A n \in Msgs : Owed(n)' => Owed(n) \/ n \in Window(i)'
<1>1. /\ log' = log \/ \E n \in Msgs : log' = Append(log, n)
      /\ \A n \in Msgs : Owed(n)' => Owed(n) \/ log' = Append(log, n)
  BY JournalStep
<1>2. CASE log' = log
  <2>1. \A n : log' # Append(log, n)
    BY <1>2 DEF TypeOK, GmailTypes
  <2>2. \A i : Window(i)' = Window(i)
    BY <1>2 DEF Window
  <2>3. Len(log) \in Nat
    BY DEF TypeOK, GmailTypes
  <2>4. QED
    BY <1>1, <1>2, <2>1, <2>2, <2>3
<1>3. ASSUME NEW m \in Msgs, log' = Append(log, m)
      PROVE  /\ Len(log) <= Len(log')
             /\ \A i \in 1 .. Len(log) : log'[i] = log[i]
             /\ \A i \in Nat : i <= Len(log) =>
                  /\ Window(i) \subseteq Window(i)'
                  /\ \A n \in Msgs : Owed(n)' => Owed(n) \/ n \in Window(i)'
  <2>1. /\ Len(log') = Len(log) + 1
        /\ \A i \in 1 .. Len(log) : log'[i] = log[i]
        /\ \A i \in Nat : i <= Len(log) => Window(i)' = Window(i) \cup {m}
    BY <1>3, LogGrows DEF TypeOK
  <2>2. Len(log) \in Nat
    BY DEF TypeOK, GmailTypes
  <2>3. ASSUME NEW n \in Msgs, log' = Append(log, n) PROVE n = m
    <3>1. log'[Len(log) + 1] = m
      BY <1>3 DEF TypeOK, GmailTypes
    <3>2. log'[Len(log) + 1] = n
      BY <2>3 DEF TypeOK, GmailTypes
    <3>3. QED
      BY <3>1, <3>2
  <2>4. QED
    BY <1>1, <2>1, <2>2, <2>3
<1>4. QED
  BY <1>1, <1>2, <1>3

\* A run that works through a window was listing it or working before, and
\* drops a message only when it is recorded or no longer kept.
LEMMA HandsStep ==
  ASSUME IInv, [Next]_vars
  PROVE  \A q \in Runs :
           SessionAlive(q)' /\ Working(q)' /\ cmd'[q] = "sync" =>
             /\ SessionAlive(q) /\ cmd[q] = "sync"
             /\ target'[q] = target[q] /\ base' = base
             /\ \/ ListHistory(q) \/ Resync(q)
                \/ /\ Working(q)
                   /\ \A m \in todo[q] :
                        m \in todo'[q] \cup Recorded' \/ ~Kept(m)'
<1> DEFINE Hands ==
      \A q \in Runs :
        SessionAlive(q)' /\ Working(q)' /\ cmd'[q] = "sync" =>
          /\ SessionAlive(q) /\ cmd[q] = "sync"
          /\ target'[q] = target[q] /\ base' = base
          /\ \/ ListHistory(q) \/ Resync(q)
             \/ /\ Working(q)
                /\ \A m \in todo[q] :
                     m \in todo'[q] \cup Recorded' \/ ~Kept(m)'
<1> USE DEF vars, gmail, mailbox, rows, local, None, Nobody, OrphanIdle,
            OrphanBusy
<1>1. CASE Expire
  BY <1>1, RunsAssumption
  DEF Expire, IInv, TypeOK, LockTypes, RunTypes, SessionAlive, Working
<1>2. CASE Tick
  BY <1>2, RunsAssumption
  DEF Tick, IInv, TypeOK, LockTypes, RunTypes, SessionAlive, Working
<1>3. CASE Age
  BY <1>3, RunsAssumption
  DEF Age, IInv, TypeOK, LockTypes, RunTypes, SessionAlive, Working
<1>4. CASE OrphanEnds
  BY <1>4, RunsAssumption
  DEF OrphanEnds, IInv, TypeOK, LockTypes, RunTypes, SessionAlive, Working
<1>5. ASSUME NEW m \in Msgs, Delete(m) PROVE Hands
  BY <1>5, RunsAssumption
  DEF Delete, IInv, TypeOK, LockTypes, RunTypes, SessionAlive, Working
<1>6. ASSUME NEW m \in Msgs, NEW l \in Labels, Arrive(m, l) PROVE Hands
  BY <1>6, RunsAssumption
  DEF Arrive, IInv, TypeOK, LockTypes, RunTypes, SessionAlive, Working
<1>7. ASSUME NEW m \in Msgs, NEW l \in Labels, Relabel(m, l) PROVE Hands
  BY <1>7, RunsAssumption
  DEF Relabel, IInv, TypeOK, LockTypes, RunTypes, SessionAlive, Working
<1>8. ASSUME NEW r \in Runs, NEW c \in {"sync", "init", "backfill"},
      TryLock(r, c)
      PROVE Hands
  BY <1>8, RunsAssumption
  DEF TryLock, IInv, TypeOK, LockTypes, RunTypes, SessionAlive, Working
<1>9. ASSUME NEW r \in Runs, NEW m \in Msgs, Examine(r, m) PROVE Hands
  BY <1>9, RunsAssumption
  DEF Examine, IInv, Recorded, Kept, Lives, Excluded, TypeOK, LockTypes,
      RunTypes, SessionAlive, Working
<1>10. ASSUME NEW r \in Runs, TryLockLoses(r) PROVE Hands
  BY <1>10, RunsAssumption
  DEF TryLockLoses, IInv, TypeOK, LockTypes, RunTypes, SessionAlive, Working
<1>11. ASSUME NEW r \in Runs, ReadMailbox(r) PROVE Hands
  BY <1>11, RunsAssumption
  DEF ReadMailbox, IInv, TypeOK, LockTypes, RunTypes, SessionAlive, Working
<1>12. ASSUME NEW r \in Runs, Refused(r) PROVE Hands
  BY <1>12, RunsAssumption
  DEF Refused, End, Exit, IInv, TypeOK, LockTypes, RunTypes, SessionAlive,
      Working
<1>13. ASSUME NEW r \in Runs, ReadProfile(r) PROVE Hands
  BY <1>13, RunsAssumption
  DEF ReadProfile, IInv, TypeOK, LockTypes, RunTypes, SessionAlive, Working
<1>14. ASSUME NEW r \in Runs, Authorize(r) PROVE Hands
  BY <1>14, RunsAssumption
  DEF Authorize, End, Exit, IInv, TypeOK, LockTypes, RunTypes, SessionAlive,
      Working
<1>15. ASSUME NEW r \in Runs, ListHistory(r) PROVE Hands
  BY <1>15, RunsAssumption
  DEF ListHistory, List, IInv, TypeOK, LockTypes, RunTypes, SessionAlive,
      Working
<1>16. ASSUME NEW r \in Runs, Resync(r) PROVE Hands
  BY <1>16, RunsAssumption
  DEF Resync, List, IInv, TypeOK, LockTypes, RunTypes, SessionAlive, Working
<1>17. ASSUME NEW r \in Runs, SearchMail(r) PROVE Hands
  BY <1>17, RunsAssumption
  DEF SearchMail, List, IInv, TypeOK, LockTypes, RunTypes, SessionAlive,
      Working
<1>18. ASSUME NEW r \in Runs, Fetch(r) PROVE Hands
  BY <1>18, RunsAssumption
  DEF Fetch, IInv, Kept, Lives, Excluded, TypeOK, LockTypes, RunTypes,
      SessionAlive, Working
<1>19. ASSUME NEW r \in Runs, Record(r) PROVE Hands
  BY <1>19, RunsAssumption
  DEF Record, InsertRow, IInv, Recorded, TypeOK, LockTypes, RunTypes,
      SessionAlive, Working
<1>20. ASSUME NEW r \in Runs, Advance(r) PROVE Hands
  BY <1>20, RunsAssumption
  DEF Advance, End, Exit, IInv, TypeOK, LockTypes, RunTypes, SessionAlive,
      Working
<1>21. ASSUME NEW r \in Runs, FinishBackfill(r) PROVE Hands
  BY <1>21, RunsAssumption
  DEF FinishBackfill, End, Exit, IInv, TypeOK, LockTypes, RunTypes,
      SessionAlive, Working
<1>22. ASSUME NEW r \in Runs, SessionLost(r) PROVE Hands
  BY <1>22, RunsAssumption
  DEF SessionLost, End, Exit, IInv, TypeOK, LockTypes, RunTypes, SessionAlive,
      Working
<1>22a. ASSUME NEW r \in Runs, FetchRefused(r) PROVE Hands
  BY <1>22a, RunsAssumption
  DEF FetchRefused, End, Exit, IInv, TypeOK, LockTypes, RunTypes, SessionAlive,
      Working
<1>23. ASSUME NEW r \in Runs, Stops(r) PROVE Hands
  BY <1>23, RunsAssumption
  DEF Stops, End, Exit, IInv, TypeOK, LockTypes, RunTypes, SessionAlive,
      Working
<1>24. ASSUME NEW r \in Runs, Kill(r) PROVE Hands
  <2>1. CASE SessionAlive(r)
    BY <1>24, <2>1, RunsAssumption DEF Kill, Exit, SessionAlive
  <2>2. CASE ~SessionAlive(r)
    BY <1>24, <2>2
    DEF Kill, Exit, IInv, TypeOK, RunTypes, SessionAlive, Working
  <2>3. QED
    BY <2>1, <2>2
<1>25. ASSUME NEW r \in Runs, ConsentLost(r) PROVE Hands
  BY <1>25, RunsAssumption
  DEF ConsentLost, End, Exit, IInv, TypeOK, LockTypes, RunTypes, SessionAlive,
      Working
<1>26. CASE UNCHANGED vars
  BY <1>26, RunsAssumption
  DEF TypeOK, LockTypes, RunTypes, SessionAlive, Working
<1> HIDE DEF vars, gmail, mailbox, rows, local, None, Nobody, OrphanIdle,
             OrphanBusy
<1>27. QED
  BY <1>1, <1>2, <1>3, <1>4, <1>5, <1>6, <1>7, <1>8, <1>9, <1>10, <1>11,
     <1>12, <1>13, <1>14, <1>15, <1>16, <1>17, <1>18, <1>19, <1>20, <1>21,
     <1>22, <1>22a, <1>23, <1>24, <1>25, <1>26
  DEF Labels, Next, People, Start, Step,
     Faults

\* A message listed again is dated today, unless it is re-labelled late.
LEMMA DatesStep ==
  ASSUME TypeOK, MailboxInv, [Next]_vars
  PROVE  /\ clock <= clock'
         /\ \A n \in Msgs : n \notin late' =>
              /\ n \notin late
              /\ date'[n] >= date[n]
              /\ log' = Append(log, n) => date'[n] >= clock
<1> USE DEF vars, gmail, TypeOK, GmailTypes, MailboxInv
<1>1. ASSUME NEW m \in Msgs, NEW l \in Labels, Arrive(m, l)
      PROVE  /\ clock' = clock /\ late' = late
             /\ \A n \in Msgs : /\ date'[n] >= date[n]
                                /\ log' = Append(log, n) => date'[n] >= clock
  <2>1. \A n \in Msgs : log' = Append(log, n) => n = m
    <3>1. log'[Len(log) + 1] = m
      BY <1>1 DEF Arrive
    <3>2. \A n \in Msgs : log' = Append(log, n) => log'[Len(log) + 1] = n
      OBVIOUS
    <3>3. QED
      BY <3>1, <3>2
  <2>2. QED
    BY <1>1, <2>1 DEF Arrive
<1>2. ASSUME NEW m \in Msgs, NEW l \in Labels, Relabel(m, l), l = "inbox"
      PROVE  /\ clock' = clock /\ date' = date /\ late \subseteq late'
             /\ \A n \in Msgs : n \notin late' /\ log' = Append(log, n)
                                  => date[n] >= clock
  <2>1. \A n \in Msgs : log' = Append(log, n) => n = m
    <3>1. log'[Len(log) + 1] = m
      BY <1>2 DEF Relabel
    <3>2. \A n \in Msgs : log' = Append(log, n) => log'[Len(log) + 1] = n
      OBVIOUS
    <3>3. QED
      BY <3>1, <3>2
  <2>2. QED
    BY <1>2, <2>1 DEF Relabel
<1>3. ASSUME \/ \E m \in Msgs : Delete(m)
             \/ \E m \in Msgs, l \in Labels : Relabel(m, l) /\ l # "inbox"
             \/ Expire \/ Tick
             \/ Age \/ OrphanEnds \/ UNCHANGED vars
             \/ \E r \in Runs : Start(r) \/ Step(r) \/ Faults(r)
      PROVE  /\ clock <= clock' /\ date' = date /\ late' = late /\ log' = log
  <2>1. ASSUME NEW r \in Runs, Start(r) \/ Step(r) \/ Faults(r)
        PROVE  UNCHANGED <<clock, date, late, log>>
    BY <2>1
    DEF Start, Step, Faults, TryLock, TryLockLoses, Stops, Kill, ConsentLost,
        ReadMailbox, Refused, ReadProfile, Authorize, ListHistory, Resync,
        SearchMail, List, Examine, Fetch, FetchRefused, Record, Advance,
        FinishBackfill, SessionLost
  <2>2. CASE \E m \in Msgs : Delete(m)
    BY <2>2 DEF Delete
  <2>3. CASE \E m \in Msgs, l \in Labels : Relabel(m, l) /\ l # "inbox"
    BY <2>3 DEF Relabel
  <2>4. CASE Expire \/ Tick
    BY <2>4 DEF Expire, Tick
  <2>5. CASE Age \/ OrphanEnds \/ UNCHANGED vars
    BY <2>5 DEF Age, OrphanEnds
  <2>6. QED
    BY <1>3, <2>1, <2>2, <2>3, <2>4, <2>5
<1>4. \A n \in Msgs : log # Append(log, n)
  OBVIOUS
<1>5. CASE \E m \in Msgs, l \in Labels : Arrive(m, l)
  BY <1>1, <1>5
<1>6. CASE \E m \in Msgs, l \in Labels : Relabel(m, l) /\ l = "inbox"
  BY <1>2, <1>6
<1> HIDE DEF vars, MailboxInv
<1>7. QED
  BY <1>3, <1>4, <1>5, <1>6 DEF Next, People, Labels

\* No step makes the cursor pass a message that is owed.
LEMMA SkippedStep ==
  ASSUME IInv, [Next]_vars
  PROVE  NothingSkipped'
<1>1. CASE UNCHANGED <<cursor, base, synced>>
  <2> SUFFICES ASSUME cursor # None, NEW i \in (base + 1) .. cursor,
                      NEW n, n = log'[i], Owed(n)'
               PROVE  n \in Recorded' \/ n \in Window(cursor)'
    BY <1>1 DEF NothingSkipped, Owed, Kept, Excluded, Lives, Recorded, Window
  <2>1. cursor \in Nat /\ i \in 1 .. Len(log) /\ cursor <= Len(log)
    BY DEF IInv, TypeOK, TableTypes, GmailTypes, MailboxInv
  <2>2. n = log[i] /\ n \in Msgs
    BY <2>1, WindowGrows DEF IInv, TypeOK, GmailTypes
  <2>3. Recorded \subseteq Recorded'
    BY JournalStep DEF IInv
  <2>4. /\ Window(cursor) \subseteq Window(cursor)'
        /\ Owed(n) \/ n \in Window(cursor)'
    <3>1. ASSUME NEW c \in Nat, c <= Len(log), c = cursor
          PROVE  /\ Window(c) \subseteq Window(c)'
                 /\ Owed(n) \/ n \in Window(c)'
      BY <2>2, <3>1, WindowGrows DEF IInv
    <3>2. QED
      BY <1>1, <2>1, <3>1 DEF Window
  <2>5. Owed(n) => n \in Recorded \/ n \in Window(cursor)
    BY <2>2 DEF IInv, NothingSkipped
  <2>6. QED
    BY <2>3, <2>4, <2>5
<1>2. ASSUME NEW r \in Runs, Authorize(r), cursor = None
      PROVE  NothingSkipped'
  <2>1. cursor' = base' /\ cursor' \in Nat
    BY <1>2 DEF Authorize, Coalesce, IInv, TypeOK, RunTypes
  <2>2. \A b \in Nat : (b + 1) .. b = {}
    OBVIOUS
  <2>3. (base' + 1) .. cursor' = {}
    BY <2>1, <2>2
  <2>4. QED
    BY <2>3 DEF NothingSkipped
<1>3. ASSUME NEW r \in Runs, Authorize(r), cursor # None
      PROVE  NothingSkipped'
  BY <1>1, <1>3 DEF Authorize, Coalesce, IInv, MailboxInv
<1>4. ASSUME NEW r \in Runs, Advance(r)
      PROVE  NothingSkipped'
  <2>1. /\ cursor' = target[r] /\ base' = base /\ log' = log
        /\ todo[r] = {} /\ SessionAlive(r) /\ Working(r) /\ cmd[r] = "sync"
        /\ Recorded' = Recorded
        /\ \A n : Owed(n)' <=> Owed(n)
    BY <1>4
    DEF Advance, gmail, rows, Working, Recorded, Owed, Kept, Excluded, Lives
  <2>2. \A i \in (base + 1) .. target[r] :
          Owed(log[i]) => \/ log[i] \in Recorded
                          \/ log[i] \in Window(target[r])
    BY <2>1 DEF IInv, WindowInv
  <2>3. QED
    BY <2>1, <2>2 DEF NothingSkipped, Window
<1>5. QED
  BY <1>1, <1>2, <1>3, <1>4, CursorWriters

\* No step leaves pending mail dated before the resync baseline.
LEMMA ReachStep ==
  ASSUME IInv, [Next]_vars
  PROVE  ResyncReachesPending'
<1>1. CASE UNCHANGED <<cursor, base, synced>>
  <2> SUFFICES ASSUME cursor # None, NEW n \in Window(cursor)', n \notin late'
               PROVE  date'[n] >= synced - Overlap
    BY <1>1 DEF ResyncReachesPending
  <2>1. /\ cursor \in Nat /\ cursor <= Len(log) /\ synced \in Nat
        /\ synced <= clock /\ Overlap \in Nat /\ clock \in Nat
    BY TimeAssumption
    DEF IInv, TypeOK, TableTypes, GmailTypes, MailboxInv, None
  <2>2. CASE log' = log
    <3>1. n \in Window(cursor) /\ n \in Msgs
      BY <1>1, <2>1, <2>2 DEF Window, IInv, TypeOK, GmailTypes
    <3>2. date[n] \in Nat /\ date'[n] \in Nat
      BY <3>1, TypeStep DEF IInv, TypeOK, GmailTypes
    <3>3. n \notin late /\ date'[n] >= date[n]
      BY <3>1, DatesStep DEF IInv
    <3>4. date[n] >= synced - Overlap
      BY <3>1, <3>3 DEF IInv, ResyncReachesPending
    <3>5. QED
      BY <2>1, <3>2, <3>3, <3>4
  <2>3. ASSUME NEW m \in Msgs, log' = Append(log, m)
        PROVE  date'[n] >= synced - Overlap
    <3>1. n \in Window(cursor) \cup {m}
      BY <1>1, <2>1, <2>3, LogGrows DEF IInv, TypeOK, Window
    <3>2. n \in Msgs
      BY <2>1, <3>1 DEF Window, IInv, TypeOK, GmailTypes
    <3>3. date[n] \in Nat /\ date'[n] \in Nat
      BY <3>2, TypeStep DEF IInv, TypeOK, GmailTypes
    <3>4. CASE n = m
      BY <2>1, <2>3, <3>2, <3>3, <3>4, DatesStep DEF IInv
    <3>5. CASE n \in Window(cursor)
      <4>1. n \notin late /\ date'[n] >= date[n]
        BY <3>2, DatesStep DEF IInv
      <4>2. date[n] >= synced - Overlap
        BY <3>5, <4>1 DEF IInv, ResyncReachesPending
      <4>3. QED
        BY <2>1, <3>3, <4>1, <4>2
    <3>6. QED
      BY <3>1, <3>4, <3>5
  <2>4. QED
    BY <2>2, <2>3, JournalStep DEF IInv
<1>2. ASSUME NEW r \in Runs, Authorize(r), cursor = None
      PROVE  ResyncReachesPending'
  <2>1. /\ cursor' = target[r] /\ synced' = clock /\ log' = log
        /\ date' = date /\ late' = late
    BY <1>2 DEF Authorize, Coalesce, gmail, IInv, MailboxInv
  <2>2. /\ clock - started[r] <= MaxRun /\ started[r] <= clock
        /\ \A m \in Window(target[r]) : m \notin late => date[m] >= started[r]
    BY <1>2 DEF Authorize, IInv, WorkInv, HolderInv, Aimed
  <2>3. /\ clock \in Nat /\ started[r] \in Nat /\ target[r] \in Nat
        /\ date \in [Msgs -> Nat] /\ log \in Seq(Msgs)
    BY DEF IInv, TypeOK, RunTypes, GmailTypes
  <2>4. \A m \in Window(target[r]) : m \in Msgs /\ date[m] \in Nat
    BY <2>3 DEF Window
  <2>5. \A m \in Window(target[r]) : m \notin late => date[m] >= clock - Overlap
    BY <2>2, <2>3, <2>4, TimeAssumption
  <2>6. QED
    BY <2>1, <2>5 DEF ResyncReachesPending, Window
<1>3. ASSUME NEW r \in Runs, Authorize(r), cursor # None
      PROVE  ResyncReachesPending'
  BY <1>1, <1>3 DEF Authorize, Coalesce, IInv, MailboxInv
<1>4. ASSUME NEW r \in Runs, Advance(r)
      PROVE  ResyncReachesPending'
  <2>1. /\ cursor' = target[r] /\ synced' = clock /\ log' = log
        /\ date' = date /\ late' = late
    BY <1>4 DEF Advance, gmail
  <2>2. /\ clock - started[r] <= MaxRun /\ started[r] <= clock
        /\ \A m \in Window(target[r]) : m \notin late => date[m] >= started[r]
    BY <1>4 DEF Advance, IInv, HolderInv, Aimed
  <2>3. /\ clock \in Nat /\ started[r] \in Nat /\ target[r] \in Nat
        /\ date \in [Msgs -> Nat] /\ log \in Seq(Msgs)
    BY DEF IInv, TypeOK, RunTypes, GmailTypes
  <2>4. \A m \in Window(target[r]) : m \in Msgs /\ date[m] \in Nat
    BY <2>3 DEF Window
  <2>5. \A m \in Window(target[r]) : m \notin late => date[m] >= clock - Overlap
    BY <2>2, <2>3, <2>4, TimeAssumption
  <2>6. QED
    BY <2>1, <2>5 DEF ResyncReachesPending, Window
<1>5. QED
  BY <1>1, <1>2, <1>3, <1>4, CursorWriters

\* No step drops a message that is owed from the window in hand.
LEMMA WindowStep ==
  ASSUME IInv, [Next]_vars
  PROVE  WindowInv'
<1> SUFFICES ASSUME NEW q \in Runs,
                    SessionAlive(q)', Working(q)', cmd'[q] = "sync",
                    NEW i \in (base' + 1) .. target'[q],
                    NEW n, n = log'[i], Owed(n)'
             PROVE  \/ n \in Recorded' \/ n \in todo'[q]
                    \/ n \in Window(target[q])'
  BY DEF WindowInv, Owed, Kept, Excluded, Lives, Recorded, Window
<1>1. /\ SessionAlive(q) /\ cmd[q] = "sync"
      /\ target'[q] = target[q] /\ base' = base
      /\ \/ ListHistory(q) \/ Resync(q)
         \/ /\ Working(q)
            /\ \A m \in todo[q] : m \in todo'[q] \cup Recorded' \/ ~Kept(m)'
  BY HandsStep
<1>2. Aimed(q) /\ Informed(q)
  BY <1>1 DEF Working, Aimed, Informed, ListHistory, Resync
<1>3. /\ target[q] \in Nat /\ target[q] <= Len(log) /\ cursor # None
      /\ from[q] = cursor /\ since[q] = synced
      /\ cursor \in Nat /\ cursor <= target[q] /\ base \in Nat
  BY <1>1, <1>2 DEF IInv, HolderInv, TypeOK, RunTypes, TableTypes
<1>4. i \in (base + 1) .. target[q] /\ i \in 1 .. Len(log)
  BY <1>1, <1>3 DEF IInv, TypeOK, GmailTypes
<1>5. n = log[i] /\ n \in Msgs
  BY <1>4, WindowGrows DEF IInv, TypeOK, GmailTypes
<1>6. Recorded \subseteq Recorded'
  BY JournalStep DEF IInv
<1>7. CASE Working(q) /\ \A m \in todo[q] :
             m \in todo'[q] \cup Recorded' \/ ~Kept(m)'
  <2>1. /\ Window(target[q]) \subseteq Window(target[q])'
        /\ Owed(n) \/ n \in Window(target[q])'
    <3>1. ASSUME NEW c \in Nat, c <= Len(log), c = target[q]
          PROVE  /\ Window(c) \subseteq Window(c)'
                 /\ Owed(n) \/ n \in Window(c)'
      BY <1>5, <3>1, WindowGrows DEF IInv
    <3>2. QED
      BY <1>1, <1>3, <3>1 DEF Window
  <2>2. Owed(n) => \/ n \in Recorded \/ n \in todo[q] \/ n \in Window(target[q])
    BY <1>1, <1>4, <1>5, <1>7 DEF IInv, WindowInv
  <2>3. Kept(n)'
    BY DEF Owed
  <2>4. n \in todo[q] => n \in todo'[q] \/ n \in Recorded'
    BY <1>7, <2>3 DEF Kept, Excluded, Lives
  <2>5. QED
    BY <1>6, <2>1, <2>2, <2>4
<1>8. CASE ListHistory(q)
  <2>1. /\ log' = log /\ todo'[q] = Window(cursor)
        /\ Owed(n)
    BY <1>3, <1>8
    DEF ListHistory, List, gmail, IInv, TypeOK, RunTypes, Owed, Kept, Excluded,
        Lives
  <2>2. CASE i <= cursor
    <3>1. n \in Recorded \/ n \in Window(cursor)
      BY <1>3, <1>4, <1>5, <2>1, <2>2 DEF IInv, NothingSkipped
    <3>2. QED
      BY <1>6, <2>1, <3>1
  <2>3. CASE i > cursor
    <3>1. n \in Window(cursor)
      BY <1>3, <1>4, <1>5, <2>3 DEF Window
    <3>2. QED
      BY <2>1, <3>1
  <2>4. QED
    BY <1>3, <1>4, <2>2, <2>3
<1>9. CASE Resync(q)
  <2>1. /\ log' = log /\ label' = label /\ todo'[q] = DatedSince(synced)
        /\ Recorded' = Recorded
        /\ Owed(n) /\ n \notin late /\ label[n] # "trash" /\ Kept(n)
    BY <1>3, <1>9
    DEF Resync, List, gmail, rows, IInv, TypeOK, RunTypes, Owed, Kept,
        Excluded, Lives, Recorded
  <2>2. n \in Recorded \/ n \in Window(cursor)
    <3>1. CASE i <= cursor
      BY <1>3, <1>4, <1>5, <2>1, <3>1 DEF IInv, NothingSkipped
    <3>2. CASE i > cursor
      BY <1>3, <1>4, <1>5, <3>2 DEF Window
    <3>3. QED
      BY <1>3, <1>4, <3>1, <3>2
  <2>3. CASE n \in Window(cursor)
    <3>1. date[n] >= synced - Overlap
      BY <1>3, <2>1, <2>3 DEF IInv, ResyncReachesPending
    <3>2. n \in Listable
      BY <1>5, <2>1
      DEF Listable, Kept, Excluded, Lives, IInv, TypeOK, GmailTypes, Labels
    <3>3. QED
      BY <2>1, <3>1, <3>2 DEF DatedSince
  <2>4. QED
    BY <2>1, <2>2, <2>3
<1>10. QED
  BY <1>1, <1>7, <1>8, <1>9

-----------------------------------------------------------------------------
(* The theorems.                                                           *)

\* The invariant holds before the first run.
LEMMA InitIInv == Init => IInv
<1> SUFFICES ASSUME Init PROVE IInv
  OBVIOUS
<1> USE DEF Init, None, Nobody, OrphanIdle, OrphanBusy
<1>1. TypeOK
  <2>1. GmailTypes
    <3>1. log \in Seq(Msgs)
      OBVIOUS
    <3>2. label \in [Msgs -> Labels] /\ date \in [Msgs -> Nat]
      BY DEF Labels
    <3>3. floor \in Nat /\ clock \in Nat
      OBVIOUS
    <3>4. silent \subseteq Msgs /\ late \subseteq Msgs /\ resynced \in BOOLEAN
      OBVIOUS
    <3>5. QED
      BY <3>1, <3>2, <3>3, <3>4 DEF GmailTypes
  <2>2. TableTypes /\ LockTypes
    BY DEF TableTypes, LockTypes
  <2>3. RunTypes
    BY DEF RunTypes
  <2>4. QED
    BY <2>1, <2>2, <2>3 DEF TypeOK
<1>2. WorkInv /\ HolderInv /\ WindowInv
  BY RunsAssumption DEF WorkInv, HolderInv, WindowInv, SessionAlive
<1>3. MailboxInv
  BY RunsAssumption DEF MailboxInv
<1>4. NothingSkipped /\ ResyncReachesPending
  BY DEF NothingSkipped, ResyncReachesPending
<1>5. QED
  BY <1>1, <1>2, <1>3, <1>4 DEF IInv

\* IInv is an invariant: the inductive core of every safety theorem below.
THEOREM Inductive == Spec => []IInv
<1>1. IInv /\ [Next]_vars => IInv'
  BY TypeStep, MailboxStep, HolderStep, WindowStep, SkippedStep, ReachStep
  DEF IInv
<1>2. QED
  BY InitIInv, <1>1, PTL DEF Spec

\* Every variable keeps its type (the state of gmail_sync.py and of the tables
\* it writes).
THEOREM TypeCorrect == Spec => []TypeOK
<1>1. IInv => TypeOK
  BY DEF IInv
<1>2. QED
  BY Inductive, <1>1, PTL

\* No message Gmail listed is skipped by the stored cursor, whatever crashes,
\* overlaps, is taken over, is revoked or expires (advance_cursor is last).
THEOREM NothingIsSkipped == Spec => []NothingSkipped
<1>1. IInv => NothingSkipped
  BY DEF IInv
<1>2. QED
  BY Inductive, <1>1, PTL

\* last_synced_at - RESYNC_OVERLAP is always early enough for a resync.
THEOREM ResyncIsEarlyEnough == Spec => []ResyncReachesPending
<1>1. IInv => ResyncReachesPending
  BY DEF IInv
<1>2. QED
  BY Inductive, <1>1, PTL

\* No step moves comms.mailbox.history_id back or clears it.
THEOREM CursorNeverGoesBack == Spec => CursorOnlyMovesOn
<1>1. IInv /\ [Next]_vars => [cursor # None => cursor' >= cursor]_vars
  <2> SUFFICES ASSUME IInv, [Next]_vars, cursor # None
               PROVE  cursor' >= cursor
    OBVIOUS
  <2>1. cursor \in Nat
    BY DEF IInv, TypeOK, TableTypes
  <2>2. CASE UNCHANGED <<cursor, base, synced>>
    BY <2>1, <2>2
  <2>3. ASSUME NEW r \in Runs, Authorize(r)
        PROVE  cursor' >= cursor
    BY <2>1, <2>3 DEF Authorize, Coalesce
  <2>4. ASSUME NEW r \in Runs, Advance(r)
        PROVE  cursor' >= cursor
    BY <2>1, <2>4 DEF Advance, IInv, HolderInv, Aimed, TypeOK, RunTypes
  <2>5. QED
    BY <2>2, <2>3, <2>4, CursorWriters
<1>2. QED
  BY Inductive, <1>1, PTL DEF Spec, CursorOnlyMovesOn

\* Only Record writes rows, and Storage only gains objects.
LEMMA RowWriters ==
  ASSUME [Next]_vars
  PROVE  /\ objects \subseteq objects'
         /\ UNCHANGED rows \/ \E r \in Runs : Record(r)
<1> USE DEF vars
<1>1. ASSUME NEW r \in Runs, Start(r) \/ Faults(r)
      PROVE  UNCHANGED <<objects, rows>>
  BY <1>1 DEF Start, Faults, TryLock, TryLockLoses, Stops, Kill, ConsentLost
<1>2. ASSUME NEW r \in Runs, Step(r)
      PROVE  objects \subseteq objects' /\ (UNCHANGED rows \/ Record(r))
  BY <1>2
  DEF Step, ReadMailbox, Refused, ReadProfile, Authorize, ListHistory, Resync,
      SearchMail, List, Examine, Fetch, FetchRefused, Record, Advance,
      FinishBackfill, SessionLost
<1>3. CASE People
  BY <1>3 DEF People, Arrive, Relabel, Delete, Expire, Tick
<1>4. CASE Age \/ OrphanEnds \/ UNCHANGED vars
  BY <1>4 DEF Age, OrphanEnds
<1>5. QED
  BY <1>1, <1>2, <1>3, <1>4 DEF Next

\* Every eml_path names an object already in Storage: put_if_absent comes first.
THEOREM RowsNameObjects == Spec => []RowNamesObject
<1>1. Init => RowNamesObject
  BY DEF Init, RowNamesObject
<1>2. IInv /\ RowNamesObject /\ [Next]_vars => RowNamesObject'
  <2> SUFFICES ASSUME IInv, RowNamesObject, [Next]_vars
               PROVE  RowNamesObject'
    OBVIOUS
  <2>1. CASE UNCHANGED rows
    BY <2>1, RowWriters DEF rows, RowNamesObject
  <2>2. ASSUME NEW r \in Runs, Record(r)
        PROVE  RowNamesObject'
    <3>1. cur[r] \in objects \/ Kind[cur[r]] = "oversize"
      BY <2>2 DEF Record, IInv, WorkInv
    <3>2. named' \subseteq named \cup (IF Kind[cur[r]] = "oversize" THEN {}
                                                        ELSE {cur[r]})
      BY <2>2 DEF Record, InsertRow, rows
    <3>3. QED
      BY <3>1, <3>2, RowWriters DEF RowNamesObject
  <2>3. QED
    BY <2>1, <2>2, RowWriters
<1>3. QED
  BY <1>1, <1>2, Inductive, PTL DEF Spec
=============================================================================
