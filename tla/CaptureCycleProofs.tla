------------------------- MODULE CaptureCycleProofs -------------------------
(***************************************************************************)
(* Proofs about CaptureCycle, for every number of processes and messages   *)
(* and every bound.                                                        *)
(***************************************************************************)
EXTENDS CaptureCycle, TLAPS

-----------------------------------------------------------------------------
(* The invariants behind the properties.                                   *)

\* A cycle holds the lock or has lost its session.
HolderInv == \A p \in Procs : InCycle(p) => holder = p \/ p \in broken

\* A cycle that waits has an attempt left.
WaitInv == \A p \in Procs : pc[p] = "wait" => attempt[p] < Attempts

\* How old the mail can be that the follow-ups of a process missed: what its
\* running drive-file did not list came after the command began, and what a
\* process left unfiled came after its last drive-file began.
Missed(p) == stored \ (filed \cup batch[p])

FreshInv ==
  /\ \A m \in Mail \ stored : age[m] = 0
  /\ \A p \in Procs : pc[p] = "drive" =>
       \A m \in Missed(p) : age[m] <= spent[p]
  /\ \A p \in Procs : pc[p] = "quote" =>
       \A m \in stored \ filed : age[m] <= spent[p] + StageTimeout
  /\ \A p \in Procs : since[p] # None /\ since[p] < FollowupEvery =>
       \A m \in stored \ filed :
         age[m] <= since[p] + StageTimeout + StageTimeout

IInv == TypeOK /\ WaitInv /\ HolderInv /\ FreshInv

\* Every step keeps the types.
LEMMA TypeStep ==
  ASSUME TypeOK, WaitInv, [Next]_vars
  PROVE  (TypeOK /\ WaitInv)'
<1> USE DEF TypeOK, WaitInv, vars, mail, InStage, MaxAge, None,
           Nobody, Orphan
<1>1. CASE Tick
  <2>1. since' \in [Procs -> (0 .. FollowupEvery) \cup {None}]
    BY <1>1, TicksAssumption DEF Tick, Older
  <2>2. spent' \in [Procs -> 0 .. StageTimeout]
    BY <1>1, TicksAssumption DEF Tick
  <2>3. age' \in [Mail -> 0 .. MaxAge]
    BY <1>1, TicksAssumption DEF Tick, Older
  <2>4. QED
    BY <1>1, <2>1, <2>2, <2>3 DEF Tick
<1>2. CASE Defer
  BY <1>2, AttemptsAssumption, TicksAssumption, FaultsAssumption DEF Defer
<1>3. CASE OrphanEnds
  BY <1>3, AttemptsAssumption, TicksAssumption, FaultsAssumption DEF OrphanEnds
<1>4. ASSUME NEW m \in Mail, Arrive(m) PROVE (TypeOK /\ WaitInv)'
  BY <1>4, AttemptsAssumption, TicksAssumption, FaultsAssumption DEF Arrive
<1>5. ASSUME NEW p \in Procs, Boot(p) PROVE (TypeOK /\ WaitInv)'
  BY <1>5, AttemptsAssumption, TicksAssumption, FaultsAssumption DEF Boot
<1>6. ASSUME NEW p \in Procs, TakeJob(p) PROVE (TypeOK /\ WaitInv)'
  BY <1>6, AttemptsAssumption, TicksAssumption, FaultsAssumption DEF TakeJob
<1>7. ASSUME NEW p \in Procs, Acquire(p) PROVE (TypeOK /\ WaitInv)'
  BY <1>7, AttemptsAssumption, TicksAssumption, FaultsAssumption
  DEF Acquire, LockIsFree
<1>8. ASSUME NEW p \in Procs, Locked(p) PROVE (TypeOK /\ WaitInv)'
  BY <1>8, AttemptsAssumption, TicksAssumption, FaultsAssumption
  DEF Locked, Leave
<1>9. ASSUME NEW p \in Procs, LockFails(p) PROVE (TypeOK /\ WaitInv)'
  BY <1>9, AttemptsAssumption, TicksAssumption, FaultsAssumption
  DEF LockFails, Leave
<1>10. ASSUME NEW p \in Procs, CheckedGmail(p) PROVE (TypeOK /\ WaitInv)'
  BY <1>10, AttemptsAssumption, TicksAssumption, FaultsAssumption
  DEF CheckedGmail, New
<1>11. ASSUME NEW p \in Procs, Quiet(p) PROVE (TypeOK /\ WaitInv)'
  BY <1>11, AttemptsAssumption, TicksAssumption, FaultsAssumption
  DEF Quiet, Leave
<1>12. ASSUME NEW p \in Procs, Filed(p) PROVE (TypeOK /\ WaitInv)'
  BY <1>12, AttemptsAssumption, TicksAssumption, FaultsAssumption DEF Filed
<1>13. ASSUME NEW p \in Procs, ReadQuotes(p) PROVE (TypeOK /\ WaitInv)'
  BY <1>13, AttemptsAssumption, TicksAssumption, FaultsAssumption
  DEF ReadQuotes, Leave
<1>14. ASSUME NEW p \in Procs, Retry(p) PROVE (TypeOK /\ WaitInv)'
  BY <1>14, AttemptsAssumption, TicksAssumption, FaultsAssumption DEF Retry
<1>15. ASSUME NEW p \in Procs, QuotesFail(p) PROVE (TypeOK /\ WaitInv)'
  BY <1>15, AttemptsAssumption, TicksAssumption, FaultsAssumption
  DEF QuotesFail, Leave, Fault, Partly
<1>16. ASSUME NEW p \in Procs, StageFails(p) PROVE (TypeOK /\ WaitInv)'
  BY <1>16, AttemptsAssumption, TicksAssumption, FaultsAssumption
  DEF StageFails, MayRetry, Fault, Partly
<1>17. ASSUME NEW p \in Procs, CycleFails(p) PROVE (TypeOK /\ WaitInv)'
  BY <1>17, AttemptsAssumption, TicksAssumption, FaultsAssumption
  DEF CycleFails, Leave, Fault, Partly
<1>18. ASSUME NEW p \in Procs, Exit(p) PROVE (TypeOK /\ WaitInv)'
  BY <1>18, AttemptsAssumption, TicksAssumption, FaultsAssumption
  DEF Exit, Fault, Partly
<1>19. ASSUME NEW p \in Procs, SessionDies(p) PROVE (TypeOK /\ WaitInv)'
  BY <1>19, AttemptsAssumption, TicksAssumption, FaultsAssumption
  DEF SessionDies, Fault
<1>20. CASE UNCHANGED vars
  BY <1>20, AttemptsAssumption, TicksAssumption, FaultsAssumption
<1>21. QED
  BY <1>1, <1>2, <1>3, <1>4, <1>5, <1>6, <1>7, <1>8, <1>9, <1>10, <1>11,
     <1>12, <1>13, <1>14, <1>15, <1>16, <1>17, <1>18, <1>19, <1>20 DEF Next,
     Step, Failure

\* Every step keeps the lock with the cycles.
LEMMA HolderStep ==
  ASSUME TypeOK, HolderInv, [Next]_vars
  PROVE  HolderInv'
<1> USE DEF TypeOK, HolderInv, InCycle, InStage, vars, mail, Nobody, Orphan
<1>1. CASE Tick
  BY <1>1, ProcsAssumption DEF Tick
<1>2. CASE Defer
  BY <1>2, ProcsAssumption DEF Defer
<1>3. CASE OrphanEnds
  BY <1>3, ProcsAssumption DEF OrphanEnds
<1>4. ASSUME NEW m \in Mail, Arrive(m) PROVE HolderInv'
  BY <1>4, ProcsAssumption DEF Arrive
<1>5. ASSUME NEW p \in Procs, Boot(p) PROVE HolderInv'
  BY <1>5, ProcsAssumption DEF Boot
<1>6. ASSUME NEW p \in Procs, TakeJob(p) PROVE HolderInv'
  BY <1>6, ProcsAssumption DEF TakeJob
<1>7. ASSUME NEW p \in Procs, Acquire(p) PROVE HolderInv'
  BY <1>7, ProcsAssumption DEF Acquire, LockIsFree
<1>8. ASSUME NEW p \in Procs, Locked(p) PROVE HolderInv'
  BY <1>8, ProcsAssumption DEF Locked, Leave
<1>9. ASSUME NEW p \in Procs, LockFails(p) PROVE HolderInv'
  BY <1>9, ProcsAssumption DEF LockFails, Leave
<1>10. ASSUME NEW p \in Procs, CheckedGmail(p) PROVE HolderInv'
  BY <1>10, ProcsAssumption DEF CheckedGmail, New
<1>11. ASSUME NEW p \in Procs, Quiet(p) PROVE HolderInv'
  BY <1>11, ProcsAssumption DEF Quiet, Leave
<1>12. ASSUME NEW p \in Procs, Filed(p) PROVE HolderInv'
  BY <1>12, ProcsAssumption DEF Filed
<1>13. ASSUME NEW p \in Procs, ReadQuotes(p) PROVE HolderInv'
  BY <1>13, ProcsAssumption DEF ReadQuotes, Leave
<1>14. ASSUME NEW p \in Procs, Retry(p) PROVE HolderInv'
  BY <1>14, ProcsAssumption DEF Retry
<1>15. ASSUME NEW p \in Procs, QuotesFail(p) PROVE HolderInv'
  BY <1>15, ProcsAssumption DEF QuotesFail, Leave, Fault, Partly
<1>16. ASSUME NEW p \in Procs, StageFails(p) PROVE HolderInv'
  BY <1>16, ProcsAssumption DEF StageFails, MayRetry, Fault, Partly
<1>17. ASSUME NEW p \in Procs, CycleFails(p) PROVE HolderInv'
  BY <1>17, ProcsAssumption DEF CycleFails, Leave, Fault, Partly
<1>18. ASSUME NEW p \in Procs, Exit(p) PROVE HolderInv'
  BY <1>18, ProcsAssumption DEF Exit, Fault, Partly
<1>19. ASSUME NEW p \in Procs, SessionDies(p) PROVE HolderInv'
  BY <1>19, ProcsAssumption DEF SessionDies, Fault
<1>20. CASE UNCHANGED vars
  BY <1>20, ProcsAssumption
<1>21. QED
  BY <1>1, <1>2, <1>3, <1>4, <1>5, <1>6, <1>7, <1>8, <1>9, <1>10, <1>11,
     <1>12, <1>13, <1>14, <1>15, <1>16, <1>17, <1>18, <1>19, <1>20 DEF Next,
     Step, Failure

\* Every step keeps unfiled mail fresh.
LEMMA FreshStep ==
  ASSUME TypeOK, FreshInv, [Next]_vars
  PROVE  FreshInv'
<1> USE DEF TypeOK, FreshInv, Missed, vars, mail, InStage, MaxAge, None
<1>1. CASE Tick
  <2>1. ASSUME NEW m \in Mail
        PROVE  /\ age[m] \in Nat /\ age'[m] \in Nat
               /\ age'[m] <= age[m] + 1
               /\ m \notin stored => age'[m] = 0
    BY <1>1, TicksAssumption DEF Tick, Older
  <2>2. ASSUME NEW p \in Procs, pc[p] \in InStage
        PROVE  spent'[p] = spent[p] + 1
    BY <1>1, <2>2 DEF Tick
  <2>3. ASSUME NEW p \in Procs, since'[p] # None, since'[p] < FollowupEvery
        PROVE  since[p] # None /\ since'[p] = since[p] + 1
    BY <1>1, <2>3, TicksAssumption DEF Tick, Older
  <2>4. /\ stored' = stored /\ filed' = filed
        /\ pc' = pc /\ batch' = batch
    BY <1>1 DEF Tick
  <2>5. \A m \in Mail \ stored' : age'[m] = 0
    BY <2>1, <2>4
  <2>6. ASSUME NEW p \in Procs, pc'[p] = "drive", NEW m \in Missed(p)'
        PROVE  age'[m] <= spent'[p]
    BY <2>1, <2>2, <2>4, <2>6, TicksAssumption
  <2>7. ASSUME NEW p \in Procs, pc'[p] = "quote",
               NEW m \in stored' \ filed'
        PROVE  age'[m] <= spent'[p] + StageTimeout
    BY <2>1, <2>2, <2>4, <2>7, TicksAssumption
  <2>8. ASSUME NEW p \in Procs, since'[p] # None, since'[p] < FollowupEvery,
               NEW m \in stored' \ filed'
        PROVE  age'[m] <= since'[p] + StageTimeout + StageTimeout
    BY <2>1, <2>3, <2>4, <2>8, TicksAssumption
  <2>9. QED
    BY <2>5, <2>6, <2>7, <2>8
<1>2. CASE Defer
  BY <1>2, TicksAssumption DEF Defer
<1>3. CASE OrphanEnds
  BY <1>3, TicksAssumption DEF OrphanEnds
<1>4. ASSUME NEW m \in Mail, Arrive(m) PROVE FreshInv'
  BY <1>4, TicksAssumption DEF Arrive
<1>5. ASSUME NEW p \in Procs, Boot(p) PROVE FreshInv'
  BY <1>5, TicksAssumption DEF Boot
<1>6. ASSUME NEW p \in Procs, TakeJob(p) PROVE FreshInv'
  BY <1>6, TicksAssumption DEF TakeJob
<1>7. ASSUME NEW p \in Procs, Acquire(p) PROVE FreshInv'
  BY <1>7, TicksAssumption DEF Acquire, LockIsFree
<1>8. ASSUME NEW p \in Procs, Locked(p) PROVE FreshInv'
  BY <1>8, TicksAssumption DEF Locked, Leave
<1>9. ASSUME NEW p \in Procs, LockFails(p) PROVE FreshInv'
  BY <1>9, TicksAssumption DEF LockFails, Leave
<1>10. ASSUME NEW p \in Procs, CheckedGmail(p) PROVE FreshInv'
  BY <1>10, TicksAssumption DEF CheckedGmail, New
<1>11. ASSUME NEW p \in Procs, Quiet(p) PROVE FreshInv'
  BY <1>11, TicksAssumption DEF Quiet, Leave
<1>12. ASSUME NEW p \in Procs, Filed(p) PROVE FreshInv'
  BY <1>12, TicksAssumption DEF Filed
<1>13. ASSUME NEW p \in Procs, ReadQuotes(p) PROVE FreshInv'
  BY <1>13, TicksAssumption DEF ReadQuotes, Leave
<1>14. ASSUME NEW p \in Procs, Retry(p) PROVE FreshInv'
  BY <1>14, TicksAssumption DEF Retry
<1>15. ASSUME NEW p \in Procs, QuotesFail(p) PROVE FreshInv'
  BY <1>15, TicksAssumption DEF QuotesFail, Leave, Fault, Partly
<1>16. ASSUME NEW p \in Procs, StageFails(p) PROVE FreshInv'
  BY <1>16, TicksAssumption DEF StageFails, MayRetry, Fault, Partly
<1>17. ASSUME NEW p \in Procs, CycleFails(p) PROVE FreshInv'
  BY <1>17, TicksAssumption DEF CycleFails, Leave, Fault, Partly
<1>18. ASSUME NEW p \in Procs, Exit(p) PROVE FreshInv'
  BY <1>18, TicksAssumption DEF Exit, Fault, Partly
<1>19. ASSUME NEW p \in Procs, SessionDies(p) PROVE FreshInv'
  BY <1>19, TicksAssumption DEF SessionDies, Fault
<1>20. CASE UNCHANGED vars
  BY <1>20, TicksAssumption
<1>21. QED
  BY <1>1, <1>2, <1>3, <1>4, <1>5, <1>6, <1>7, <1>8, <1>9, <1>10, <1>11,
     <1>12, <1>13, <1>14, <1>15, <1>16, <1>17, <1>18, <1>19, <1>20 DEF Next,
     Step, Failure

-----------------------------------------------------------------------------
(* The theorems.                                                           *)

\* IInv, the conjunction behind the theorems below, is an invariant.
THEOREM Inductive == Spec => []IInv
<1>1. Init => IInv
  <2> SUFFICES ASSUME Init PROVE IInv
    OBVIOUS
  <2>1. TypeOK
    <3>1. /\ 0 \in 0 .. Attempts /\ 0 \in 0 .. StageTimeout
          /\ 0 \in 0 .. MaxAge /\ 0 \in 0 .. MaxFaults
      BY AttemptsAssumption, TicksAssumption, FaultsAssumption DEF MaxAge
    <3>2. /\ attempt \in [Procs -> 0 .. Attempts]
          /\ spent \in [Procs -> 0 .. StageTimeout]
          /\ age \in [Mail -> 0 .. MaxAge]
      BY <3>1 DEF Init
    <3>3. /\ pc \in [Procs -> {"down", "idle", "lock", "wait"} \cup InStage]
          /\ since \in [Procs -> (0 .. FollowupEvery) \cup {None}]
      BY DEF Init
    <3>4. batch \in [Procs -> SUBSET Mail]
      BY DEF Init
    <3>5. QED
      BY <3>1, <3>2, <3>3, <3>4 DEF Init, TypeOK
  <2>2. WaitInv /\ HolderInv
    BY DEF Init, WaitInv, HolderInv, InCycle, InStage
  <2>3. FreshInv
    BY DEF Init, FreshInv, Missed, None
  <2>4. QED
    BY <2>1, <2>2, <2>3 DEF IInv
<1>2. IInv /\ [Next]_vars => IInv'
  BY TypeStep, HolderStep, FreshStep DEF IInv
<1>3. QED
  BY <1>1, <1>2, PTL DEF Spec

\* Every variable keeps its type.
THEOREM TypeCorrect == Spec => []TypeOK
<1>1. IInv => TypeOK
  BY DEF IInv
<1>2. QED
  BY <1>1, Inductive, PTL

\* Cycles of two processes overlap only after a lost session.
THEOREM CyclesExclude == Spec => []OverlapNeedsLostSession
<1>1. IInv => OverlapNeedsLostSession
  BY DEF IInv, HolderInv, OverlapNeedsLostSession
<1>2. QED
  BY <1>1, Inductive, PTL

\* A quiet minute leaves only fresh mail unfiled.
THEOREM QuietIsFresh == Spec => QuietLeavesFreshMail
<1> DEFINE FreshAtQuiet == \A p \in Procs : Quiet(p) =>
             \A m \in stored \ filed : age[m] < MaxAge
<1>1. IInv => FreshAtQuiet
  <2> SUFFICES ASSUME IInv, NEW p \in Procs, Quiet(p),
                      NEW m \in stored \ filed
               PROVE  age[m] < MaxAge
    OBVIOUS
  <2>1. since[p] # None /\ since[p] < FollowupEvery
    BY TicksAssumption DEF Quiet, Due, IInv, TypeOK, None
  <2>2. age[m] <= since[p] + StageTimeout + StageTimeout
    BY <2>1 DEF IInv, FreshInv
  <2>3. m \in Mail /\ age[m] \in Nat /\ since[p] \in Nat
    BY <2>1, TicksAssumption DEF IInv, TypeOK, MaxAge
  <2>4. QED
    BY <2>1, <2>2, <2>3, TicksAssumption DEF MaxAge
<1>2. QED
  BY <1>1, Inductive, PTL DEF QuietLeavesFreshMail
=============================================================================
