--------------------------- MODULE TenderJobProofs ---------------------------
(***************************************************************************)
(* Proofs about TenderJob, for every number of preparations, workers and   *)
(* faults and every price.                                                 *)
(***************************************************************************)
EXTENDS TenderJob, FiniteSetTheorems, TLAPS

-----------------------------------------------------------------------------
(* The invariants behind the properties.                                   *)

\* Single flight: a worker with a live session runs the one running row, and
\* one that lost it has a row that is its own, running or recovered.
FlightInv ==
  /\ \A p, q \in Running : p = q
  /\ \A w \in Workers : Live(w) /\ pc[w] = "claim" => Running = {}
  /\ \A w \in Workers : Live(w) /\ Working(w) => Running = {doing[w]}
  /\ \A w \in Workers :
       Working(w) => status[doing[w]] \in {"running", "interrupted"}
  /\ \A v, w \in Workers : Working(v) /\ Working(w) /\ v # w
                             => doing[v] # doing[w]

\* What the history keeps of a running row's call is what its worker is at.
OpenOf(w) == IF pc[w] = "cleared" THEN Worst
             ELSE IF pc[w] = "calling" THEN cost[w] ELSE 0

OpenInv ==
  /\ \A w \in Workers : Working(w) /\ status[doing[w]] = "running"
                          => open[doing[w]] = OpenOf(w)
  /\ \A p \in Preps : status[p] \in {"none", "queued", "ready"} => open[p] = 0
  /\ \A w \in Workers :
       /\ Working(w) /\ PhaseOf[doing[w]] = "read" /\ step[w] > 0
            => doing[w] \in covered
       /\ pc[w] = "finish" /\ outcome[w] = "ready"
            /\ PhaseOf[doing[w]] = "read" => doing[w] \in covered
  /\ \A p \in Preps : status[p] = "ready" /\ PhaseOf[p] = "read" => p \in covered

\* What is billed, or may be by a call that is cleared, is recorded, but for
\* the call that the running row has open and the calls given up.
Committed == billed + Worst * Cardinality(Cleared)
MoneyInv ==
  /\ Committed <= Cap + leaked
  /\ Running = {} => Committed <= recorded + leaked
  /\ \A p \in Running : Committed <= recorded + leaked + open[p]

\* What a step does to the final statuses: nothing.
FinalKept == \A q \in Preps : status[q] \in Final => status'[q] = status[q]

IInv == TypeOK /\ FlightInv /\ OpenInv /\ MoneyInv

\* A place of a worker changes how many workers are cleared as it should.
LEMMA ClearedCounts ==
  ASSUME TypeOK, TypeOK'
  PROVE  /\ Cardinality(Cleared) \in Nat
         /\ Committed \in Nat /\ Committed' \in Int
         /\ Cleared' = Cleared /\ billed' = billed => Committed' = Committed
         /\ \A w \in Workers : pc[w] # "cleared" /\ billed' = billed
              /\ pc' = [pc EXCEPT ![w] = "cleared"]
                => Committed' = Committed + Worst
         /\ \A w \in Workers, place \in Places, price \in Nat :
              pc[w] = "cleared" /\ place # "cleared" /\ billed' = billed + price
              /\ pc' = [pc EXCEPT ![w] = place]
                => Committed' = Committed - Worst + price
<1>1. IsFiniteSet(Cleared) /\ IsFiniteSet(Cleared')
  <2>1. Cleared \subseteq Workers /\ Cleared' \subseteq Workers
    BY DEF Cleared
  <2>2. QED BY <2>1, FS_Subset, WorkerAssumption
<1>2. Cardinality(Cleared) \in Nat /\ Cardinality(Cleared') \in Nat
  BY <1>1, FS_CardinalityType
<1>3. billed \in Nat /\ billed' \in Nat /\ Worst \in Nat
  BY MoneyAssumption DEF TypeOK
<1>4. \A n \in Nat : Worst * n \in Nat /\ Worst * (n + 1) = Worst * n + Worst
  BY <1>3
<1>5. Committed \in Nat /\ Committed' \in Nat
  BY <1>2, <1>3, <1>4 DEF Committed
<1>6. Cleared' = Cleared /\ billed' = billed => Committed' = Committed
  BY DEF Committed
<1>7. ASSUME NEW w \in Workers, pc[w] # "cleared", billed' = billed,
             pc' = [pc EXCEPT ![w] = "cleared"]
      PROVE  Committed' = Committed + Worst
  <2>1. Cleared' = Cleared \cup {w} /\ w \notin Cleared
    BY <1>7 DEF Cleared, TypeOK
  <2>2. Cardinality(Cleared') = Cardinality(Cleared) + 1
    BY <2>1, <1>1, FS_AddElement
  <2>3. Worst * Cardinality(Cleared') = Worst * Cardinality(Cleared) + Worst
    BY <2>2, <1>2, <1>4
  <2>4. QED BY <2>3, <1>2, <1>3, <1>4, <1>7 DEF Committed
<1>8. ASSUME NEW w \in Workers, NEW place \in Places, NEW price \in Nat,
             pc[w] = "cleared", place # "cleared", billed' = billed + price,
             pc' = [pc EXCEPT ![w] = place]
      PROVE  Committed' = Committed - Worst + price
  <2>1. Cleared' = Cleared \ {w} /\ w \in Cleared
    BY <1>8 DEF Cleared, TypeOK
  <2>2. Cardinality(Cleared') = Cardinality(Cleared) - 1
    BY <2>1, <1>1, FS_RemoveElement
  <2>3. Worst * Cardinality(Cleared) = Worst * Cardinality(Cleared') + Worst
    <3>1. Cardinality(Cleared) = Cardinality(Cleared') + 1
      BY <2>2, <1>2
    <3>2. QED BY <3>1, <1>2, <1>4
  <2>4. QED BY <2>3, <1>2, <1>3, <1>4, <1>8 DEF Committed
<1>9. QED BY <1>2, <1>5, <1>6, <1>7, <1>8

\* What a recovery charges and gives up covers the call that was open.
LEMMA RecoverCharges ==
  ASSUME TypeOK, FlightInv, NEW w \in Workers, Recover(w)
  PROVE  /\ recorded' \in Nat /\ leaked' \in Nat
         /\ recorded' >= recorded /\ leaked' >= leaked
         /\ \A p \in Running : recorded' + leaked' >= recorded + leaked + open[p]
<1> DEFINE Given == {p \in Interrupted \ Uncharged : open[p] > 0}
<1>1. recorded \in Nat /\ leaked \in Nat /\ Worst \in Nat
      /\ (\A p \in Preps : open[p] \in 0..Worst)
  BY MoneyAssumption DEF TypeOK
<1>2. recorded' = recorded + Worst * Cardinality(Uncharged)
      /\ leaked' = leaked + Worst * Cardinality(Given)
  BY DEF Recover
<1>3. Running = {} \/ \E p \in Preps : Running = {p}
  BY DEF FlightInv, Running
<1>4. CASE Running = {}
  <2>1. Uncharged = {} /\ Given = {}
    BY <1>4 DEF Uncharged, Interrupted
  <2>2. Cardinality(Uncharged) = 0 /\ Cardinality(Given) = 0
    BY <2>1, FS_EmptySet
  <2>3. QED BY <2>2, <1>1, <1>2, <1>4
<1>5. ASSUME NEW p \in Preps, Running = {p}
      PROVE  /\ recorded' \in Nat /\ leaked' \in Nat
             /\ recorded' >= recorded /\ leaked' >= leaked
             /\ recorded' + leaked' >= recorded + leaked + open[p]
  <2>1. CASE p \notin covered
    <3>1. Uncharged = {p} /\ Given = {}
      BY <2>1, <1>5 DEF Uncharged, Interrupted
    <3>2. Cardinality(Uncharged) = 1 /\ Cardinality(Given) = 0
      BY <3>1, FS_EmptySet, FS_Singleton
    <3>3. QED BY <3>2, <1>1, <1>2
  <2>2. CASE p \in covered /\ open[p] > 0
    <3>1. Uncharged = {} /\ Given = {p}
      BY <2>2, <1>5 DEF Uncharged, Interrupted
    <3>2. Cardinality(Uncharged) = 0 /\ Cardinality(Given) = 1
      BY <3>1, FS_EmptySet, FS_Singleton
    <3>3. QED BY <3>2, <1>1, <1>2
  <2>3. CASE p \in covered /\ ~(open[p] > 0)
    <3>1. Uncharged = {} /\ Given = {}
      BY <2>3, <1>5 DEF Uncharged, Interrupted
    <3>2. Cardinality(Uncharged) = 0 /\ Cardinality(Given) = 0
      BY <3>1, FS_EmptySet
    <3>3. QED BY <3>2, <1>1, <1>2, <2>3
  <2>4. QED BY <2>1, <2>2, <2>3
<1>6. QED BY <1>3, <1>4, <1>5

LEMMA MoneyTypes ==
  ASSUME TypeOK, TypeOK'
  PROVE  /\ Committed \in Nat /\ Committed' \in Int
         /\ recorded \in Nat /\ leaked \in Nat /\ Cap \in Nat /\ Worst \in Nat
         /\ open \in [Preps -> Nat]
<1>1. Committed \in Nat /\ Committed' \in Int
  BY ClearedCounts
<1>2. recorded \in Nat /\ leaked \in Nat /\ Cap \in Nat /\ Worst \in Nat
  BY MoneyAssumption DEF TypeOK
<1>3. open \in [Preps -> Nat]
  BY MoneyAssumption DEF TypeOK
<1>4. QED BY <1>1, <1>2, <1>3

LEMMA Distinct ==
  ASSUME FlightInv, NEW u \in Workers, NEW v \in Workers,
         Working(u), Working(v), u # v
  PROVE  doing[u] # doing[v]
BY DEF FlightInv

\* A step that only moves workers on, or takes the lock, keeps the flight.
LEMMA FlightKept ==
  ASSUME FlightInv, status' = status, doing' = doing,
         \A v \in Workers : Working(v)' => Working(v),
         \A v \in Workers : pc'[v] = "claim" => pc[v] = "claim",
         \A v \in Workers : Live(v)' => Live(v)
                               \/ (pc'[v] # "claim" /\ ~Working(v)')
  PROVE  FlightInv'
<1>1. Running' = Running
  BY DEF Running
<1>2. \A u, v \in Workers : Working(u)' /\ Working(v)' /\ u # v
                             => doing'[u] # doing'[v]
  <2> SUFFICES ASSUME NEW u \in Workers, NEW v \in Workers,
                      Working(u)', Working(v)', u # v
               PROVE  doing[u] # doing[v]
    OBVIOUS
  <2>1. Working(u) /\ Working(v)
    OBVIOUS
  <2>2. QED BY <2>1 DEF FlightInv
<1>3. \A v \in Workers : Live(v)' /\ pc'[v] = "claim" => Running' = {}
  BY <1>1 DEF FlightInv
<1>4. \A v \in Workers : Live(v)' /\ Working(v)' => Running' = {doing'[v]}
  BY <1>1 DEF FlightInv
<1>5. \A v \in Workers :
         Working(v)' => status'[doing'[v]] \in {"running", "interrupted"}
  BY DEF FlightInv
<1>6. \A p, q \in Running' : p = q
  BY <1>1 DEF FlightInv
<1>7. QED BY <1>2, <1>3, <1>4, <1>5, <1>6 DEF FlightInv

LEMMA FlightMoves ==
  ASSUME TypeOK, FlightInv, NEW w \in Workers,
         TryLock(w) \/ Refused(w) \/ Send(w)
  PROVE  FlightInv'
<1> DEFINE Moves == <<pc[w], pc'[w]>>
<1> USE DEF TryLock, Refused, Send, Goto, CallFails, Ends
<1>1. status' = status /\ doing' = doing
  BY DEF rows, job
<1>2. \A v \in Workers : v # w => pc'[v] = pc[v]
  BY DEF TypeOK
<1>3. Moves \in {<<"idle", "recover">>, <<"cleared", "finish">>,
                <<"cleared", "calling">>}
  BY DEF TypeOK
<1>4. lock' = lock \/ (lock' = w /\ pc'[w] = "recover")
  BY DEF TypeOK
<1>5. \A v \in Workers : Working(v)' => Working(v)
  BY <1>2, <1>3 DEF Working
<1>6. \A v \in Workers : pc'[v] = "claim" => pc[v] = "claim"
  BY <1>2, <1>3
<1>7. \A v \in Workers : Live(v)' => Live(v)
                              \/ (pc'[v] # "claim" /\ ~Working(v)')
  BY <1>4 DEF Live, Working
<1>8. QED BY <1>1, <1>5, <1>6, <1>7, FlightKept

LEMMA AnyPrepIn == AnyPrep \in Preps
  BY PrepAssumption DEF AnyPrep

\* Every step keeps the types.
LEMMA TypeStep ==
  ASSUME TypeOK, FlightInv, [Next]_vars
  PROVE  TypeOK'
<1> USE MoneyAssumption, BoundAssumption, AnyPrepIn DEF TypeOK, Places, Final,
        rows, job, truth, Goto, Quit, Ends, CallFails, FinishRow, Usage, Fault
<1>1. ASSUME NEW p \in Preps, Ask(p) PROVE TypeOK'
  BY <1>1 DEF Ask
<1>2. ASSUME NEW w \in Workers, TryLock(w) PROVE TypeOK'
  BY <1>2 DEF TryLock, Live, WithinCap, Running
<1>3. ASSUME NEW w \in Workers, Recover(w) PROVE TypeOK'
  <2>1. recorded' \in Nat /\ leaked' \in Nat
    BY <1>3, RecoverCharges
  <2>2. QED
    BY <1>3, <2>1 DEF Recover, Uncharged, Interrupted, Running
<1>4. ASSUME NEW w \in Workers, Claim(w) PROVE TypeOK'
  BY <1>4 DEF Claim, Live, WithinCap, Running, MayClaim
<1>5. ASSUME NEW w \in Workers, EndSweep(w) PROVE TypeOK'
  BY <1>5 DEF EndSweep, Live, WithinCap, Running
<1>6. ASSUME NEW w \in Workers, Break(w) PROVE TypeOK'
  BY <1>6 DEF Break, Live, WithinCap, Running
<1>7. ASSUME NEW w \in Workers, Conclude(w) PROVE TypeOK'
  BY <1>7 DEF Conclude, Live, WithinCap, Running
<1>8. ASSUME NEW w \in Workers, Clear(w) PROVE TypeOK'
  BY <1>8 DEF Clear, Live, WithinCap, Running
<1>9. ASSUME NEW w \in Workers, StopAtCap(w) PROVE TypeOK'
  BY <1>9 DEF StopAtCap, Live, WithinCap, Running
<1>10. ASSUME NEW w \in Workers, Refused(w) PROVE TypeOK'
  <2>1. asked' \in Seq(Preps) /\ recorded' \in Nat /\ covered' \subseteq Preps
        /\ lock' \in Workers \cup {Nobody} /\ billed' \in Nat /\ leaked' \in Nat
    BY <1>10 DEF Refused
  <2>2. status' \in [Preps -> Final \cup {"none", "queued", "running"}]
    BY <1>10 DEF Refused, Running
  <2>3. pc' \in [Workers -> Places] /\ ran' \in [Workers -> 0..Limit]
    BY <1>10 DEF Refused
  <2>4. doing' \in [Workers -> Preps]
    BY <1>10 DEF Refused
  <2>8. step' \in [Workers -> Nat]
    <3>1. step \in [Workers -> Nat]
      OBVIOUS
    <3>2. step' = step \/ step' = [step EXCEPT ![w] = 0]
            \/ step' = [step EXCEPT ![w] = step[w] + 1]
      BY <1>10 DEF Refused
    <3>3. step[w] + 1 \in Nat
      BY <3>1
    <3>4. QED BY ONLY <3>1, <3>2, <3>3
  <2>5. cost' \in [Workers -> 0..Worst] /\ outcome' \in [Workers -> Final]
    BY <1>10 DEF Refused
  <2>6. open' \in [Preps -> 0..Worst] /\ faults' \in 0..MaxFaults
    BY <1>10 DEF Refused
  <2>9. QED BY <2>1, <2>2, <2>3, <2>4, <2>5, <2>6, <2>8
<1>11. ASSUME NEW w \in Workers, Send(w) PROVE TypeOK'
  <2>1. asked' \in Seq(Preps) /\ recorded' \in Nat /\ covered' \subseteq Preps
        /\ lock' \in Workers \cup {Nobody} /\ billed' \in Nat /\ leaked' \in Nat
    BY <1>11 DEF Send
  <2>2. status' \in [Preps -> Final \cup {"none", "queued", "running"}]
    BY <1>11 DEF Send, Running
  <2>3. pc' \in [Workers -> Places] /\ ran' \in [Workers -> 0..Limit]
    BY <1>11 DEF Send
  <2>4. doing' \in [Workers -> Preps]
    BY <1>11 DEF Send
  <2>8. step' \in [Workers -> Nat]
    <3>1. step \in [Workers -> Nat]
      OBVIOUS
    <3>2. step' = step \/ step' = [step EXCEPT ![w] = 0]
            \/ step' = [step EXCEPT ![w] = step[w] + 1]
      BY <1>11 DEF Send
    <3>3. step[w] + 1 \in Nat
      BY <3>1
    <3>4. QED BY ONLY <3>1, <3>2, <3>3
  <2>5. cost' \in [Workers -> 0..Worst] /\ outcome' \in [Workers -> Final]
    BY <1>11 DEF Send
  <2>6. open' \in [Preps -> 0..Worst] /\ faults' \in 0..MaxFaults
    BY <1>11 DEF Send
  <2>9. QED BY <2>1, <2>2, <2>3, <2>4, <2>5, <2>6, <2>8
<1>12. ASSUME NEW w \in Workers, Record(w) PROVE TypeOK'
  <2>1. asked' \in Seq(Preps) /\ recorded' \in Nat /\ covered' \subseteq Preps
        /\ lock' \in Workers \cup {Nobody} /\ billed' \in Nat /\ leaked' \in Nat
    BY <1>12 DEF Record
  <2>2. status' \in [Preps -> Final \cup {"none", "queued", "running"}]
    BY <1>12 DEF Record, Running
  <2>3. pc' \in [Workers -> Places] /\ ran' \in [Workers -> 0..Limit]
    BY <1>12 DEF Record
  <2>4. doing' \in [Workers -> Preps]
    BY <1>12 DEF Record
  <2>8. step' \in [Workers -> Nat]
    <3>1. step \in [Workers -> Nat]
      OBVIOUS
    <3>2. step' = step \/ step' = [step EXCEPT ![w] = 0]
            \/ step' = [step EXCEPT ![w] = step[w] + 1]
      BY <1>12 DEF Record
    <3>3. step[w] + 1 \in Nat
      BY <3>1
    <3>4. QED BY ONLY <3>1, <3>2, <3>3
  <2>5. cost' \in [Workers -> 0..Worst] /\ outcome' \in [Workers -> Final]
    BY <1>12 DEF Record
  <2>6. open' \in [Preps -> 0..Worst] /\ faults' \in 0..MaxFaults
    BY <1>12 DEF Record
  <2>9. QED BY <2>1, <2>2, <2>3, <2>4, <2>5, <2>6, <2>8
<1>13. ASSUME NEW w \in Workers, RecordBroken(w) PROVE TypeOK'
  <2>1. asked' \in Seq(Preps) /\ recorded' \in Nat /\ covered' \subseteq Preps
        /\ lock' \in Workers \cup {Nobody} /\ billed' \in Nat /\ leaked' \in Nat
    BY <1>13 DEF RecordBroken
  <2>2. status' \in [Preps -> Final \cup {"none", "queued", "running"}]
    BY <1>13 DEF RecordBroken, Running
  <2>3. pc' \in [Workers -> Places] /\ ran' \in [Workers -> 0..Limit]
    BY <1>13 DEF RecordBroken
  <2>4. doing' \in [Workers -> Preps]
    BY <1>13 DEF RecordBroken
  <2>8. step' \in [Workers -> Nat]
    <3>1. step \in [Workers -> Nat]
      OBVIOUS
    <3>2. step' = step \/ step' = [step EXCEPT ![w] = 0]
            \/ step' = [step EXCEPT ![w] = step[w] + 1]
      BY <1>13 DEF RecordBroken
    <3>3. step[w] + 1 \in Nat
      BY <3>1
    <3>4. QED BY ONLY <3>1, <3>2, <3>3
  <2>5. cost' \in [Workers -> 0..Worst] /\ outcome' \in [Workers -> Final]
    BY <1>13 DEF RecordBroken
  <2>6. open' \in [Preps -> 0..Worst] /\ faults' \in 0..MaxFaults
    BY <1>13 DEF RecordBroken
  <2>9. QED BY <2>1, <2>2, <2>3, <2>4, <2>5, <2>6, <2>8
<1>14. ASSUME NEW w \in Workers, RecordAfresh(w) PROVE TypeOK'
  <2>1. asked' \in Seq(Preps) /\ recorded' \in Nat /\ covered' \subseteq Preps
        /\ lock' \in Workers \cup {Nobody} /\ billed' \in Nat /\ leaked' \in Nat
    BY <1>14 DEF RecordAfresh
  <2>2. status' \in [Preps -> Final \cup {"none", "queued", "running"}]
    BY <1>14 DEF RecordAfresh, Running
  <2>3. pc' \in [Workers -> Places] /\ ran' \in [Workers -> 0..Limit]
    BY <1>14 DEF RecordAfresh
  <2>4. doing' \in [Workers -> Preps]
    BY <1>14 DEF RecordAfresh
  <2>8. step' \in [Workers -> Nat]
    <3>1. step \in [Workers -> Nat]
      OBVIOUS
    <3>2. step' = step \/ step' = [step EXCEPT ![w] = 0]
            \/ step' = [step EXCEPT ![w] = step[w] + 1]
      BY <1>14 DEF RecordAfresh
    <3>3. step[w] + 1 \in Nat
      BY <3>1
    <3>4. QED BY ONLY <3>1, <3>2, <3>3
  <2>5. cost' \in [Workers -> 0..Worst] /\ outcome' \in [Workers -> Final]
    BY <1>14 DEF RecordAfresh
  <2>6. open' \in [Preps -> 0..Worst] /\ faults' \in 0..MaxFaults
    BY <1>14 DEF RecordAfresh
  <2>9. QED BY <2>1, <2>2, <2>3, <2>4, <2>5, <2>6, <2>8
<1>15. ASSUME NEW w \in Workers, Finish(w) PROVE TypeOK'
  BY <1>15 DEF Finish, Live, WithinCap, Running
<1>16. ASSUME NEW w \in Workers, Stranded(w) PROVE TypeOK'
  <2>1. asked' \in Seq(Preps) /\ recorded' \in Nat /\ covered' \subseteq Preps
        /\ lock' \in Workers \cup {Nobody} /\ billed' \in Nat /\ leaked' \in Nat
    BY <1>16 DEF Stranded
  <2>2. status' \in [Preps -> Final \cup {"none", "queued", "running"}]
    BY <1>16 DEF Stranded, Running
  <2>3. pc' \in [Workers -> Places] /\ ran' \in [Workers -> 0..Limit]
    BY <1>16 DEF Stranded
  <2>4. doing' \in [Workers -> Preps]
    BY <1>16 DEF Stranded
  <2>8. step' \in [Workers -> Nat]
    <3>1. step \in [Workers -> Nat]
      OBVIOUS
    <3>2. step' = step \/ step' = [step EXCEPT ![w] = 0]
            \/ step' = [step EXCEPT ![w] = step[w] + 1]
      BY <1>16 DEF Stranded
    <3>3. step[w] + 1 \in Nat
      BY <3>1
    <3>4. QED BY ONLY <3>1, <3>2, <3>3
  <2>5. cost' \in [Workers -> 0..Worst] /\ outcome' \in [Workers -> Final]
    BY <1>16 DEF Stranded
  <2>6. open' \in [Preps -> 0..Worst] /\ faults' \in 0..MaxFaults
    BY <1>16 DEF Stranded
  <2>9. QED BY <2>1, <2>2, <2>3, <2>4, <2>5, <2>6, <2>8
<1>17. ASSUME NEW w \in Workers, SessionLost(w) PROVE TypeOK'
  BY <1>17 DEF SessionLost, Live, WithinCap, Running
<1>18. ASSUME NEW w \in Workers, Kill(w) PROVE TypeOK'
  <2>1. asked' \in Seq(Preps) /\ recorded' \in Nat /\ covered' \subseteq Preps
        /\ lock' \in Workers \cup {Nobody} /\ billed' \in Nat /\ leaked' \in Nat
    BY <1>18 DEF Kill
  <2>2. status' \in [Preps -> Final \cup {"none", "queued", "running"}]
    BY <1>18 DEF Kill, Running
  <2>3. pc' \in [Workers -> Places] /\ ran' \in [Workers -> 0..Limit]
    BY <1>18 DEF Kill
  <2>4. doing' \in [Workers -> Preps]
    BY <1>18 DEF Kill
  <2>8. step' \in [Workers -> Nat]
    <3>1. step \in [Workers -> Nat]
      OBVIOUS
    <3>2. step' = step \/ step' = [step EXCEPT ![w] = 0]
            \/ step' = [step EXCEPT ![w] = step[w] + 1]
      BY <1>18 DEF Kill
    <3>3. step[w] + 1 \in Nat
      BY <3>1
    <3>4. QED BY ONLY <3>1, <3>2, <3>3
  <2>5. cost' \in [Workers -> 0..Worst] /\ outcome' \in [Workers -> Final]
    BY <1>18 DEF Kill
  <2>6. open' \in [Preps -> 0..Worst] /\ faults' \in 0..MaxFaults
    BY <1>18 DEF Kill
  <2>9. QED BY <2>1, <2>2, <2>3, <2>4, <2>5, <2>6, <2>8
<1>19. CASE UNCHANGED vars
  BY <1>19 DEF vars, rows, job, truth
<1>20. QED
  BY <1>1, <1>2, <1>3, <1>4, <1>5, <1>6, <1>7, <1>8, <1>9, <1>10,
     <1>11, <1>12, <1>13, <1>14, <1>15, <1>16, <1>17, <1>18, <1>19 DEF Next, Sweep

\* Every step keeps the flight single.
LEMMA FlightStep ==
  ASSUME TypeOK, TypeOK', FlightInv, [Next]_vars
  PROVE  FlightInv'
<1> USE WorkerAssumption DEF FlightInv, TypeOK, Running, Live, Working, Final,
        Places, rows, job, truth, Goto, Quit, Ends, CallFails, FinishRow, Usage, Fault
<1>1. ASSUME NEW p \in Preps, Ask(p) PROVE FlightInv'
  BY <1>1 DEF Ask
<1>2. ASSUME NEW w \in Workers, TryLock(w) PROVE FlightInv'
  BY <1>2, FlightMoves
<1>3. ASSUME NEW w \in Workers, Recover(w) PROVE FlightInv'
  BY <1>3 DEF Recover, Uncharged, Interrupted
<1>4. ASSUME NEW w \in Workers, Claim(w) PROVE FlightInv'
  <2> PICK p \in Preps : /\ IsOldest(p) /\ status' = [status EXCEPT ![p] = "running"]
                         /\ doing' = [doing EXCEPT ![w] = p]
    BY <1>4 DEF Claim
  <2>1. status[p] = "queued"
    BY DEF IsOldest
  <2>2. Running = {} /\ Running' = {p}
    BY <1>4, <2>1 DEF Claim
  <2>3. \A v \in Workers : v # w => pc'[v] = pc[v] /\ doing'[v] = doing[v]
    BY <1>4 DEF Claim
  <2>4. pc'[w] = "work" /\ doing'[w] = p /\ lock' = w /\ lock = w
    BY <1>4 DEF Claim
  <2>5. \A v \in Workers : Working(v) => doing[v] # p
    BY <2>1
  <2>12. \A v \in Workers : doing[v] # p => status'[doing[v]] = status[doing[v]]
    OBVIOUS
  <2>13. \A v \in Workers : v # w /\ Working(v)' => Working(v)
    BY <2>3
  <2>6. \A a, b \in Running' : a = b
    BY <2>1, <2>2, <2>3, <2>4, <2>5, <2>12, <2>13
  <2>7. \A v \in Workers : Live(v)' /\ pc'[v] = "claim" => Running' = {}
    BY <2>1, <2>2, <2>3, <2>4, <2>5, <2>12, <2>13
  <2>8. \A v \in Workers : Live(v)' /\ Working(v)' => Running' = {doing'[v]}
    BY <2>1, <2>2, <2>3, <2>4, <2>5, <2>12, <2>13
  <2>9. \A v \in Workers :
          Working(v)' => status'[doing'[v]] \in {"running", "interrupted"}
    <3> SUFFICES ASSUME NEW v \in Workers, Working(v)'
                 PROVE  status'[doing'[v]] \in {"running", "interrupted"}
      OBVIOUS
    <3>1. CASE v = w
      BY <3>1, <2>2, <2>4
    <3>2. CASE v # w
      <4>1. Working(v) /\ doing'[v] = doing[v]
        BY <3>2, <2>3, <2>13
      <4>2. status'[doing[v]] = status[doing[v]]
        BY <4>1, <2>5, <2>12
      <4>3. QED BY <4>1, <4>2
    <3>3. QED BY <3>1, <3>2
  <2>10. \A u, v \in Workers : Working(u)' /\ Working(v)' /\ u # v
                             => doing'[u] # doing'[v]
    <3> SUFFICES ASSUME NEW u \in Workers, NEW v \in Workers, Working(u)', Working(v)', u # v
                 PROVE  doing'[u] # doing'[v]
      OBVIOUS
    <3>1. CASE u = w
      <4>1. Working(v) /\ doing'[v] = doing[v] /\ doing'[u] = p
        BY <3>1, <2>3, <2>4, <2>13
      <4>2. QED BY <4>1, <2>5
    <3>2. CASE v = w
      <4>1. Working(u) /\ doing'[u] = doing[u] /\ doing'[v] = p
        BY <3>2, <2>3, <2>4, <2>13
      <4>2. QED BY <4>1, <2>5
    <3>3. CASE u # w /\ v # w
      <4>1. Working(u) /\ Working(v) /\ doing'[u] = doing[u] /\ doing'[v] = doing[v]
        BY <3>3, <2>3, <2>13
      <4> HIDE DEF FlightInv, Working, TypeOK
      <4>3. doing[u] # doing[v]
        BY <3>3, <4>1, Distinct
      <4>2. QED BY <4>1, <4>3
    <3>4. QED BY <3>1, <3>2, <3>3
  <2>11. QED BY <2>6, <2>7, <2>8, <2>9, <2>10
<1>5. ASSUME NEW w \in Workers, EndSweep(w) PROVE FlightInv'
  BY <1>5 DEF EndSweep
<1>6. ASSUME NEW w \in Workers, Break(w) PROVE FlightInv'
  BY <1>6 DEF Break
<1>7. ASSUME NEW w \in Workers, Conclude(w) PROVE FlightInv'
  BY <1>7 DEF Conclude
<1>8. ASSUME NEW w \in Workers, Clear(w) PROVE FlightInv'
  BY <1>8 DEF Clear
<1>9. ASSUME NEW w \in Workers, StopAtCap(w) PROVE FlightInv'
  BY <1>9 DEF StopAtCap
<1>10. ASSUME NEW w \in Workers, Refused(w) PROVE FlightInv'
  BY <1>10, FlightMoves
<1>11. ASSUME NEW w \in Workers, Send(w) PROVE FlightInv'
  BY <1>11, FlightMoves
<1>12. ASSUME NEW w \in Workers, Record(w) PROVE FlightInv'
  BY <1>12 DEF Record
<1>13. ASSUME NEW w \in Workers, RecordBroken(w) PROVE FlightInv'
  BY <1>13 DEF RecordBroken
<1>14. ASSUME NEW w \in Workers, RecordAfresh(w) PROVE FlightInv'
  BY <1>14 DEF RecordAfresh
<1>15. ASSUME NEW w \in Workers, Finish(w) PROVE FlightInv'
  BY <1>15 DEF Finish
<1>16. ASSUME NEW w \in Workers, Stranded(w) PROVE FlightInv'
  BY <1>16 DEF Stranded
<1>17. ASSUME NEW w \in Workers, SessionLost(w) PROVE FlightInv'
  BY <1>17 DEF SessionLost
<1>18. ASSUME NEW w \in Workers, Kill(w) PROVE FlightInv'
  BY <1>18 DEF Kill
<1>19. CASE UNCHANGED vars
  BY <1>19 DEF vars, rows, job, truth
<1>20. QED
  BY <1>1, <1>2, <1>3, <1>4, <1>5, <1>6, <1>7, <1>8, <1>9, <1>10,
     <1>11, <1>12, <1>13, <1>14, <1>15, <1>16, <1>17, <1>18, <1>19 DEF Next, Sweep

\* Every step keeps what is known of the open calls.
LEMMA OpenStep ==
  ASSUME TypeOK, TypeOK', FlightInv, OpenInv, [Next]_vars
  PROVE  OpenInv'
<1> USE MoneyAssumption DEF FlightInv, OpenInv, OpenOf, TypeOK, Running, Live, Working,
        Final, Places, rows, job, truth, Goto, Quit, Ends, CallFails, FinishRow, Usage, Fault
<1>1. ASSUME NEW p \in Preps, Ask(p) PROVE OpenInv'
  BY <1>1 DEF Ask
<1>2. ASSUME NEW w \in Workers, TryLock(w) PROVE OpenInv'
  BY <1>2 DEF TryLock, IsOptional
<1>3. ASSUME NEW w \in Workers, Recover(w) PROVE OpenInv'
  BY <1>3 DEF Recover, Uncharged, Interrupted
<1>4. ASSUME NEW w \in Workers, Claim(w) PROVE OpenInv'
  <2>1. \A v \in Workers : Working(v)' /\ status'[doing'[v]] = "running"
          => open'[doing'[v]] = OpenOf(v)'
    <3> PICK p \in Preps : /\ IsOldest(p) /\ status' = [status EXCEPT ![p] = "running"]
                           /\ doing' = [doing EXCEPT ![w] = p]
      BY <1>4 DEF Claim
    <3>1. status[p] = "queued" /\ open'[p] = 0 /\ open' = open
      BY <1>4 DEF Claim, IsOldest, MayClaim
    <3>2. pc' = [pc EXCEPT ![w] = "work"] /\ cost' = cost
      BY <1>4 DEF Claim
    <3>6. doing[w] \in Preps /\ doing'[w] = p
      BY <1>4 DEF Claim
    <3> SUFFICES ASSUME NEW v \in Workers, Working(v)', status'[doing'[v]] = "running"
                 PROVE  open'[doing'[v]] = OpenOf(v)'
      OBVIOUS
    <3>3. CASE v = w
      BY <3>3, <3>1, <3>2, <3>6
    <3>4. CASE v # w
      <4>1. doing'[v] = doing[v] /\ doing[v] # p /\ Working(v)
        <5>1. doing'[v] = doing[v] /\ pc'[v] = pc[v]
          BY <3>4, <1>4 DEF Claim
        <5>2. QED BY <5>1, <3>1
      <4>2. status[doing[v]] = "running"
        BY <4>1
      <4>3. OpenOf(v)' = OpenOf(v)
        BY <3>4, <3>2
      <4>5. open[doing[v]] = OpenOf(v)
        BY <4>1, <4>2
      <4> HIDE DEF OpenInv, OpenOf, FlightInv, Working
      <4>4. QED BY <4>1, <4>5, <4>3, <3>1
    <3>5. QED BY <3>3, <3>4
  <2>2. \A p \in Preps : status'[p] \in {"none", "queued", "ready"} => open'[p] = 0
    BY <1>4 DEF Claim, IsOldest
  <2>3. \A v \in Workers :
          Working(v)' /\ PhaseOf[doing'[v]] = "read" /\ step'[v] > 0
            => doing'[v] \in covered'
    BY <1>4 DEF Claim, IsOldest
  <2>4. \A v \in Workers :
          pc'[v] = "finish" /\ outcome'[v] = "ready" /\ PhaseOf[doing'[v]] = "read"
            => doing'[v] \in covered'
    BY <1>4 DEF Claim, IsOldest
  <2>5. \A p \in Preps : status'[p] = "ready" /\ PhaseOf[p] = "read" => p \in covered'
    BY <1>4 DEF Claim, IsOldest
  <2>6. QED BY <2>1, <2>2, <2>3, <2>4, <2>5
<1>5. ASSUME NEW w \in Workers, EndSweep(w) PROVE OpenInv'
  BY <1>5 DEF EndSweep, IsOptional
<1>6. ASSUME NEW w \in Workers, Break(w) PROVE OpenInv'
  BY <1>6 DEF Break, IsOptional
<1>7. ASSUME NEW w \in Workers, Conclude(w) PROVE OpenInv'
  BY <1>7 DEF Conclude, IsOptional
<1>8. ASSUME NEW w \in Workers, Clear(w) PROVE OpenInv'
  BY <1>8 DEF Clear, IsOptional
<1>9. ASSUME NEW w \in Workers, StopAtCap(w) PROVE OpenInv'
  BY <1>9 DEF StopAtCap, IsOptional
<1>10. ASSUME NEW w \in Workers, Refused(w) PROVE OpenInv'
  <2>7. status[doing[w]] \in {"running", "interrupted"} \/ ~Working(w)
    OBVIOUS
  <2>8. \A v \in Workers : v # w => pc'[v] = pc[v] /\ cost'[v] = cost[v]
                                 /\ doing'[v] = doing[v]
    BY <1>10 DEF Refused
  <2>1. \A v \in Workers : Working(v)' /\ status'[doing'[v]] = "running"
          => open'[doing'[v]] = OpenOf(v)'
    BY <1>10, <2>7, <2>8 DEF Refused, IsOptional
  <2>2. \A p \in Preps : status'[p] \in {"none", "queued", "ready"} => open'[p] = 0
    BY <1>10, <2>7, <2>8 DEF Refused, IsOptional
  <2>3. \A v \in Workers :
          Working(v)' /\ PhaseOf[doing'[v]] = "read" /\ step'[v] > 0
            => doing'[v] \in covered'
    BY <1>10, <2>7, <2>8 DEF Refused, IsOptional
  <2>4. \A v \in Workers :
          pc'[v] = "finish" /\ outcome'[v] = "ready" /\ PhaseOf[doing'[v]] = "read"
            => doing'[v] \in covered'
    BY <1>10, <2>7, <2>8 DEF Refused, IsOptional
  <2>5. \A p \in Preps : status'[p] = "ready" /\ PhaseOf[p] = "read" => p \in covered'
    BY <1>10, <2>7, <2>8 DEF Refused, IsOptional
  <2>6. QED BY <2>1, <2>2, <2>3, <2>4, <2>5
<1>11. ASSUME NEW w \in Workers, Send(w) PROVE OpenInv'
  <2>7. status[doing[w]] \in {"running", "interrupted"} \/ ~Working(w)
    OBVIOUS
  <2>8. \A v \in Workers : v # w => pc'[v] = pc[v] /\ cost'[v] = cost[v]
                                 /\ doing'[v] = doing[v]
    BY <1>11 DEF Send
  <2>1. \A v \in Workers : Working(v)' /\ status'[doing'[v]] = "running"
          => open'[doing'[v]] = OpenOf(v)'
    <3> PICK price \in 1..Worst : cost' = [cost EXCEPT ![w] = price]
                 /\ open' = [open EXCEPT ![doing[w]] = price]
      BY <1>11 DEF Send
    <3>1. pc[w] = "cleared" /\ pc'[w] = "calling" /\ status' = status /\ doing' = doing
      BY <1>11 DEF Send
    <3> SUFFICES ASSUME NEW v \in Workers, Working(v)', status'[doing'[v]] = "running"
                 PROVE  open'[doing'[v]] = OpenOf(v)'
      OBVIOUS
    <3>2. CASE v = w
      BY <3>2, <3>1
    <3>3. CASE v # w
      <4>1. Working(v) /\ Working(w)
        BY <3>3, <3>1, <2>8
      <4>2. OpenOf(v)' = OpenOf(v)
        BY <3>3, <2>8
      <4>3. open[doing[v]] = OpenOf(v)
        BY <4>1, <3>1
      <4>4. doing[v] \in Preps /\ doing[w] \in Preps /\ open \in [Preps -> 0..Worst]
        OBVIOUS
      <4> HIDE DEF OpenInv, OpenOf, FlightInv, Working, TypeOK
      <4>5. doing[v] # doing[w]
        BY <3>3, <4>1, Distinct
      <4>6. QED BY <4>2, <4>3, <4>4, <4>5, <3>1
    <3>4. QED BY <3>2, <3>3
  <2>2. \A p \in Preps : status'[p] \in {"none", "queued", "ready"} => open'[p] = 0
    <3>1. status' = status /\ \A p \in Preps : p # doing[w] => open'[p] = open[p]
      BY <1>11 DEF Send
    <3>2. Working(w)
      BY <1>11 DEF Send
    <3>3. QED BY <3>1, <3>2, <2>7
  <2>3. \A v \in Workers :
          Working(v)' /\ PhaseOf[doing'[v]] = "read" /\ step'[v] > 0
            => doing'[v] \in covered'
    BY <1>11, <2>7, <2>8 DEF Send, IsOptional
  <2>4. \A v \in Workers :
          pc'[v] = "finish" /\ outcome'[v] = "ready" /\ PhaseOf[doing'[v]] = "read"
            => doing'[v] \in covered'
    BY <1>11, <2>7, <2>8 DEF Send, IsOptional
  <2>5. \A p \in Preps : status'[p] = "ready" /\ PhaseOf[p] = "read" => p \in covered'
    BY <1>11, <2>7, <2>8 DEF Send, IsOptional
  <2>6. QED BY <2>1, <2>2, <2>3, <2>4, <2>5
<1>12. ASSUME NEW w \in Workers, Record(w) PROVE OpenInv'
  <2>7. status[doing[w]] \in {"running", "interrupted"} \/ ~Working(w)
    OBVIOUS
  <2>8. \A v \in Workers : v # w => pc'[v] = pc[v] /\ cost'[v] = cost[v]
                                 /\ doing'[v] = doing[v]
    BY <1>12 DEF Record
  <2>1. \A v \in Workers : Working(v)' /\ status'[doing'[v]] = "running"
          => open'[doing'[v]] = OpenOf(v)'
    BY <1>12, <2>7, <2>8 DEF Record, IsOptional
  <2>2. \A p \in Preps : status'[p] \in {"none", "queued", "ready"} => open'[p] = 0
    BY <1>12, <2>7, <2>8 DEF Record, IsOptional
  <2>3. \A v \in Workers :
          Working(v)' /\ PhaseOf[doing'[v]] = "read" /\ step'[v] > 0
            => doing'[v] \in covered'
    BY <1>12, <2>7, <2>8 DEF Record, IsOptional
  <2>4. \A v \in Workers :
          pc'[v] = "finish" /\ outcome'[v] = "ready" /\ PhaseOf[doing'[v]] = "read"
            => doing'[v] \in covered'
    BY <1>12, <2>7, <2>8 DEF Record, IsOptional
  <2>5. \A p \in Preps : status'[p] = "ready" /\ PhaseOf[p] = "read" => p \in covered'
    BY <1>12, <2>7, <2>8 DEF Record, IsOptional
  <2>6. QED BY <2>1, <2>2, <2>3, <2>4, <2>5
<1>13. ASSUME NEW w \in Workers, RecordBroken(w) PROVE OpenInv'
  <2>7. status[doing[w]] \in {"running", "interrupted"} \/ ~Working(w)
    OBVIOUS
  <2>8. \A v \in Workers : v # w => pc'[v] = pc[v] /\ cost'[v] = cost[v]
                                 /\ doing'[v] = doing[v]
    BY <1>13 DEF RecordBroken
  <2>1. \A v \in Workers : Working(v)' /\ status'[doing'[v]] = "running"
          => open'[doing'[v]] = OpenOf(v)'
    BY <1>13, <2>7, <2>8 DEF RecordBroken, IsOptional
  <2>2. \A p \in Preps : status'[p] \in {"none", "queued", "ready"} => open'[p] = 0
    BY <1>13, <2>7, <2>8 DEF RecordBroken, IsOptional
  <2>3. \A v \in Workers :
          Working(v)' /\ PhaseOf[doing'[v]] = "read" /\ step'[v] > 0
            => doing'[v] \in covered'
    BY <1>13, <2>7, <2>8 DEF RecordBroken, IsOptional
  <2>4. \A v \in Workers :
          pc'[v] = "finish" /\ outcome'[v] = "ready" /\ PhaseOf[doing'[v]] = "read"
            => doing'[v] \in covered'
    BY <1>13, <2>7, <2>8 DEF RecordBroken, IsOptional
  <2>5. \A p \in Preps : status'[p] = "ready" /\ PhaseOf[p] = "read" => p \in covered'
    BY <1>13, <2>7, <2>8 DEF RecordBroken, IsOptional
  <2>6. QED BY <2>1, <2>2, <2>3, <2>4, <2>5
<1>14. ASSUME NEW w \in Workers, RecordAfresh(w) PROVE OpenInv'
  <2>7. status[doing[w]] \in {"running", "interrupted"} \/ ~Working(w)
    OBVIOUS
  <2>8. \A v \in Workers : v # w => pc'[v] = pc[v] /\ cost'[v] = cost[v]
                                 /\ doing'[v] = doing[v]
    BY <1>14 DEF RecordAfresh
  <2>1. \A v \in Workers : Working(v)' /\ status'[doing'[v]] = "running"
          => open'[doing'[v]] = OpenOf(v)'
    <3>1. pc'[w] = "idle" /\ \A v \in Workers : v # w /\ Working(v)' => Working(v)
      BY <1>14, <2>8 DEF RecordAfresh
    <3>2. \A p \in Preps : p # doing[w] => open'[p] = open[p] /\ status'[p] = status[p]
      BY <1>14 DEF RecordAfresh
    <3>3. Working(w)
      BY <1>14 DEF RecordAfresh
    <3> SUFFICES ASSUME NEW v \in Workers, Working(v)', status'[doing'[v]] = "running"
                 PROVE  open'[doing'[v]] = OpenOf(v)'
      OBVIOUS
    <3>4. v # w /\ Working(v)
      BY <3>1
    <3>5. doing'[v] = doing[v] /\ doing[v] \in Preps
      BY <3>4, <2>8
    <3>6. OpenOf(v)' = OpenOf(v)
      BY <3>4, <2>8
    <3>7. status[doing[v]] = "running" => open[doing[v]] = OpenOf(v)
      BY <3>4
    <3> HIDE DEF OpenInv, OpenOf, FlightInv, Working, TypeOK
    <3>8. doing[v] # doing[w]
      BY <3>3, <3>4, Distinct
    <3>9. QED BY <3>2, <3>5, <3>6, <3>7, <3>8
  <2>2. \A p \in Preps : status'[p] \in {"none", "queued", "ready"} => open'[p] = 0
    BY <1>14, <2>7, <2>8 DEF RecordAfresh, IsOptional
  <2>3. \A v \in Workers :
          Working(v)' /\ PhaseOf[doing'[v]] = "read" /\ step'[v] > 0
            => doing'[v] \in covered'
    BY <1>14, <2>7, <2>8 DEF RecordAfresh, IsOptional
  <2>4. \A v \in Workers :
          pc'[v] = "finish" /\ outcome'[v] = "ready" /\ PhaseOf[doing'[v]] = "read"
            => doing'[v] \in covered'
    BY <1>14, <2>7, <2>8 DEF RecordAfresh, IsOptional
  <2>5. \A p \in Preps : status'[p] = "ready" /\ PhaseOf[p] = "read" => p \in covered'
    BY <1>14, <2>7, <2>8 DEF RecordAfresh, IsOptional
  <2>6. QED BY <2>1, <2>2, <2>3, <2>4, <2>5
<1>15. ASSUME NEW w \in Workers, Finish(w) PROVE OpenInv'
  <2>7. status[doing[w]] \in {"running", "interrupted"} \/ ~Working(w)
    OBVIOUS
  <2>8. \A v \in Workers : v # w => pc'[v] = pc[v] /\ cost'[v] = cost[v]
                                 /\ doing'[v] = doing[v]
    BY <1>15 DEF Finish
  <2>1. \A v \in Workers : Working(v)' /\ status'[doing'[v]] = "running"
          => open'[doing'[v]] = OpenOf(v)'
    BY <1>15, <2>7, <2>8 DEF Finish, IsOptional
  <2>2. \A p \in Preps : status'[p] \in {"none", "queued", "ready"} => open'[p] = 0
    <3>1. open' = open /\ \A p \in Preps : p # doing[w] => status'[p] = status[p]
      BY <1>15 DEF Finish
    <3>2. Running = {doing[w]} /\ status[doing[w]] = "running" /\ pc[w] = "finish"
      BY <1>15 DEF Finish
    <3>3. open[doing[w]] = 0
      BY <3>2
    <3>4. QED BY <3>1, <3>3
  <2>3. \A v \in Workers :
          Working(v)' /\ PhaseOf[doing'[v]] = "read" /\ step'[v] > 0
            => doing'[v] \in covered'
    BY <1>15, <2>7, <2>8 DEF Finish, IsOptional
  <2>4. \A v \in Workers :
          pc'[v] = "finish" /\ outcome'[v] = "ready" /\ PhaseOf[doing'[v]] = "read"
            => doing'[v] \in covered'
    BY <1>15, <2>7, <2>8 DEF Finish, IsOptional
  <2>5. \A p \in Preps : status'[p] = "ready" /\ PhaseOf[p] = "read" => p \in covered'
    BY <1>15, <2>7, <2>8 DEF Finish, IsOptional
  <2>6. QED BY <2>1, <2>2, <2>3, <2>4, <2>5
<1>16. ASSUME NEW w \in Workers, Stranded(w) PROVE OpenInv'
  <2>7. status[doing[w]] \in {"running", "interrupted"} \/ ~Working(w)
    OBVIOUS
  <2>8. \A v \in Workers : v # w => pc'[v] = pc[v] /\ cost'[v] = cost[v]
                                 /\ doing'[v] = doing[v]
    BY <1>16 DEF Stranded
  <2>1. \A v \in Workers : Working(v)' /\ status'[doing'[v]] = "running"
          => open'[doing'[v]] = OpenOf(v)'
    BY <1>16, <2>7, <2>8 DEF Stranded, IsOptional
  <2>2. \A p \in Preps : status'[p] \in {"none", "queued", "ready"} => open'[p] = 0
    BY <1>16, <2>7, <2>8 DEF Stranded, IsOptional
  <2>3. \A v \in Workers :
          Working(v)' /\ PhaseOf[doing'[v]] = "read" /\ step'[v] > 0
            => doing'[v] \in covered'
    BY <1>16, <2>7, <2>8 DEF Stranded, IsOptional
  <2>4. \A v \in Workers :
          pc'[v] = "finish" /\ outcome'[v] = "ready" /\ PhaseOf[doing'[v]] = "read"
            => doing'[v] \in covered'
    BY <1>16, <2>7, <2>8 DEF Stranded, IsOptional
  <2>5. \A p \in Preps : status'[p] = "ready" /\ PhaseOf[p] = "read" => p \in covered'
    BY <1>16, <2>7, <2>8 DEF Stranded, IsOptional
  <2>6. QED BY <2>1, <2>2, <2>3, <2>4, <2>5
<1>17. ASSUME NEW w \in Workers, SessionLost(w) PROVE OpenInv'
  BY <1>17 DEF SessionLost, IsOptional
<1>18. ASSUME NEW w \in Workers, Kill(w) PROVE OpenInv'
  BY <1>18 DEF Kill, IsOptional
<1>19. CASE UNCHANGED vars
  BY <1>19 DEF vars, rows, job, truth, OpenInv
<1>20. QED
  BY <1>1, <1>2, <1>3, <1>4, <1>5, <1>6, <1>7, <1>8, <1>9, <1>10,
     <1>11, <1>12, <1>13, <1>14, <1>15, <1>16, <1>17, <1>18, <1>19 DEF Next, Sweep

\* Every step keeps the money within the cap, but for the calls given up.
LEMMA MoneyStep ==
  ASSUME TypeOK, TypeOK', FlightInv, OpenInv, MoneyInv, [Next]_vars
  PROVE  MoneyInv'
<1> USE MoneyAssumption
<1>1. ASSUME NEW p \in Preps, Ask(p) PROVE MoneyInv'
  <2>1. Committed' = Committed
    <3>1. Cleared' = Cleared /\ billed' = billed
      BY <1>1 DEF Ask, Cleared, truth
    <3>2. QED BY <3>1, ClearedCounts
  <2>2. Running' = Running
    BY <1>1 DEF Ask, Running, TypeOK
  <2>3. QED
    BY <1>1, <2>1, <2>2 DEF Ask, MoneyInv, truth
<1>2. ASSUME NEW w \in Workers, TryLock(w) PROVE MoneyInv'
  <2>1. Committed' = Committed
    <3>1. Cleared' = Cleared /\ billed' = billed
      BY <1>2 DEF TryLock, Cleared, Goto, Quit, CallFails, Ends, TypeOK, truth
    <3>2. QED BY <3>1, ClearedCounts
  <2>2. QED
    BY <1>2, <2>1 DEF TryLock, MoneyInv, Running, rows, truth
<1>3. ASSUME NEW w \in Workers, Recover(w) PROVE MoneyInv'
  <2>1. Committed' = Committed
    <3>1. Cleared' = Cleared /\ billed' = billed
      BY <1>3 DEF Recover, Cleared, Goto, TypeOK
    <3>2. QED BY <3>1, ClearedCounts
  <2>2. Running' = {}
    BY <1>3 DEF Recover, Interrupted, Running
  <2>3. recorded \in Nat /\ leaked \in Nat /\ Cap \in Nat /\ open \in [Preps -> Nat]
    BY MoneyAssumption DEF TypeOK
  <2>4. Committed' <= recorded' + leaked'
    <3>1. CASE Running = {}
      BY <3>1, <2>1, <2>3, <1>3, RecoverCharges, ClearedCounts DEF MoneyInv
    <3>2. CASE Running # {}
      <4>1. PICK p \in Running : TRUE
        BY <3>2
      <4>2. open[p] \in Nat
        BY <4>1, <2>3 DEF Running
      <4>3. QED BY <4>1, <4>2, <2>1, <2>3, <1>3, RecoverCharges, ClearedCounts DEF MoneyInv
    <3>3. QED BY <3>1, <3>2
  <2>5. QED
    BY <2>1, <2>2, <2>3, <2>4, <1>3, RecoverCharges, ClearedCounts DEF MoneyInv
<1>4. ASSUME NEW w \in Workers, Claim(w) PROVE MoneyInv'
  <2>1. Committed' = Committed
    <3>1. Cleared' = Cleared /\ billed' = billed
      BY <1>4 DEF Claim, Cleared, Goto, Quit, CallFails, Ends, TypeOK, truth
    <3>2. QED BY <3>1, ClearedCounts
  <2>2. Running = {}
    BY <1>4 DEF Claim, FlightInv
  <2>3. \A p \in Running' : open[p] = 0
    BY <1>4, <2>2 DEF Claim, IsOldest, Running, OpenInv, TypeOK
  <2>20. Committed \in Nat /\ Committed' \in Int /\ recorded \in Nat /\ leaked \in Nat
         /\ Cap \in Nat /\ Worst \in Nat /\ open \in [Preps -> Nat]
    BY MoneyTypes
  <2>4. recorded' = recorded /\ leaked' = leaked /\ open' = open
    BY <1>4 DEF Claim, truth
  <2>5. QED
    BY <2>1, <2>2, <2>3, <2>4, <2>20 DEF MoneyInv
<1>5. ASSUME NEW w \in Workers, EndSweep(w) PROVE MoneyInv'
  <2>1. Committed' = Committed
    <3>1. Cleared' = Cleared /\ billed' = billed
      BY <1>5 DEF EndSweep, Cleared, Goto, Quit, CallFails, Ends, TypeOK, truth
    <3>2. QED BY <3>1, ClearedCounts
  <2>2. QED
    BY <1>5, <2>1 DEF EndSweep, MoneyInv, Running, rows, truth
<1>6. ASSUME NEW w \in Workers, Break(w) PROVE MoneyInv'
  <2>1. Committed' = Committed
    <3>1. Cleared' = Cleared /\ billed' = billed
      BY <1>6 DEF Break, Cleared, Goto, Quit, CallFails, Ends, TypeOK, truth
    <3>2. QED BY <3>1, ClearedCounts
  <2>2. QED
    BY <1>6, <2>1 DEF Break, MoneyInv, Running, rows, truth
<1>7. ASSUME NEW w \in Workers, Conclude(w) PROVE MoneyInv'
  <2>1. Committed' = Committed
    <3>1. Cleared' = Cleared /\ billed' = billed
      BY <1>7 DEF Conclude, Cleared, Goto, Quit, CallFails, Ends, TypeOK, truth
    <3>2. QED BY <3>1, ClearedCounts
  <2>2. QED
    BY <1>7, <2>1 DEF Conclude, MoneyInv, Running, rows, truth
<1>8. ASSUME NEW w \in Workers, Clear(w) PROVE MoneyInv'
  <2>1. Committed' = Committed + Worst
    BY <1>8, ClearedCounts DEF Clear, Goto, truth
  <2>2. Running = {doing[w]} /\ open[doing[w]] = 0
    BY <1>8 DEF Clear, FlightInv, OpenInv, OpenOf, Working, Running, TypeOK
  <2>3. Committed <= recorded + leaked /\ recorded + Worst <= Cap
    BY <1>8, <2>2 DEF MoneyInv, Clear, WithinCap, TypeOK
  <2>4. Running' = {doing[w]} /\ open'[doing[w]] = Worst
    BY <1>8, <2>2 DEF Clear, Running, rows, TypeOK
  <2>20. Committed \in Nat /\ Committed' \in Int /\ recorded \in Nat /\ leaked \in Nat
         /\ Cap \in Nat /\ Worst \in Nat /\ open \in [Preps -> Nat]
    BY MoneyTypes
  <2>6. recorded' = recorded /\ leaked' = leaked
    BY <1>8 DEF Clear, rows
  <2>5. QED
    BY <2>1, <2>3, <2>4, <2>6, <2>20 DEF MoneyInv
<1>9. ASSUME NEW w \in Workers, StopAtCap(w) PROVE MoneyInv'
  <2>1. Committed' = Committed
    <3>1. Cleared' = Cleared /\ billed' = billed
      BY <1>9 DEF StopAtCap, Cleared, Goto, Quit, CallFails, Ends, TypeOK, truth
    <3>2. QED BY <3>1, ClearedCounts
  <2>2. QED
    BY <1>9, <2>1 DEF StopAtCap, MoneyInv, Running, rows, truth
<1>10. ASSUME NEW w \in Workers, Refused(w) PROVE MoneyInv'
  <2>1. Committed' = Committed - Worst + 0
    <3>1. \E place \in Places : place # "cleared"
              /\ pc' = [pc EXCEPT ![w] = place]
      BY <1>10 DEF Refused, CallFails, Ends, Goto, Places
    <3>2. billed' = billed + 0 /\ pc[w] = "cleared" /\ 0 \in Nat
      BY <1>10 DEF Refused, TypeOK, truth
    <3>3. QED BY <3>1, <3>2, ClearedCounts
  <2>2. status[doing[w]] = "running" => open[doing[w]] = Worst
    BY <1>10 DEF Refused, OpenInv, OpenOf, Working
  <2>3. Running' = Running /\ open'[doing[w]] = 0 /\ doing[w] \in Preps
    BY <1>10 DEF Refused, Running, rows, TypeOK
  <2>4. \A p \in Running : p # doing[w] => open'[p] = open[p]
    BY <1>10 DEF Refused, Running, TypeOK
  <2>5. recorded' = recorded /\ leaked' = leaked
    BY <1>10 DEF Refused, rows
  <2>20. Committed \in Nat /\ Committed' \in Int /\ recorded \in Nat /\ leaked \in Nat
         /\ Cap \in Nat /\ Worst \in Nat /\ open \in [Preps -> Nat]
    BY MoneyTypes
  <2>7. 0 \in Nat /\ 0 <= Worst /\ Running \subseteq Preps
    BY <2>20 DEF Running
  <2>8. Committed' <= Cap + leaked'
    BY <2>1, <2>5, <2>7, <2>20 DEF MoneyInv
  <2>9. Running' = {} => Committed' <= recorded' + leaked'
    BY <2>1, <2>3, <2>5, <2>7, <2>20 DEF MoneyInv
  <2>10. ASSUME NEW p \in Running PROVE Committed' <= recorded' + leaked' + open'[p]
    <3>1. CASE p = doing[w]
      <4>1. status[p] = "running"
        BY DEF Running
      <4>2. QED BY <3>1, <4>1, <2>1, <2>2, <2>3, <2>5, <2>7, <2>20 DEF MoneyInv
    <3>2. CASE p # doing[w]
      BY <3>2, <2>1, <2>4, <2>5, <2>7, <2>20 DEF MoneyInv
    <3>3. QED BY <3>1, <3>2
  <2>11. QED BY <2>3, <2>8, <2>9, <2>10 DEF MoneyInv
<1>11. ASSUME NEW w \in Workers, Send(w) PROVE MoneyInv'
  <2> PICK price \in 1..Worst : billed' = billed + price
                 /\ open' = [open EXCEPT ![doing[w]] = price]
    BY <1>11 DEF Send
  <2>1. Committed' = Committed - Worst + price
    <3>1. \E place \in Places : place # "cleared"
              /\ pc' = [pc EXCEPT ![w] = place]
      BY <1>11 DEF Send, CallFails, Ends, Goto, Places
    <3>2. billed' = billed + price /\ pc[w] = "cleared" /\ price \in Nat
      BY <1>11 DEF Send, TypeOK, truth
    <3>3. QED BY <3>1, <3>2, ClearedCounts
  <2>2. status[doing[w]] = "running" => open[doing[w]] = Worst
    BY <1>11 DEF Send, OpenInv, OpenOf, Working
  <2>3. Running' = Running /\ open'[doing[w]] = price /\ doing[w] \in Preps
    BY <1>11 DEF Send, Running, rows, TypeOK
  <2>4. \A p \in Running : p # doing[w] => open'[p] = open[p]
    BY <1>11 DEF Send, Running, TypeOK
  <2>5. recorded' = recorded /\ leaked' = leaked
    BY <1>11 DEF Send, rows
  <2>20. Committed \in Nat /\ Committed' \in Int /\ recorded \in Nat /\ leaked \in Nat
         /\ Cap \in Nat /\ Worst \in Nat /\ open \in [Preps -> Nat]
    BY MoneyTypes
  <2>7. price \in Nat /\ price <= Worst /\ Running \subseteq Preps
    BY <2>20 DEF Running
  <2>8. Committed' <= Cap + leaked'
    BY <2>1, <2>5, <2>7, <2>20 DEF MoneyInv
  <2>9. Running' = {} => Committed' <= recorded' + leaked'
    BY <2>1, <2>3, <2>5, <2>7, <2>20 DEF MoneyInv
  <2>10. ASSUME NEW p \in Running PROVE Committed' <= recorded' + leaked' + open'[p]
    <3>1. CASE p = doing[w]
      <4>1. status[p] = "running"
        BY DEF Running
      <4>2. QED BY <3>1, <4>1, <2>1, <2>2, <2>3, <2>5, <2>7, <2>20 DEF MoneyInv
    <3>2. CASE p # doing[w]
      BY <3>2, <2>1, <2>4, <2>5, <2>7, <2>20 DEF MoneyInv
    <3>3. QED BY <3>1, <3>2
  <2>11. QED BY <2>3, <2>8, <2>9, <2>10 DEF MoneyInv
<1>12. ASSUME NEW w \in Workers, Record(w) PROVE MoneyInv'
  <2>1. Committed' = Committed
    <3>1. Cleared' = Cleared /\ billed' = billed
      BY <1>12 DEF Record, Cleared, Goto, Quit, CallFails, Ends, TypeOK
    <3>2. QED BY <3>1, ClearedCounts
  <2>2. status[doing[w]] = "running" => open[doing[w]] = cost[w]
    BY <1>12 DEF Record, OpenInv, OpenOf, Working
  <2>3. Running' \subseteq Running /\ Running \subseteq Running' \cup {doing[w]}
    BY <1>12 DEF Record, Running, FinishRow, TypeOK, Final
  <2>4. recorded' >= recorded + cost[w] /\ leaked' = leaked
    BY <1>12 DEF Record, Usage, TypeOK
  <2>5. \A p \in Preps : open'[p] = IF p = doing[w] THEN 0 ELSE open[p]
    BY <1>12 DEF Record, Usage, TypeOK
  <2>6. \A p, q \in Running : p = q
    BY DEF FlightInv
  <2>7. cost[w] \in Nat /\ recorded \in Nat /\ recorded' \in Nat /\ leaked \in Nat /\ Cap \in Nat
        /\ open \in [Preps -> Nat] /\ doing[w] \in Preps
    BY MoneyAssumption DEF TypeOK
  <2>8. Running' = {} => Committed' <= recorded' + leaked'
    <3>1. CASE Running = {}
      BY <3>1, <2>1, <2>4, <2>7, ClearedCounts DEF MoneyInv
    <3>2. CASE doing[w] \in Running
      BY <3>2, <2>1, <2>2, <2>4, <2>7, ClearedCounts DEF MoneyInv, Running
    <3>3. QED BY <3>1, <3>2, <2>3
  <2>9. ASSUME NEW p \in Running' PROVE Committed' <= recorded' + leaked' + open'[p]
    <3>1. p \in Preps /\ p \in Running
      BY <2>3 DEF Running
    <3>2. CASE p = doing[w]
      BY <3>1, <3>2, <2>1, <2>2, <2>4, <2>5, <2>7, ClearedCounts DEF MoneyInv, Running
    <3>3. CASE p # doing[w]
      BY <3>1, <3>3, <2>1, <2>4, <2>5, <2>7, ClearedCounts DEF MoneyInv
    <3>4. QED BY <3>2, <3>3
  <2>10. QED
    BY <2>1, <2>4, <2>7, <2>8, <2>9, ClearedCounts DEF MoneyInv
<1>13. ASSUME NEW w \in Workers, RecordBroken(w) PROVE MoneyInv'
  <2>1. Committed' = Committed
    <3>1. Cleared' = Cleared /\ billed' = billed
      BY <1>13 DEF RecordBroken, Cleared, Goto, Quit, CallFails, Ends, TypeOK
    <3>2. QED BY <3>1, ClearedCounts
  <2>2. status[doing[w]] = "running" => open[doing[w]] = cost[w]
    BY <1>13 DEF RecordBroken, OpenInv, OpenOf, Working
  <2>3. Running' \subseteq Running /\ Running \subseteq Running' \cup {doing[w]}
    BY <1>13 DEF RecordBroken, Running, FinishRow, TypeOK, Final
  <2>4. recorded' >= recorded + cost[w] /\ leaked' = leaked
    BY <1>13 DEF RecordBroken, Usage, TypeOK
  <2>5. \A p \in Preps : open'[p] = IF p = doing[w] THEN 0 ELSE open[p]
    BY <1>13 DEF RecordBroken, Usage, TypeOK
  <2>6. \A p, q \in Running : p = q
    BY DEF FlightInv
  <2>7. cost[w] \in Nat /\ recorded \in Nat /\ recorded' \in Nat /\ leaked \in Nat /\ Cap \in Nat
        /\ open \in [Preps -> Nat] /\ doing[w] \in Preps
    BY MoneyAssumption DEF TypeOK
  <2>8. Running' = {} => Committed' <= recorded' + leaked'
    <3>1. CASE Running = {}
      BY <3>1, <2>1, <2>4, <2>7, ClearedCounts DEF MoneyInv
    <3>2. CASE doing[w] \in Running
      BY <3>2, <2>1, <2>2, <2>4, <2>7, ClearedCounts DEF MoneyInv, Running
    <3>3. QED BY <3>1, <3>2, <2>3
  <2>9. ASSUME NEW p \in Running' PROVE Committed' <= recorded' + leaked' + open'[p]
    <3>1. p \in Preps /\ p \in Running
      BY <2>3 DEF Running
    <3>2. CASE p = doing[w]
      BY <3>1, <3>2, <2>1, <2>2, <2>4, <2>5, <2>7, ClearedCounts DEF MoneyInv, Running
    <3>3. CASE p # doing[w]
      BY <3>1, <3>3, <2>1, <2>4, <2>5, <2>7, ClearedCounts DEF MoneyInv
    <3>4. QED BY <3>2, <3>3
  <2>10. QED
    BY <2>1, <2>4, <2>7, <2>8, <2>9, ClearedCounts DEF MoneyInv
<1>14. ASSUME NEW w \in Workers, RecordAfresh(w) PROVE MoneyInv'
  <2>1. Committed' = Committed
    <3>1. Cleared' = Cleared /\ billed' = billed
      BY <1>14 DEF RecordAfresh, Cleared, Goto, Quit, CallFails, Ends, TypeOK
    <3>2. QED BY <3>1, ClearedCounts
  <2>2. status[doing[w]] = "running" => open[doing[w]] = cost[w]
    BY <1>14 DEF RecordAfresh, OpenInv, OpenOf, Working
  <2>3. Running' \subseteq Running /\ Running \subseteq Running' \cup {doing[w]}
    BY <1>14 DEF RecordAfresh, Running, FinishRow, TypeOK, Final
  <2>4. recorded' >= recorded + cost[w] /\ leaked' = leaked
    BY <1>14 DEF RecordAfresh, Usage, TypeOK
  <2>5. \A p \in Preps : open'[p] = IF p = doing[w] THEN 0 ELSE open[p]
    BY <1>14 DEF RecordAfresh, Usage, TypeOK
  <2>6. \A p, q \in Running : p = q
    BY DEF FlightInv
  <2>7. cost[w] \in Nat /\ recorded \in Nat /\ recorded' \in Nat /\ leaked \in Nat /\ Cap \in Nat
        /\ open \in [Preps -> Nat] /\ doing[w] \in Preps
    BY MoneyAssumption DEF TypeOK
  <2>8. Running' = {} => Committed' <= recorded' + leaked'
    <3>1. CASE Running = {}
      BY <3>1, <2>1, <2>4, <2>7, ClearedCounts DEF MoneyInv
    <3>2. CASE doing[w] \in Running
      BY <3>2, <2>1, <2>2, <2>4, <2>7, ClearedCounts DEF MoneyInv, Running
    <3>3. QED BY <3>1, <3>2, <2>3
  <2>9. ASSUME NEW p \in Running' PROVE Committed' <= recorded' + leaked' + open'[p]
    <3>1. p \in Preps /\ p \in Running
      BY <2>3 DEF Running
    <3>2. CASE p = doing[w]
      BY <3>1, <3>2, <2>1, <2>2, <2>4, <2>5, <2>7, ClearedCounts DEF MoneyInv, Running
    <3>3. CASE p # doing[w]
      BY <3>1, <3>3, <2>1, <2>4, <2>5, <2>7, ClearedCounts DEF MoneyInv
    <3>4. QED BY <3>2, <3>3
  <2>10. QED
    BY <2>1, <2>4, <2>7, <2>8, <2>9, ClearedCounts DEF MoneyInv
<1>15. ASSUME NEW w \in Workers, Finish(w) PROVE MoneyInv'
  <2>1. Committed' = Committed
    <3>1. Cleared' = Cleared /\ billed' = billed
      BY <1>15 DEF Finish, Cleared, Goto, Quit, CallFails, Ends, TypeOK, truth
    <3>2. QED BY <3>1, ClearedCounts
  <2>2. Running = {doing[w]} /\ open[doing[w]] = 0
    BY <1>15 DEF Finish, FlightInv, OpenInv, OpenOf, Working, Running, TypeOK
  <2>3. Running' = {}
    BY <1>15, <2>2 DEF Finish, FinishRow, Running, TypeOK, Final
  <2>4. QED
    BY <1>15, <2>1, <2>2, <2>3, ClearedCounts DEF Finish, MoneyInv, TypeOK, truth
<1>16. ASSUME NEW w \in Workers, Stranded(w) PROVE MoneyInv'
  <2>1. Committed' = Committed
    <3>1. Cleared' = Cleared /\ billed' = billed
      BY <1>16 DEF Stranded, Cleared, Goto, Quit, CallFails, Ends, TypeOK, truth
    <3>2. QED BY <3>1, ClearedCounts
  <2>2. QED
    BY <1>16, <2>1 DEF Stranded, MoneyInv, Running, rows, truth
<1>17. ASSUME NEW w \in Workers, SessionLost(w) PROVE MoneyInv'
  <2>1. Committed' = Committed
    <3>1. Cleared' = Cleared /\ billed' = billed
      BY <1>17 DEF SessionLost, Cleared, Goto, Quit, CallFails, Ends, TypeOK, truth
    <3>2. QED BY <3>1, ClearedCounts
  <2>2. QED
    BY <1>17, <2>1 DEF SessionLost, MoneyInv, Running, rows, truth
<1>18. ASSUME NEW w \in Workers, Kill(w) PROVE MoneyInv'
  <2>1. CASE pc[w] = "cleared"
    <3>1. Committed' = Committed - Worst + 0
      <4>1. billed' = billed + 0 /\ pc' = [pc EXCEPT ![w] = "idle"]
        BY <1>18 DEF Kill, Quit, Goto, TypeOK
      <4>2. QED BY <4>1, <2>1, ClearedCounts DEF Places
    <3>2. status[doing[w]] = "running" => open[doing[w]] = Worst
      BY <1>18, <2>1 DEF OpenInv, OpenOf, Working
    <3>3. Running' = Running /\ \A p \in Preps : open'[p] = IF p = doing[w] THEN 0 ELSE open[p]
      BY <1>18, <2>1 DEF Kill, Running, rows, TypeOK
    <3>4. recorded' = recorded /\ leaked' = leaked
      BY <1>18 DEF Kill, rows
    <3>20. Committed \in Nat /\ Committed' \in Int /\ recorded \in Nat /\ leaked \in Nat
         /\ Cap \in Nat /\ Worst \in Nat /\ open \in [Preps -> Nat]
      BY MoneyTypes
    <3>8. Committed' <= Cap + leaked'
      BY <3>1, <3>4, <3>20 DEF MoneyInv
    <3>9. Running' = {} => Committed' <= recorded' + leaked'
      BY <3>1, <3>3, <3>4, <3>20 DEF MoneyInv
    <3>10. ASSUME NEW p \in Running PROVE Committed' <= recorded' + leaked' + open'[p]
      <4>1. status[p] = "running" /\ p \in Preps
        BY DEF Running
      <4>2. CASE p = doing[w]
        BY <4>2, <4>1, <3>1, <3>2, <3>3, <3>4, <3>20 DEF MoneyInv
      <4>3. CASE p # doing[w]
        BY <4>3, <4>1, <3>1, <3>3, <3>4, <3>20 DEF MoneyInv
      <4>4. QED BY <4>2, <4>3
    <3>11. QED BY <3>3, <3>8, <3>9, <3>10 DEF MoneyInv
  <2>2. CASE pc[w] # "cleared"
    <3>1. Committed' = Committed
      <4>1. billed' = billed /\ Cleared' = Cleared
        BY <1>18, <2>2 DEF Kill, Quit, Goto, TypeOK, Cleared
      <4>2. QED BY <4>1, ClearedCounts
    <3>2. QED BY <3>1, <2>2, <1>18 DEF MoneyInv, Running, Kill, rows
  <2>3. QED BY <2>1, <2>2
<1>19. CASE UNCHANGED vars
  BY <1>19 DEF vars, rows, job, truth, Cleared, Running, MoneyInv, Committed
<1>20. QED
  BY <1>1, <1>2, <1>3, <1>4, <1>5, <1>6, <1>7, <1>8, <1>9, <1>10,
     <1>11, <1>12, <1>13, <1>14, <1>15, <1>16, <1>17, <1>18, <1>19 DEF Next, Sweep

\* No step changes a final status.
LEMMA FinalStep ==
  ASSUME TypeOK, [Next]_vars
  PROVE  FinalKept
<1> USE DEF FinalKept, TypeOK, Running, Final, rows, job, truth, Goto, Quit, Ends, CallFails, FinishRow, Usage, Fault
<1>1. ASSUME NEW p \in Preps, Ask(p) PROVE FinalKept
  BY <1>1 DEF Ask
<1>2. ASSUME NEW w \in Workers, TryLock(w) PROVE FinalKept
  BY <1>2 DEF TryLock
<1>3. ASSUME NEW w \in Workers, Recover(w) PROVE FinalKept
  BY <1>3 DEF Recover, Interrupted
<1>4. ASSUME NEW w \in Workers, Claim(w) PROVE FinalKept
  BY <1>4 DEF Claim, IsOldest
<1>5. ASSUME NEW w \in Workers, EndSweep(w) PROVE FinalKept
  BY <1>5 DEF EndSweep
<1>6. ASSUME NEW w \in Workers, Break(w) PROVE FinalKept
  BY <1>6 DEF Break
<1>7. ASSUME NEW w \in Workers, Conclude(w) PROVE FinalKept
  BY <1>7 DEF Conclude
<1>8. ASSUME NEW w \in Workers, Clear(w) PROVE FinalKept
  BY <1>8 DEF Clear
<1>9. ASSUME NEW w \in Workers, StopAtCap(w) PROVE FinalKept
  BY <1>9 DEF StopAtCap
<1>10. ASSUME NEW w \in Workers, Refused(w) PROVE FinalKept
  BY <1>10 DEF Refused
<1>11. ASSUME NEW w \in Workers, Send(w) PROVE FinalKept
  BY <1>11 DEF Send
<1>12. ASSUME NEW w \in Workers, Record(w) PROVE FinalKept
  BY <1>12 DEF Record
<1>13. ASSUME NEW w \in Workers, RecordBroken(w) PROVE FinalKept
  BY <1>13 DEF RecordBroken
<1>14. ASSUME NEW w \in Workers, RecordAfresh(w) PROVE FinalKept
  BY <1>14 DEF RecordAfresh
<1>15. ASSUME NEW w \in Workers, Finish(w) PROVE FinalKept
  BY <1>15 DEF Finish
<1>16. ASSUME NEW w \in Workers, Stranded(w) PROVE FinalKept
  BY <1>16 DEF Stranded
<1>17. ASSUME NEW w \in Workers, SessionLost(w) PROVE FinalKept
  BY <1>17 DEF SessionLost
<1>18. ASSUME NEW w \in Workers, Kill(w) PROVE FinalKept
  BY <1>18 DEF Kill
<1>19. CASE UNCHANGED vars
  BY <1>19 DEF vars, rows, job, truth
<1>20. QED
  BY <1>1, <1>2, <1>3, <1>4, <1>5, <1>6, <1>7, <1>8, <1>9, <1>10,
     <1>11, <1>12, <1>13, <1>14, <1>15, <1>16, <1>17, <1>18, <1>19 DEF Next, Sweep

LEMMA Initially == Init => IInv
<1> SUFFICES ASSUME Init PROVE IInv
  OBVIOUS
<1>1. Cleared = {}
  BY DEF Init, Cleared
<1>2. Cardinality(Cleared) = 0
  BY <1>1, FS_EmptySet
<1>3. TypeOK
  BY MoneyAssumption, BoundAssumption, AnyPrepIn DEF Init, TypeOK, Places, Final
<1>4. FlightInv /\ OpenInv
  BY DEF Init, FlightInv, OpenInv, Running, Working, Live
<1>5. MoneyInv
  BY <1>2, MoneyAssumption DEF Init, MoneyInv, Committed, Running
<1>6. QED BY <1>3, <1>4, <1>5 DEF IInv

LEMMA IInvStep == IInv /\ [Next]_vars => IInv'
  BY TypeStep, FlightStep, OpenStep, MoneyStep DEF IInv

THEOREM Invariance == Spec => []IInv
  BY Initially, IInvStep, PTL DEF Spec

\* The variables have their types, whatever happens to sessions and processes.
THEOREM Types == Spec => []TypeOK
<1>1. IInv => TypeOK
  BY DEF IInv
<1>2. QED BY <1>1, Invariance, PTL

\* The monthly cap holds, but for the calls that a recovery gave up uncharged
\* (_call_model, _record, recover_interrupted).
THEOREM CapHoldsButForLeaksAlways == Spec => []CapHoldsButForLeaks
<1>1. IInv => CapHoldsButForLeaks
  BY DEF IInv, MoneyInv, Committed, CapHoldsButForLeaks
<1>2. QED BY <1>1, Invariance, PTL

\* Single flight: the holder of the lock runs the one running row (claim,
\* recover_interrupted, run_bid_sweep).
THEOREM SingleFlight == Spec => []RunsOnlyItsRow
<1>1. IInv => RunsOnlyItsRow
  BY DEF IInv, FlightInv, RunsOnlyItsRow
<1>2. QED BY <1>1, Invariance, PTL

\* A ready preparation has every call recorded (_call_model, _match, _finish).
THEOREM ReadyAccounted == Spec => []ReadyIsAccounted
<1>1. IInv => ReadyIsAccounted
  BY DEF IInv, OpenInv, ReadyIsAccounted
<1>2. QED BY <1>1, Invariance, PTL

\* A final status is never written again (_FINISH, _INTERRUPTED, _CLAIM).
THEOREM FinalStaysAlways == Spec => FinalStays
<1>1. TypeOK /\ [Next]_vars =>
        [\A p \in Preps : status[p] \in Final => status'[p] = status[p]]_vars
  BY FinalStep DEF FinalKept
<1>2. QED BY <1>1, Types, PTL DEF Spec, FinalStays

-----------------------------------------------------------------------------
(* The queue that whoever asks may count on: BidQueue.                     *)

\* What a step does to the queue: nothing, or one of its steps.
TurnStep == [Turns!Next]_<<asked, status>>

LEMMA TurnStays ==
  ASSUME asked' = asked, status' = status
  PROVE  TurnStep
BY DEF TurnStep

LEMMA TurnEnds ==
  ASSUME NEW p \in Running, NEW result \in Final, asked' = asked,
         status' = [status EXCEPT ![p] = result]
  PROVE  TurnStep
<1>1. p \in Preps /\ status[p] = "running"
  BY DEF Running
<1>2. Turns!End(p)
  BY <1>1 DEF Turns!End, Turns!Becomes, Turns!Final, Final
<1>3. QED BY <1>1, <1>2 DEF TurnStep, Turns!Next

\* _FINISH ends the row that runs, and leaves any other alone.
LEMMA TurnFinishes ==
  ASSUME NEW p \in Preps, NEW result \in Final, asked' = asked,
         FinishRow(p, result)
  PROVE  TurnStep
<1>1. CASE p \in Running
  BY <1>1, TurnEnds DEF FinishRow
<1>2. CASE p \notin Running
  BY <1>2, TurnStays DEF FinishRow
<1>3. QED BY <1>1, <1>2

\* A recovery ends the one row that runs: single flight, or it would end two.
LEMMA TurnRecovers ==
  ASSUME TypeOK, FlightInv, NEW w \in Workers, Recover(w)
  PROVE  TurnStep
<1>1. asked' = asked
      /\ status' = [p \in Preps |->
                      IF p \in Running THEN "interrupted" ELSE status[p]]
  BY DEF Recover, Interrupted
<1>2. CASE Running = {}
  <2>1. status' = status
    BY <1>1, <1>2 DEF TypeOK
  <2>2. QED BY <1>1, <2>1, TurnStays
<1>3. ASSUME NEW p \in Running PROVE TurnStep
  <2>1. Running = {p}
    BY DEF FlightInv
  <2>2. status' = [status EXCEPT ![p] = "interrupted"]
    BY <1>1, <2>1 DEF TypeOK
  <2>3. QED BY <1>1, <2>2, TurnEnds DEF Final
<1>4. QED BY <1>2, <1>3

\* A claim starts the first that waits, and no row runs: the lock is live.
LEMMA TurnStarts ==
  ASSUME FlightInv, NEW w \in Workers, Claim(w)
  PROVE  TurnStep
<1>1. PICK p \in Preps : IsOldest(p) /\ status' = [status EXCEPT ![p] = "running"]
  BY DEF Claim
<1>2. Running = {} /\ asked' = asked
  BY DEF Claim, FlightInv
<1>3. \A q \in Preps : status[q] # "running"
  BY <1>2 DEF Running
<1>4. Turns!Start(p)
  BY <1>1, <1>2, <1>3 DEF IsOldest, Turns!Start, Turns!Becomes
<1>5. QED BY <1>4 DEF TurnStep, Turns!Next

LEMMA TurnAsked ==
  ASSUME NEW p \in Preps, Ask(p)
  PROVE  TurnStep
<1>1. \A q \in Preps : Turns!SameWork(p, q) => ~Turns!Open(q)
  BY DEF Ask, NoneOpen, Turns!SameWork, Turns!Open
<1>2. Turns!Ask(p)
  BY <1>1 DEF Ask, ReadIsReady, Turns!Ask, Turns!Becomes
<1>3. QED BY <1>2 DEF TurnStep, Turns!Next

LEMMA EveryTurn ==
  ASSUME TypeOK, FlightInv, [Next]_vars
  PROVE  TurnStep
<1>1. ASSUME NEW p \in Preps, Ask(p) PROVE TurnStep
  BY <1>1, TurnAsked
<1>2. ASSUME NEW w \in Workers, Recover(w) PROVE TurnStep
  BY <1>2, TurnRecovers
<1>3. ASSUME NEW w \in Workers, Claim(w) PROVE TurnStep
  BY <1>3, TurnStarts
<1>4. ASSUME NEW w \in Workers, Finish(w) PROVE TurnStep
  <2>1. doing[w] \in Preps /\ outcome[w] \in Final
    BY DEF TypeOK
  <2>2. asked' = asked /\ FinishRow(doing[w], outcome[w])
    BY <1>4 DEF Finish
  <2>3. QED BY <2>1, <2>2, TurnFinishes
<1>5. ASSUME NEW w \in Workers, RecordAfresh(w) PROVE TurnStep
  <2>1. doing[w] \in Preps /\ "connection_lost" \in Final
    BY DEF TypeOK, Final
  <2>2. asked' = asked /\ FinishRow(doing[w], "connection_lost")
    BY <1>5 DEF RecordAfresh
  <2>3. QED BY <2>1, <2>2, TurnFinishes
<1>6. ASSUME NEW w \in Workers, Record(w) \/ RecordBroken(w) PROVE TurnStep
  BY <1>6, TurnStays DEF Record, RecordBroken
<1>7. ASSUME NEW w \in Workers,
             \/ TryLock(w) \/ EndSweep(w) \/ Break(w) \/ Conclude(w)
             \/ Clear(w) \/ StopAtCap(w) \/ Refused(w) \/ Send(w)
             \/ Stranded(w) \/ SessionLost(w) \/ Kill(w)
      PROVE  TurnStep
  <2>1. UNCHANGED rows
    BY <1>7 DEF TryLock, EndSweep, Break, Conclude, Clear, StopAtCap, Refused,
                Send, Stranded, SessionLost, Kill
  <2>2. QED BY <2>1, TurnStays DEF rows
<1>8. CASE UNCHANGED vars
  BY <1>8, TurnStays DEF vars, rows
<1>9. QED
  BY <1>1, <1>2, <1>3, <1>4, <1>5, <1>6, <1>7, <1>8 DEF Next, Sweep

\* The detailed job implements the queue: whatever sessions and processes are
\* lost, preparations are asked for, started and ended as BidQueue says
\* (_CLAIM, _FINISH, _INTERRUPTED, request_bid_preparation).
THEOREM AlwaysKeepsTurns == Spec => KeepsTurns
<1>1. Init => Turns!Init
  BY DEF Init, Turns!Init
<1>2. IInv /\ [Next]_vars => [Turns!Next]_<<asked, status>>
  BY EveryTurn DEF IInv, TurnStep
<1>3. Turns!Spec <=> Turns!Init /\ [][Turns!Next]_<<asked, status>>
  BY DEF Turns!Spec, Turns!queue
<1>4. QED BY <1>1, <1>2, <1>3, Invariance, PTL DEF Spec, KeepsTurns

-----------------------------------------------------------------------------
(* What follows for the cases.                                             *)

TurnInv ==
  /\ Turns!TypeOK /\ Turns!OneRuns /\ Turns!OneOpen
  /\ Turns!FillHasItsRead /\ Turns!NobodyOvertakes

LEMMA TurnAskKept ==
  ASSUME TurnInv, NEW p \in Preps, Turns!Ask(p)
  PROVE  TurnInv'
<1> USE DEF TurnInv
<1>1. asked \in Seq(Preps) /\ asked' = Append(asked, p) /\ status[p] = "none"
      /\ status \in [Preps -> Final \cup {"none", "queued", "running"}]
      /\ status' = [status EXCEPT ![p] = "queued"]
  BY DEF Turns!Ask, Turns!Becomes, Turns!TypeOK, Turns!Final, Final
<1>2. /\ asked' \in Seq(Preps) /\ Len(asked) \in Nat
      /\ DOMAIN asked = 1..Len(asked) /\ DOMAIN asked' = 1..(Len(asked) + 1)
      /\ asked'[Len(asked) + 1] = p
      /\ \A i \in DOMAIN asked : asked'[i] = asked[i] /\ asked[i] \in Preps
  BY <1>1
<1>3. \A i \in DOMAIN asked : asked[i] # p /\ status'[asked[i]] = status[asked[i]]
  BY <1>1, <1>2 DEF Turns!TypeOK
<1>4. \A i \in DOMAIN asked' : i \in DOMAIN asked \/ i = Len(asked) + 1
  BY <1>2
<1>5. Turns!TypeOK'
  <2>1. status' \in [Preps -> Final \cup {"none", "queued", "running"}]
    BY <1>1
  <2>2. \A i \in DOMAIN asked' : status'[asked'[i]] # "none"
    BY <1>1, <1>2, <1>3, <1>4 DEF Turns!TypeOK
  <2>3. \A i, j \in DOMAIN asked' : asked'[i] = asked'[j] => i = j
    BY <1>2, <1>3, <1>4 DEF Turns!TypeOK
  <2>4. QED BY <1>2, <2>1, <2>2, <2>3 DEF Turns!TypeOK, Turns!Final, Final
<1>6. Turns!OneOpen'
  <2> SUFFICES ASSUME NEW q \in Preps, NEW r \in Preps, Turns!SameWork(q, r),
                      status'[q] \in {"queued", "running"},
                      status'[r] \in {"queued", "running"}
               PROVE  q = r
    BY DEF Turns!OneOpen, Turns!Open, Turns!SameWork
  <2>1. \A s \in Preps : Turns!SameWork(p, s) => ~Turns!Open(s)
    BY DEF Turns!Ask
  <2>2. Turns!SameWork(r, q)
    BY DEF Turns!SameWork
  <2>3. QED BY <1>1, <2>1, <2>2 DEF Turns!OneOpen, Turns!Open
<1>7. Turns!FillHasItsRead'
  <2> SUFFICES ASSUME NEW q \in Preps, PhaseOf[q] = "fill", status'[q] # "none"
               PROVE  \E r \in Preps : CaseOf[r] = CaseOf[q]
                        /\ PhaseOf[r] = "read" /\ status'[r] = "ready"
    BY DEF Turns!FillHasItsRead
  <2>1. PICK r \in Preps :
          CaseOf[r] = CaseOf[q] /\ PhaseOf[r] = "read" /\ status[r] = "ready"
    BY <1>1 DEF Turns!FillHasItsRead, Turns!Ask
  <2>2. QED BY <1>1, <2>1
<1>8. Turns!NobodyOvertakes'
  <2> SUFFICES ASSUME NEW i \in DOMAIN asked', NEW j \in DOMAIN asked', i < j,
                      status'[asked'[i]] = "queued"
               PROVE  status'[asked'[j]] = "queued"
    BY DEF Turns!NobodyOvertakes
  <2>1. CASE j = Len(asked) + 1
    BY <2>1, <1>1, <1>2
  <2>2. CASE j # Len(asked) + 1
    <3>1. i \in DOMAIN asked /\ j \in DOMAIN asked
      BY <2>2, <1>2
    <3>2. QED BY <3>1, <1>2, <1>3 DEF Turns!NobodyOvertakes
  <2>3. QED BY <2>1, <2>2
<1>9. Turns!OneRuns'
  BY <1>1 DEF Turns!OneRuns
<1>10. QED BY <1>5, <1>6, <1>7, <1>8, <1>9

\* The first that waits leaves only those behind it waiting.
LEMMA TurnStartKept ==
  ASSUME TurnInv, NEW p \in Preps, Turns!Start(p)
  PROVE  TurnInv'
<1> USE DEF TurnInv
<1>1. asked \in Seq(Preps) /\ asked' = asked /\ status[p] = "queued"
      /\ status \in [Preps -> Final \cup {"none", "queued", "running"}]
      /\ status' = [status EXCEPT ![p] = "running"]
  BY DEF Turns!Start, Turns!Becomes, Turns!TypeOK, Turns!Final, Final
<1>2. \A i \in DOMAIN asked : asked[i] \in Preps /\ i \in Nat
  BY <1>1
<1>3. Turns!TypeOK'
  BY <1>1, <1>2 DEF Turns!TypeOK, Turns!Final, Final
<1>4. Turns!OneOpen'
  BY <1>1 DEF Turns!OneOpen, Turns!Open, Turns!SameWork
<1>5. Turns!FillHasItsRead'
  <2> SUFFICES ASSUME NEW q \in Preps, PhaseOf[q] = "fill", status'[q] # "none"
               PROVE  \E r \in Preps : CaseOf[r] = CaseOf[q]
                        /\ PhaseOf[r] = "read" /\ status'[r] = "ready"
    BY DEF Turns!FillHasItsRead
  <2>1. PICK r \in Preps :
          CaseOf[r] = CaseOf[q] /\ PhaseOf[r] = "read" /\ status[r] = "ready"
    BY <1>1 DEF Turns!FillHasItsRead
  <2>2. QED BY <1>1, <2>1
<1>6. Turns!NobodyOvertakes'
  <2> SUFFICES ASSUME NEW i \in DOMAIN asked, NEW j \in DOMAIN asked, i < j,
                      status'[asked[i]] = "queued"
               PROVE  status'[asked[j]] = "queued"
    BY <1>1 DEF Turns!NobodyOvertakes
  <2>1. PICK k \in DOMAIN asked :
          asked[k] = p /\ \A l \in 1..(k - 1) : status[asked[l]] # "queued"
    BY DEF Turns!Start
  <2>2. status[asked[i]] = "queued" /\ asked[i] # p
    BY <1>1, <1>2
  <2>3. i \in Nat /\ j \in Nat /\ k \in Nat /\ i >= 1
    BY <1>1
  <2>4. ~(i < k)
    BY <2>1, <2>2, <2>3
  <2>5. j # k
    BY <2>3, <2>4
  <2>6. asked[j] # p
    BY <2>1, <2>5 DEF Turns!TypeOK
  <2>7. QED BY <1>1, <1>2, <2>2, <2>6 DEF Turns!NobodyOvertakes
<1>7. Turns!OneRuns'
  <2>1. \A q \in Preps : status[q] # "running"
    BY DEF Turns!Start
  <2>2. QED BY <1>1, <2>1 DEF Turns!OneRuns
<1>8. QED BY <1>3, <1>4, <1>5, <1>6, <1>7

LEMMA TurnEndKept ==
  ASSUME TurnInv, NEW p \in Preps, Turns!End(p)
  PROVE  TurnInv'
<1> USE DEF TurnInv
<1>1. PICK result \in Final :
        /\ asked \in Seq(Preps) /\ asked' = asked /\ status[p] = "running"
        /\ status \in [Preps -> Final \cup {"none", "queued", "running"}]
        /\ status' = [status EXCEPT ![p] = result]
  BY DEF Turns!End, Turns!Becomes, Turns!TypeOK, Turns!Final, Final
<1>2. \A i \in DOMAIN asked : asked[i] \in Preps
  BY <1>1
<1>3. result \notin {"none", "queued", "running"}
  BY DEF Final
<1>4. Turns!TypeOK'
  BY <1>1, <1>2, <1>3 DEF Turns!TypeOK, Turns!Final, Final
<1>5. Turns!OneOpen'
  BY <1>1, <1>3 DEF Turns!OneOpen, Turns!Open, Turns!SameWork
<1>6. Turns!FillHasItsRead'
  <2> SUFFICES ASSUME NEW q \in Preps, PhaseOf[q] = "fill", status'[q] # "none"
               PROVE  \E r \in Preps : CaseOf[r] = CaseOf[q]
                        /\ PhaseOf[r] = "read" /\ status'[r] = "ready"
    BY DEF Turns!FillHasItsRead
  <2>1. PICK r \in Preps :
          CaseOf[r] = CaseOf[q] /\ PhaseOf[r] = "read" /\ status[r] = "ready"
    BY <1>1 DEF Turns!FillHasItsRead
  <2>2. QED BY <1>1, <2>1
<1>7. Turns!NobodyOvertakes'
  BY <1>1, <1>2, <1>3 DEF Turns!NobodyOvertakes
<1>8. Turns!OneRuns'
  BY <1>1, <1>3 DEF Turns!OneRuns
<1>9. QED BY <1>4, <1>5, <1>6, <1>7, <1>8

LEMMA TurnInvStep ==
  ASSUME TurnInv, TurnStep
  PROVE  TurnInv'
<1>1. ASSUME NEW p \in Preps, Turns!Ask(p) \/ Turns!Start(p) \/ Turns!End(p)
      PROVE  TurnInv'
  BY <1>1, TurnAskKept, TurnStartKept, TurnEndKept
<1>2. CASE asked' = asked /\ status' = status
  BY <1>2 DEF TurnInv, Turns!TypeOK, Turns!OneRuns, Turns!OneOpen, Turns!Open,
             Turns!SameWork, Turns!FillHasItsRead, Turns!NobodyOvertakes
<1>3. QED BY <1>1, <1>2 DEF TurnStep, Turns!Next

\* A case never has two preparations of a phase open, a fill keeps the ready
\* read it was asked on, nobody that waits is overtaken, and each preparation
\* is in the queue once (request_bid_preparation, _CLAIM): by the queue alone,
\* whatever implements it.
THEOREM TurnsHold == KeepsTurns => []TurnInv
<1>1. Turns!Init => TurnInv
  BY DEF Turns!Init, TurnInv, Turns!TypeOK, Turns!OneRuns, Turns!OneOpen, Turns!Open,
         Turns!FillHasItsRead, Turns!NobodyOvertakes, Turns!Final
<1>2. TurnInv /\ [Turns!Next]_<<asked, status>> => TurnInv'
  BY TurnInvStep DEF TurnStep
<1>3. Turns!Spec <=> Turns!Init /\ [][Turns!Next]_<<asked, status>>
  BY DEF Turns!Spec, Turns!queue
<1>4. QED BY <1>1, <1>2, <1>3, PTL DEF KeepsTurns

\* So it is of the job.
THEOREM TurnsHoldAlways == Spec => []TurnInv
BY AlwaysKeepsTurns, TurnsHold, PTL
=============================================================================
