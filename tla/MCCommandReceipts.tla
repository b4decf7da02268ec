---------------------------- MODULE MCCommandReceipts ----------------------------
\* Six requests on one finding, two on each of three keys.
EXTENDS CommandReceipts, TLC

CONSTANTS t1, t2, d1, d2, d3, v1, k1, k2, k3, f1

Chosen(table) == [r \in Requests |-> table[r]]

KindsHere == Chosen(
  t1 :> "test" @@ t2 :> "test" @@ d1 :> "draft" @@ d2 :> "draft"
    @@ d3 :> "draft" @@ v1 :> "contact")
OneFinding == [r \in Requests |-> f1]

\* v1 and t1, and t2 and d1, use one key for two things; d3 is the retry of d2.
SharedKeys == Chosen(
  v1 :> k1 @@ t1 :> k1 @@ d2 :> k2 @@ d3 :> k2 @@ t2 :> k3 @@ d1 :> k3)

\* d2 and d3 are one request sent twice.
Retries == Permutations({d2, d3})
=============================================================================
