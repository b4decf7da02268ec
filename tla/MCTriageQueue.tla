---------------------------- MODULE MCTriageQueue ----------------------------
(* Small instances of TriageQueue: two slots, as in WORKER_CONCURRENCY.     *)
EXTENDS TriageQueue, TLC

RequestAndBounce == 1 :> "quote_request" @@ 2 :> "bounce"
=============================================================================
