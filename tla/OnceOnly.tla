------------------------------ MODULE OnceOnly ------------------------------
(***************************************************************************)
(* What an Idempotency-Key promises (command_core.py, campaign_test_send): *)
(* of all the requests that carry a key at most one has its effect, at     *)
(* most once; the key is settled once and for all; and a request is told   *)
(* "ok" only when the effect it asked for has happened and is settled.     *)
(***************************************************************************)
EXTENDS Sequences

CONSTANTS Requests, Keys,
          KeyOf,      \* the Idempotency-Key of each request
          ContentOf   \* the request it stands for

VARIABLES
  effect,   \* what has been done under each key
  verdict,  \* none, completed or failed: what the key is settled as
  answer    \* each request: waiting, ok or no

promise == <<effect, verdict, answer>>

Say(r, word) ==
  /\ answer[r] = "waiting"
  /\ answer' = [answer EXCEPT ![r] = word]

Settle(k, result) ==
  /\ verdict[k] = "none"
  /\ verdict' = [verdict EXCEPT ![k] = result]

Perform(r) ==
  /\ effect[KeyOf[r]] = <<>> /\ verdict[KeyOf[r]] = "none"
  /\ effect' = [effect EXCEPT ![KeyOf[r]] = <<ContentOf[r]>>]

Begin(r) == Perform(r) /\ UNCHANGED <<verdict, answer>>

\* The effect and the receipt are one transaction; its answer may be lost.
PerformAndComplete(r) ==
  /\ Perform(r)
  /\ Settle(KeyOf[r], "completed")
  /\ Say(r, "ok") \/ Say(r, "no")

Complete(r) ==
  /\ effect[KeyOf[r]] = <<ContentOf[r]>>
  /\ Settle(KeyOf[r], "completed")
  /\ Say(r, "ok") \/ Say(r, "no")
  /\ UNCHANGED effect

GiveUp(r) ==
  /\ Settle(KeyOf[r], "failed") /\ Say(r, "no")
  /\ UNCHANGED effect

\* A replay.
SayOk(r) ==
  /\ verdict[KeyOf[r]] = "completed"
  /\ effect[KeyOf[r]] = <<ContentOf[r]>>
  /\ Say(r, "ok")
  /\ UNCHANGED <<effect, verdict>>

SayNo(r) == Say(r, "no") /\ UNCHANGED <<effect, verdict>>

Init ==
  /\ effect = [k \in Keys |-> <<>>]
  /\ verdict = [k \in Keys |-> "none"]
  /\ answer = [r \in Requests |-> "waiting"]

Next ==
  \E r \in Requests :
    \/ Begin(r) \/ PerformAndComplete(r) \/ Complete(r) \/ GiveUp(r)
    \/ SayOk(r) \/ SayNo(r)

Spec == Init /\ [][Next]_promise
=============================================================================
