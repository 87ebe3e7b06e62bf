---------------------------- MODULE WebhookPromise ----------------------------
(***************************************************************************)
(* What an integrator may rely on of the lead webhooks, whatever the       *)
(* number of server processes that share the table lead_webhook_events:    *)
(* an event that was queued is never forgotten, nothing is posted that was *)
(* not queued, and an event is reported delivered only after the           *)
(* endpoint has received it.  It may be received more than once, and a     *)
(* settled event may be owed again.                                        *)
(***************************************************************************)
CONSTANT Event

VARIABLES obligation,   \* what the event table says of each event
          received      \* whether the endpoint has received the event

vars == <<obligation, received>>

Obligation == {"none", "owed", "kept", "givenUp"}

TypeOK ==
  /\ obligation \in [Event -> Obligation]
  /\ received \in [Event -> BOOLEAN]

Init ==
  /\ obligation = [e \in Event |-> "none"]
  /\ received = [e \in Event |-> FALSE]

Submit(e) ==
  /\ obligation[e] = "none"
  /\ obligation' = [obligation EXCEPT ![e] = "owed"]
  /\ UNCHANGED received

Receive(e) ==
  /\ obligation[e] # "none"
  /\ received' = [received EXCEPT ![e] = TRUE]
  /\ UNCHANGED obligation

Keep(e) ==
  /\ obligation[e] # "none"
  /\ received[e]
  /\ obligation' = [obligation EXCEPT ![e] = "kept"]
  /\ UNCHANGED received

GiveUp(e) ==
  /\ obligation[e] # "none"
  /\ obligation' = [obligation EXCEPT ![e] = "givenUp"]
  /\ UNCHANGED received

Reopen(e) ==
  /\ obligation[e] # "none"
  /\ obligation' = [obligation EXCEPT ![e] = "owed"]
  /\ UNCHANGED received

Next == \E e \in Event :
          Submit(e) \/ Receive(e) \/ Keep(e) \/ GiveUp(e) \/ Reopen(e)

Spec == Init /\ [][Next]_vars
===============================================================================
