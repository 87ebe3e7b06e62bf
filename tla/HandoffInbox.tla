----------------------------- MODULE HandoffInbox -----------------------------
(***************************************************************************)
(* The handoff requests of one account.  Agents act on the list they were  *)
(* shown, which the others may have changed since; every change is one     *)
(* statement, and its answer does not say whether a row was changed.       *)
(***************************************************************************)
EXTENDS Naturals

CONSTANTS Agent,         \* open inboxes
          MaxHandoffs    \* bound: rows of handoff_requests

ASSUME InboxAssumption == MaxHandoffs \in Nat

VARIABLES
  handoff,   \* id -> handoff_requests.status, or "none"
  listed,    \* agent -> the ids its list shows, with their status
  replied    \* ids that have rows in handoff_messages

inboxVars == <<handoff, listed, replied>>

Handoff == 1..MaxHandoffs

HandoffStatus == {"none", "pending", "claimed", "resolved"}

InboxTypeOK ==
  /\ handoff \in [Handoff -> HandoffStatus]
  /\ listed \in [Agent -> [Handoff -> HandoffStatus]]
  /\ replied \subseteq Handoff

InboxInit ==
  /\ handoff = [h \in Handoff |-> "none"]
  /\ listed = [a \in Agent |-> [h \in Handoff |-> "none"]]
  /\ replied = {}

RequestHandoff(h) ==
  /\ handoff[h] = "none" /\ \A g \in 1..(h - 1) : handoff[g] # "none"
  /\ handoff' = [handoff EXCEPT ![h] = "pending"]
  /\ UNCHANGED <<listed, replied>>

ListHandoffs(a) ==
  /\ listed' = [listed EXCEPT ![a] = handoff]
  /\ UNCHANGED <<handoff, replied>>

\* Mutant of Claimable: the update looks for the id alone.
ClaimableAny(h) == TRUE

Claimable(h) == handoff[h] = "pending"

\* Claimed from the list as a pending one; whether it still is, only the update
\* knows, which the agent is told succeeded.
ClaimHandoff(a, h) ==
  /\ listed[a][h] = "pending"
  /\ handoff' = IF Claimable(h) THEN [handoff EXCEPT ![h] = "claimed"] ELSE handoff
  /\ UNCHANGED <<listed, replied>>

ResolveHandoff(a, h) ==
  /\ listed[a][h] # "none"
  /\ handoff' = [handoff EXCEPT ![h] = "resolved"]
  /\ UNCHANGED <<listed, replied>>

\* Neither the count that looks for the row nor the insert asks for its status.
SendHandoffMessage(a, h) ==
  /\ listed[a][h] # "none"
  /\ replied' = replied \cup {h}
  /\ UNCHANGED <<handoff, listed>>

InboxNext ==
  \/ \E h \in Handoff : RequestHandoff(h)
  \/ \E a \in Agent :
       \/ ListHandoffs(a)
       \/ \E h \in Handoff : ClaimHandoff(a, h) \/ ResolveHandoff(a, h) \/ SendHandoffMessage(a, h)

InboxSpec == InboxInit /\ [][InboxNext]_inboxVars

-------------------------------------------------------------------------------
\* Agents who act on lists that are out of date never reopen a handoff: what is
\* claimed is not pending again, and what is resolved stays so although a claim
\* of it is answered with success (ClaimHandoff, ResolveHandoff).
HandoffsOnlyAdvance ==
  [][\A h \in Handoff :
       /\ handoff[h] = "claimed" => handoff'[h] \in {"claimed", "resolved"}
       /\ handoff[h] = "resolved" => handoff'[h] = "resolved"]_inboxVars
===============================================================================
