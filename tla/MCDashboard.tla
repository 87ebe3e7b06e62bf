------------------------------ MODULE MCDashboard ------------------------------
(***************************************************************************)
(* The pages of the dashboard that keep tables of their own: leads, flows, *)
(* the settings of the widget and the inbox; and the check of the plan     *)
(* that most of them begin with.  The five modules share no variable, so   *)
(* that every property of one is a property of its own behaviours; a       *)
(* behaviour here is one of one module, chosen at the start, while the     *)
(* others stay as they are.                                                *)
(***************************************************************************)
EXTENDS LeadFollowUp, PlanChecks, Flows, WidgetSettings, HandoffInbox

CONSTANTS s1, s2, g1, g2, e1, e2, r1, r2

MCSession == {s1, s2}
MCContact == {g1, g2}
MCEditor  == {e1, e2}
Requests  == {r1, r2}

VARIABLE subject   \* the module whose behaviour this is

Pages == <<flowsVars, settingsVars, inboxVars>>
All   == <<vars, checksVars, Pages, subject>>

Is(this) == subject = this /\ UNCHANGED subject

OnLeads    == Is("leads")    /\ UNCHANGED <<checksVars, Pages>>
OnChecks   == Is("checks")   /\ UNCHANGED <<vars, Pages>>
OnFlows    == Is("flows")    /\ UNCHANGED <<vars, checksVars, settingsVars, inboxVars>>
OnSettings == Is("settings") /\ UNCHANGED <<vars, checksVars, flowsVars, inboxVars>>
OnInbox    == Is("inbox")    /\ UNCHANGED <<vars, checksVars, flowsVars, settingsVars>>

MCInit ==
  /\ subject \in {"leads", "checks", "flows", "settings", "inbox"}
  /\ Init /\ ChecksInit /\ FlowsInit /\ SettingsInit /\ InboxInit
  /\ subject # "leads" => plan = "free"
  /\ subject # "checks" => planType = "free"

MCNext ==
  \/ OnLeads /\ Next
  \/ OnChecks /\ ChecksNext
  \/ OnFlows /\ FlowsNext
  \/ OnSettings /\ SettingsNext
  \/ OnInbox /\ InboxNext

\* A goroutine of a contact goes on.
MCSpec ==
  MCInit /\ [][MCNext]_All /\ \A g \in Contact : WF_All(OnLeads /\ FollowUp(g))
===============================================================================
