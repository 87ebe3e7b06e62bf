------------------------------ MODULE PlanChecks ------------------------------
(***************************************************************************)
(* The requests of one account that only some plans may make: they edit    *)
(* flows, follow-ups, the pipeline of a lead, the persona, the navigation  *)
(* and the branding.  The plan is read once, when the request is           *)
(* authenticated; the handler decides by what was read, while an admin     *)
(* changes the plan.                                                       *)
(***************************************************************************)
EXTENDS Naturals, FiniteSets

CONSTANT Editor   \* requests served at once

ASSUME EditorAssumption == IsFiniteSet(Editor)

PlanTypes == {"free", "basic", "pro", "enterprise"}

VARIABLES
  planType,   \* users.plan_type
  read,       \* editor -> whether the plan it was authenticated with allows it
  late        \* history: edits since the plan last stopped to allow them

checksVars == <<planType, read, late>>

ChecksTypeOK ==
  /\ planType \in PlanTypes
  /\ read \in [Editor -> {"none", "allowed", "refused"}]
  /\ late \in Nat

ChecksInit ==
  /\ planType \in PlanTypes
  /\ read = [e \in Editor |-> "none"]
  /\ late = 0

\* HideBranding, HasCRM, HasFollowUp, HasFlows, HasPersona and HasNavigation are
\* given to the same plans.
HasFeatures(p) == p \in {"pro", "enterprise"}

AuthenticateUser(e) ==
  /\ read[e] = "none"
  /\ read' = [read EXCEPT ![e] = IF HasFeatures(planType) THEN "allowed" ELSE "refused"]
  /\ UNCHANGED <<planType, late>>

\* Mutant of Answered: what was read is kept for the next request.
AnsweredKept(e) == read

Answered(e) == [read EXCEPT ![e] = "none"]

\* The statements of the handler take effect.
Edit(e) ==
  /\ read[e] = "allowed"
  /\ read' = Answered(e)
  /\ late' = IF HasFeatures(planType) THEN late ELSE late + 1
  /\ UNCHANGED planType

\* The plan, a payload, a failed statement or a crash ends the request without an
\* edit.
RefuseEdit(e) ==
  /\ read[e] # "none"
  /\ read' = Answered(e)
  /\ UNCHANGED <<planType, late>>

AdminSetPlanType ==
  /\ planType' \in PlanTypes \ {planType}
  /\ late' = IF HasFeatures(planType) /\ ~HasFeatures(planType') THEN 0 ELSE late
  /\ UNCHANGED read

ChecksNext ==
  \/ \E e \in Editor : AuthenticateUser(e) \/ Edit(e) \/ RefuseEdit(e)
  \/ AdminSetPlanType

ChecksSpec == ChecksInit /\ [][ChecksNext]_checksVars

-------------------------------------------------------------------------------
\* An edit that the plan no longer allows comes only from a request that was
\* authenticated before the plan changed.
LateEditsAreBounded == late <= Cardinality(Editor)

\* What the steps preserve: the late edits, and those that are still to come.
Allowed == {e \in Editor : read[e] = "allowed"}

LateIsExplained ==
  ~HasFeatures(planType) => late + Cardinality(Allowed) <= Cardinality(Editor)
===============================================================================
