--------------------------------- MODULE Flows ---------------------------------
(***************************************************************************)
(* The conversation flows of one account, of which one is to be active.    *)
(* A request that saves a flow as active first deactivates the others and  *)
(* then writes its own row, each by a statement of its own; the error of   *)
(* the first is ignored.  Nothing in the table keeps a second flow from    *)
(* being active.                                                           *)
(***************************************************************************)
EXTENDS Naturals, FiniteSets

CONSTANTS FlowRequest,     \* requests of the dashboard, served at once
          MaxFlows,        \* bound: rows of conversation_flows, one id each
          MaxIgnored       \* bound: deactivations that fail in a row

ASSUME FlowsAssumption ==
  /\ IsFiniteSet(FlowRequest)
  /\ MaxFlows \in Nat /\ MaxIgnored \in Nat

VARIABLES
  flows,        \* rows of conversation_flows
  flowIds,      \* the last id given
  activeFlows,  \* rows with is_active
  saving,       \* request -> the statement it has yet to make to activate a flow
  target,       \* request -> the flow it activates, 0 for one it creates
  ignored,      \* history: deactivations that failed since the last that did not
  noneActive    \* history: what happened since a flow was last activated
                \* explains that none is

flowTable == <<flows, flowIds, activeFlows>>
savers    == <<saving, target>>
flowsVars == <<flowTable, savers, ignored, noneActive>>

FlowId == 1..MaxFlows

FlowsTypeOK ==
  /\ flowIds \in 0..MaxFlows
  /\ flows \subseteq 1..flowIds /\ activeFlows \subseteq flows
  /\ saving \in [FlowRequest -> {"nothing", "insert", "update"}]
  /\ target \in [FlowRequest -> 0..flowIds]
  /\ ignored \in 0..MaxIgnored /\ noneActive \in BOOLEAN

FlowsInit ==
  /\ flows = {} /\ flowIds = 0 /\ activeFlows = {}
  /\ saving = [r \in FlowRequest |-> "nothing"]
  /\ target = [r \in FlowRequest |-> 0]
  /\ ignored = 0 /\ noneActive = TRUE

\* The update of the others, whose error is not looked at.
Deactivate(kept) ==
  \/ activeFlows' = activeFlows \cap kept /\ ignored' = 0
  \/ ignored < MaxIgnored /\ ignored' = ignored + 1 /\ UNCHANGED activeFlows

Begins(r, what, f) ==
  /\ saving[r] = "nothing"
  /\ saving' = [saving EXCEPT ![r] = what]
  /\ target' = [target EXCEPT ![r] = f]
  /\ UNCHANGED <<flows, flowIds, noneActive>>

Ends(r) ==
  /\ saving' = [saving EXCEPT ![r] = "nothing"]
  /\ target' = [target EXCEPT ![r] = 0]

\* CreateFlow and UpdateFlow with isActive: the first of two statements.  The id of
\* an update is not looked up: its flow may have been deleted.
CreateActiveFlow(r) == Begins(r, "insert", 0) /\ Deactivate({})

\* Mutant of Others: nothing is deactivated.
OthersNone(f) == FlowId

Others(f) == {f}

UpdateActiveFlow(r, f) ==
  /\ f <= flowIds
  /\ Begins(r, "update", f)
  /\ Deactivate(Others(f))

InsertRow(active) ==
  /\ flowIds < MaxFlows
  /\ flowIds' = flowIds + 1
  /\ flows' = flows \cup {flowIds + 1}
  /\ activeFlows' = IF active THEN activeFlows \cup {flowIds + 1} ELSE activeFlows

InsertFlow(r) ==
  /\ saving[r] = "insert" /\ Ends(r)
  /\ InsertRow(TRUE)
  /\ noneActive' = FALSE
  /\ UNCHANGED ignored

\* Mutant of Written: the update leaves is_active out.
WrittenWithout(f) == activeFlows

Written(f) == IF f \in flows THEN activeFlows \cup {f} ELSE activeFlows

\* When no row has the id any more, the update changes nothing, and GetFlow
\* answers 404.
UpdateFlow(r) ==
  /\ saving[r] = "update" /\ Ends(r)
  /\ activeFlows' = Written(target[r])
  /\ noneActive' = (target[r] \notin flows)
  /\ UNCHANGED <<flows, flowIds, ignored>>

SaveFails(r) ==
  /\ saving[r] # "nothing" /\ Ends(r)
  /\ noneActive' = TRUE
  /\ UNCHANGED <<flowTable, ignored>>

\* Without isActive there is one statement.
CreateInactiveFlow ==
  /\ InsertRow(FALSE)
  /\ UNCHANGED <<savers, ignored, noneActive>>

UpdateInactiveFlow(f) ==
  /\ f \in flows
  /\ activeFlows' = activeFlows \ {f}
  /\ noneActive' = TRUE
  /\ UNCHANGED <<flows, flowIds, savers, ignored>>

DeleteFlow(f) ==
  /\ f \in flows
  /\ flows' = flows \ {f} /\ activeFlows' = activeFlows \ {f}
  /\ noneActive' = TRUE
  /\ UNCHANGED <<flowIds, savers, ignored>>

CrashSaving ==
  /\ saving' = [r \in FlowRequest |-> "nothing"]
  /\ target' = [r \in FlowRequest |-> 0]
  /\ noneActive' = TRUE
  /\ UNCHANGED <<flowTable, ignored>>

SaveFlow(r) ==
  \/ CreateActiveFlow(r) \/ (\E f \in FlowId : UpdateActiveFlow(r, f))
  \/ InsertFlow(r) \/ UpdateFlow(r) \/ SaveFails(r)

FlowsNext ==
  \/ \E r \in FlowRequest : SaveFlow(r)
  \/ \E f \in FlowId : UpdateInactiveFlow(f) \/ DeleteFlow(f)
  \/ CreateInactiveFlow
  \/ CrashSaving

FlowsSpec == FlowsInit /\ [][FlowsNext]_flowsVars

-------------------------------------------------------------------------------
Creating == {r \in FlowRequest : saving[r] = "insert"}
Updating == {r \in FlowRequest : saving[r] = "update"}

\* "Deactivate others first" leaves one active flow for each request served at
\* once, and one more for each deactivation that failed since the last that did
\* not; so one request after another keeps the single active flow.
ActiveFlowsAreBounded ==
  Cardinality(activeFlows) <= Cardinality(FlowRequest) + ignored

\* Once a flow was activated, one is, or is about to be: however activations
\* overlap, none is left active unless a statement failed, the activated flow
\* was gone, or the owner deactivated or deleted a flow.
SwitchLeavesOne ==
  ~noneActive => activeFlows # {} \/ Creating # {} \/ Updating # {}
-------------------------------------------------------------------------------
(***************************************************************************)
(* What the steps preserve: the flows that are active, or will be when the *)
(* requests under way have written their rows.                             *)
(***************************************************************************)
Targeted == activeFlows \cup {target[r] : r \in Updating}

FlowBudget ==
  Cardinality(Targeted) + Cardinality(Creating) <= Cardinality(FlowRequest) + ignored
===============================================================================
