\* Two requests at once on each page of the dashboard, and two contact forms.
SPECIFICATION MCSpec
CONSTANTS
  s1 = s1
  s2 = s2
  g1 = g1
  g2 = g2
  e1 = e1
  e2 = e2
  r1 = r1
  r2 = r2
  Session <- MCSession
  Contact <- MCContact
  Editor <- MCEditor
  MaxLeads = 2
  MaxMishaps = 1
  FlowRequest <- Requests
  MaxFlows = 4
  MaxIgnored = 1
  Page <- Requests
  MaxSaves = 3
  Agent <- Requests
  MaxHandoffs = 2
INVARIANTS
  EmailsAreBounded
  MarkedWasSent
  LateEditsAreBounded
  ActiveFlowsAreBounded
  SwitchLeavesOne
  SavedPartIsKept
PROPERTIES
  LeadsAreFollowedUp
  HandoffsOnlyAdvance
