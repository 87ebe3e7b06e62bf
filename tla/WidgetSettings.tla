---------------------------- MODULE WidgetSettings ----------------------------
(***************************************************************************)
(* The parts of widget_config of one account that have a page of their own *)
(* in the dashboard.  Their pages merge one part into the column; the page *)
(* of the widget replaces the column by what it was shown when it was      *)
(* opened, with its own changes.  A part is known by the number of the     *)
(* save that wrote it, 0 when it is missing.                               *)
(***************************************************************************)
EXTENDS Naturals

CONSTANTS Page,       \* open pages of the widget
          MaxSaves    \* bound: saves of parts

ASSUME SettingsAssumption == MaxSaves \in Nat

Part == {"persona", "navigation", "branding"}

VARIABLES
  hasWidget,  \* widget_keys has a row of the account
  config,     \* part -> what widget_config says of it
  shown,      \* page -> part -> what GetWidget answered
  opened,     \* pages that were shown a configuration
  saved,      \* history: part -> the last save of its own page
  outdated,   \* history: page -> parts saved since it was opened
  undone,     \* history: parts that something has replaced since their last save
  saves

settingsVars == <<hasWidget, config, shown, opened, saved, outdated, undone, saves>>

SettingsTypeOK ==
  /\ hasWidget \in BOOLEAN
  /\ config \in [Part -> 0..saves] /\ saved \in [Part -> 0..saves]
  /\ shown \in [Page -> [Part -> 0..saves]]
  /\ opened \subseteq Page
  /\ outdated \in [Page -> SUBSET Part] /\ undone \subseteq Part
  /\ saves \in 0..MaxSaves

Nothing == [f \in Part |-> 0]

SettingsInit ==
  /\ hasWidget = FALSE
  /\ config = Nothing /\ saved = Nothing
  /\ shown = [p \in Page |-> Nothing] /\ opened = {}
  /\ outdated = [p \in Page |-> {}] /\ undone = Part
  /\ saves = 0

GetWidget(p) ==
  /\ hasWidget
  /\ shown' = [shown EXCEPT ![p] = config]
  /\ opened' = opened \cup {p}
  /\ outdated' = [outdated EXCEPT ![p] = {}]
  /\ UNCHANGED <<hasWidget, config, saved, undone, saves>>

\* Mutant of Merged: the statement sets the column instead of merging into it.
MergedAlone(f, n) == [Nothing EXCEPT ![f] = n]

Merged(f, n) == [config EXCEPT ![f] = n]

\* One statement, which finds the row or changes nothing.
SavePart(f) ==
  /\ hasWidget /\ saves < MaxSaves
  /\ saves' = saves + 1
  /\ config' = Merged(f, saves + 1)
  /\ saved' = [saved EXCEPT ![f] = saves + 1]
  /\ undone' = undone \ {f}
  /\ outdated' = [p \in Page |-> outdated[p] \cup {f}]
  /\ UNCHANGED <<hasWidget, shown, opened>>

SavePersona    == SavePart("persona")
SaveNavigation == SavePart("navigation")
SaveBranding   == SavePart("branding")

\* What the dashboard sends of the parts it does not edit: those it was shown.
Sent(p) == shown[p]

\* The column becomes the payload; the handler ends with GetWidget.
UpdateSettings(p) ==
  /\ p \in opened /\ hasWidget
  /\ config' = Sent(p)
  /\ undone' = undone \cup outdated[p]
  /\ opened' = opened \ {p}
  /\ UNCHANGED <<hasWidget, shown, saved, outdated, saves>>

\* An upsert whose payload, that of a new widget, has none of the parts.
CreateSettings ==
  /\ hasWidget' = TRUE
  /\ config' = Nothing
  /\ undone' = Part
  /\ UNCHANGED <<shown, opened, saved, outdated, saves>>

DeleteSettings ==
  /\ hasWidget /\ hasWidget' = FALSE
  /\ UNCHANGED <<config, shown, opened, saved, outdated, undone, saves>>

SettingsNext ==
  \/ SavePersona \/ SaveNavigation \/ SaveBranding
  \/ \E p \in Page : GetWidget(p) \/ UpdateSettings(p)
  \/ CreateSettings
  \/ DeleteSettings

SettingsSpec == SettingsInit /\ [][SettingsNext]_settingsVars

-------------------------------------------------------------------------------
\* What the page of a part has saved stays as it was saved, whatever the other
\* pages merge and save at the same time, until the widget is saved from a page
\* that was opened before, or is created anew.
SavedPartIsKept ==
  hasWidget => \A f \in Part \ undone : config[f] = saved[f]

\* What the steps preserve: the configuration that an open page shows differs
\* from what was saved only in the parts that are accounted for.
ShownIsExplained ==
  \A p \in opened : \A f \in Part \ (undone \cup outdated[p]) : shown[p][f] = saved[f]
===============================================================================
