---------------------------- MODULE MCServerProcess ----------------------------
(***************************************************************************)
(* What a server process does besides its requests: it migrates when it    *)
(* starts, and its background goroutine delivers webhooks and flushes the  *)
(* analytics.  The three modules share no variable, so that every property *)
(* of one is a property of its own behaviours; a behaviour here is one of  *)
(* one module, chosen at the start, while the others stay as they are.     *)
(***************************************************************************)
EXTENDS WebhookDelivery, AnalyticsBuffer, Migrator

CONSTANTS w1, p1, p2

OneWorker    == {w1}
TwoEvents    == {1, 2}
TwoProcesses == {p1, p2}
Views        == 1..2

VARIABLE subject   \* the module whose behaviour this is

All == <<vars, analyticsVars, migratorVars, subject>>

Delivers == subject = "webhooks"   /\ UNCHANGED <<analyticsVars, migratorVars, subject>>
Flushes  == subject = "analytics"  /\ UNCHANGED <<vars, migratorVars, subject>>
Migrates == subject = "migrations" /\ UNCHANGED <<vars, analyticsVars, subject>>

MCInit ==
  /\ subject \in {"webhooks", "analytics", "migrations"}
  /\ Init /\ AnalyticsInit /\ MigratorInit
  /\ subject # "webhooks" => ~enterprise

MCNext ==
  \/ Delivers /\ Next
  \/ Flushes /\ AnalyticsNext
  \/ Migrates /\ MigratorNext

\* The tickers keep every goroutine going, and time passes.
MCFairness ==
  /\ \A w \in Worker : WF_All(Delivers /\ Deliver(w))
  /\ \A e \in Event : WF_All(Delivers /\ TimePasses(e))
  /\ \A p \in Process : WF_All(Flushes /\ Flush(p))

MCSpec == MCInit /\ [][MCNext]_All /\ MCFairness
===============================================================================
