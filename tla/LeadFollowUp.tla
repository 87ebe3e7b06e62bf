------------------------------ MODULE LeadFollowUp ------------------------------
(***************************************************************************)
(* The leads of one account and their follow-up emails.  PublicContact     *)
(* writes the lead of a visitor's session and starts a goroutine that      *)
(* reads whether the lead was followed up, sends the email and marks the   *)
(* lead, each by a statement of its own.  Meanwhile the owner deletes      *)
(* leads, and an admin changes the plan.                                   *)
(***************************************************************************)
EXTENDS Naturals, FiniteSets

CONSTANTS Session,      \* sessions of visitors
          Contact,      \* contact forms whose goroutines run at once
          MaxLeads,     \* bound: rows of leads, one id each
          MaxMishaps    \* bound: failed statements and crashes

Plans == {"free", "basic", "pro", "enterprise"}

ASSUME ConstantsAssumption ==
  /\ IsFiniteSet(Contact)
  /\ MaxLeads \in Nat /\ MaxMishaps \in Nat

VARIABLES
  plan,       \* users.plan_type
  row,        \* session -> the id of its row in leads, 0 if it has none
  ids,        \* the last id given
  stamped,    \* rows whose follow_up_sent_at is set
  pc,         \* contact -> what its goroutine does next
  lead,       \* contact -> the id its goroutine works on
  emails,     \* lead -> emails given to the mailer
  forgotten,  \* history: lead -> emails whose mark was lost
  failed,     \* history: leads whose goroutine failed
  mishaps

table   == <<row, ids, stamped>>
threads == <<pc, lead>>
mail    == <<emails, forgotten, failed>>
vars    == <<plan, table, threads, mail, mishaps>>

Lead == 1..MaxLeads

Exists(l) == \E s \in Session : row[s] = l

TableOK ==
  /\ row \in [Session -> 0..ids] /\ ids \in 0..MaxLeads
  /\ \A s, t \in Session : row[s] = row[t] /\ row[s] # 0 => s = t
  /\ \A l \in stamped : l \in Lead /\ Exists(l)

ThreadsOK ==
  /\ pc \in [Contact -> {"idle", "plan", "stamp?", "send", "stamp"}]
  /\ lead \in [Contact -> 0..ids]
  /\ \A g \in Contact : lead[g] = 0 <=> pc[g] = "idle"

MailOK ==
  /\ emails \in [Lead -> Nat] /\ forgotten \in [Lead -> Nat]
  /\ failed \in SUBSET Lead

PlanOK == plan \in Plans /\ mishaps \in 0..MaxMishaps

TypeOK == TableOK /\ ThreadsOK /\ MailOK /\ PlanOK

Init ==
  /\ plan \in Plans
  /\ row = [s \in Session |-> 0] /\ ids = 0 /\ stamped = {}
  /\ pc = [g \in Contact |-> "idle"] /\ lead = [g \in Contact |-> 0]
  /\ emails = [l \in Lead |-> 0] /\ forgotten = [l \in Lead |-> 0]
  /\ failed = {} /\ mishaps = 0

\* The plans that send follow-ups, which are not those that may configure them.
Sends(p) == p \in {"basic", "enterprise"}

Mishap == mishaps < MaxMishaps /\ mishaps' = mishaps + 1

Goto(g, what) == pc' = [pc EXCEPT ![g] = what] /\ UNCHANGED lead

Return(g) == pc' = [pc EXCEPT ![g] = "idle"] /\ lead' = [lead EXCEPT ![g] = 0]

(***************************************************************************)
(* PublicContact: an insert that updates on conflict, and its goroutine.   *)
(***************************************************************************)

\* Mutant of Kept: a repeated contact clears the mark.
KeptNever(s) == stamped \ {row[s]}

Kept(s) == stamped

PublicContact(g, s) ==
  /\ pc[g] = "idle"
  /\ IF row[s] = 0
     THEN /\ ids < MaxLeads
          /\ ids' = ids + 1
          /\ row' = [row EXCEPT ![s] = ids + 1]
     ELSE UNCHANGED <<row, ids>>
  /\ stamped' = Kept(s)
  /\ \/ pc' = [pc EXCEPT ![g] = "plan"] /\ lead' = [lead EXCEPT ![g] = row'[s]]
     \/ UNCHANGED threads   \* no email in the form
  /\ UNCHANGED <<plan, mail, mishaps>>

ReadPlan(g) ==
  /\ pc[g] = "plan"
  /\ IF Sends(plan) THEN Goto(g, "stamp?") ELSE Return(g)
  /\ UNCHANGED <<plan, table, mail, mishaps>>

ReadStamp(g) ==
  /\ pc[g] = "stamp?"
  /\ IF Exists(lead[g]) /\ lead[g] \notin stamped THEN Goto(g, "send") ELSE Return(g)
  /\ UNCHANGED <<plan, table, mail, mishaps>>

SendFollowUpEmail(g) ==
  /\ pc[g] = "send"
  /\ emails' = [emails EXCEPT ![lead[g]] = @ + 1]
  /\ Goto(g, "stamp")
  /\ UNCHANGED <<plan, table, forgotten, failed, mishaps>>

\* A query of the goroutine fails.
FollowUpFails(g) ==
  /\ pc[g] \in {"plan", "stamp?", "send"} /\ Mishap
  /\ failed' = failed \cup {lead[g]}
  /\ Return(g)
  /\ UNCHANGED <<plan, table, emails, forgotten>>

\* Mutant of Marked: all leads of the account are marked.
MarkedAll(l) == stamped \cup {k \in Lead : Exists(k)}

Marked(l) == IF Exists(l) THEN stamped \cup {l} ELSE stamped

Stamp(g) ==
  /\ pc[g] = "stamp"
  /\ stamped' = Marked(lead[g])
  /\ Return(g)
  /\ UNCHANGED <<plan, row, ids, mail, mishaps>>

\* An error that is only logged.  When the mark was made, it is as if it had not
\* failed.
StampFails(g) ==
  /\ pc[g] = "stamp" /\ Mishap
  /\ forgotten' = [forgotten EXCEPT ![lead[g]] = @ + 1]
  /\ Return(g)
  /\ UNCHANGED <<plan, table, emails, failed>>

FollowUp(g) ==
  \/ ReadPlan(g) \/ ReadStamp(g) \/ SendFollowUpEmail(g) \/ FollowUpFails(g)
  \/ Stamp(g) \/ StampFails(g)

(***************************************************************************)
(* The dashboard and the admin.                                            *)
(***************************************************************************)
DeleteLead(s) ==
  /\ row[s] # 0
  /\ row' = [row EXCEPT ![s] = 0]
  /\ stamped' = stamped \ {row[s]}
  /\ UNCHANGED <<plan, ids, threads, mail, mishaps>>

AdminSetPlan ==
  /\ plan' \in Plans \ {plan}
  /\ UNCHANGED <<table, threads, mail, mishaps>>

-------------------------------------------------------------------------------
Working(l)  == {g \in Contact : lead[g] = l}
Stamping(l) == {g \in Contact : lead[g] = l /\ pc[g] = "stamp"}

Crash ==
  /\ Mishap
  /\ pc' = [g \in Contact |-> "idle"] /\ lead' = [g \in Contact |-> 0]
  /\ forgotten' = [l \in Lead |-> forgotten[l] + Cardinality(Stamping(l))]
  /\ failed' = failed \cup {l \in Lead : Working(l) # {}}
  /\ UNCHANGED <<plan, table, emails>>

Next ==
  \/ \E g \in Contact : (\E s \in Session : PublicContact(g, s)) \/ FollowUp(g)
  \/ \E s \in Session : DeleteLead(s)
  \/ AdminSetPlan
  \/ Crash

Spec == Init /\ [][Next]_vars

\* A goroutine goes on: its statements return, and nothing else holds it up.
Goes(g) == WF_vars(FollowUp(g))

FairSpec == Spec /\ \A g \in Contact : Goes(g)

-------------------------------------------------------------------------------
\* A lead gets no more follow-ups than goroutines run at once, but for those
\* whose mark was lost: once a mark is written, nobody new may send.
EmailsAreBounded ==
  \A l \in Lead : emails[l] <= Cardinality(Contact) + forgotten[l]

\* A lead that is marked as followed up was written to.
MarkedWasSent == \A l \in stamped : emails[l] > 0

Followed(l) == emails[l] > 0 \/ ~Exists(l) \/ ~Sends(plan) \/ l \in failed

\* A lead that leaves an email is followed up, unless the plan does not send
\* follow-ups, the lead is deleted, or a query of its goroutine fails.
LeadsAreFollowedUp ==
  \A g \in Contact, l \in Lead : lead[g] = l /\ pc[g] = "plan" ~> Followed(l)
-------------------------------------------------------------------------------
(***************************************************************************)
(* What the steps preserve: the strengthening behind the invariants.       *)
(***************************************************************************)
Sending(l) == {g \in Contact : lead[g] = l /\ pc[g] = "send"}

\* Nobody has written to an id that was not given yet.
FreshIsUnsent == \A l \in Lead : l > ids => emails[l] = 0

\* An email to an unmarked row lost its mark, or is being marked.
UnmarkedIsExplained ==
  \A l \in Lead : Exists(l) /\ l \notin stamped =>
    emails[l] <= forgotten[l] + Cardinality(Stamping(l))

\* The emails sent and those about to be sent.
SendsAreBounded ==
  \A l \in Lead :
    emails[l] + Cardinality(Sending(l)) <= forgotten[l] + Cardinality(Contact)

StampingWasSent == \A g \in Contact : pc[g] = "stamp" => emails[lead[g]] > 0

IEmails == FreshIsUnsent /\ UnmarkedIsExplained /\ SendsAreBounded
IMarks  == StampingWasSent /\ MarkedWasSent

\* A goroutine that has work has a step to take.
FollowUpsGoOn == \A g \in Contact : pc[g] # "idle" => ENABLED <<FollowUp(g)>>_vars
===============================================================================
