---------------------------- MODULE Dashboard_proofs ----------------------------
(***************************************************************************)
(* Proofs about the modules of MCDashboard, one after the other, each of   *)
(* its own specification, for any number of sessions, goroutines, requests *)
(* and pages, and any bounds.                                              *)
(***************************************************************************)
EXTENDS MCDashboard, FiniteSetTheorems, TLAPS

LEMMA PartIsFinite ==
  ASSUME NEW S, IsFiniteSet(S), NEW T \in SUBSET S
  PROVE  IsFiniteSet(T) /\ Cardinality(T) \in Nat /\ Cardinality(T) <= Cardinality(S)
         /\ Cardinality(S) \in Nat
BY FS_Subset, FS_CardinalityType

LEMMA OneMore ==
  ASSUME NEW S, IsFiniteSet(S), NEW T \in SUBSET S, NEW x \in S \ T
  PROVE  Cardinality(T \cup {x}) = Cardinality(T) + 1
BY PartIsFinite, FS_AddElement

LEMMA OneLess ==
  ASSUME NEW S, IsFiniteSet(S), NEW T \in SUBSET S, NEW x \in T
  PROVE  Cardinality(T \ {x}) = Cardinality(T) - 1
BY PartIsFinite, FS_RemoveElement

-------------------------------------------------------------------------------
(***************************************************************************)
(* LeadFollowUp: how many work on a lead, and the types.                   *)
(***************************************************************************)
LEMMA WorkersAreCounted ==
  ASSUME NEW l
  PROVE  /\ Cardinality(Stamping(l)) \in Nat /\ Cardinality(Sending(l)) \in Nat
         /\ Cardinality(Contact) \in Nat
         /\ Cardinality(Stamping(l)) + Cardinality(Sending(l)) <= Cardinality(Contact)
<1>1. /\ Stamping(l) \in SUBSET Contact /\ Sending(l) \in SUBSET Contact
      /\ Stamping(l) \cup Sending(l) \in SUBSET Contact
  BY DEF Stamping, Sending
<1>2. Stamping(l) \cap Sending(l) = {}
  BY DEF Stamping, Sending
<1>3. /\ IsFiniteSet(Stamping(l)) /\ IsFiniteSet(Sending(l))
      /\ Cardinality(Stamping(l)) \in Nat /\ Cardinality(Sending(l)) \in Nat
      /\ Cardinality(Contact) \in Nat
      /\ Cardinality(Stamping(l) \cup Sending(l)) <= Cardinality(Contact)
  BY <1>1, PartIsFinite, ConstantsAssumption
<1>4. Cardinality(Stamping(l) \cup Sending(l))
        = Cardinality(Stamping(l)) + Cardinality(Sending(l))
             - Cardinality(Stamping(l) \cap Sending(l))
  BY <1>3, FS_Union
<1>5. Cardinality({}) = 0
  BY FS_EmptySet
<1>6. QED
  BY <1>2, <1>3, <1>4, <1>5

LEMMA GotoTypes ==
  ASSUME ThreadsOK, NEW g \in Contact, pc[g] # "idle",
         NEW what \in {"stamp?", "send", "stamp"}, Goto(g, what), UNCHANGED ids
  PROVE  ThreadsOK'
BY DEF Goto, ThreadsOK

LEMMA ReturnTypes ==
  ASSUME ThreadsOK, ids \in Nat, NEW g \in Contact, Return(g), UNCHANGED ids
  PROVE  ThreadsOK'
BY DEF Return, ThreadsOK

LEMMA WorksOnALead ==
  ASSUME TypeOK, NEW g \in Contact, pc[g] # "idle"
  PROVE  lead[g] \in Lead /\ lead[g] <= ids
BY ConstantsAssumption DEF TypeOK, ThreadsOK, TableOK, Lead

LEMMA ContactTypes ==
  ASSUME TypeOK, NEW g \in Contact, NEW s \in Session, PublicContact(g, s)
  PROVE  TypeOK'
<1>1. row \in [Session -> 0..ids] /\ ids \in 0..MaxLeads /\ MaxLeads \in Nat
  BY ConstantsAssumption DEF TypeOK, TableOK
<1>2. /\ ids' \in 0..MaxLeads /\ ids <= ids' /\ row' \in [Session -> 0..ids']
      /\ row'[s] # 0 /\ row'[s] \in 0..ids'
      /\ \A t \in Session : t # s => row'[t] = row[t]
  BY <1>1 DEF PublicContact
<1>3. \A t, u \in Session : row'[t] = row'[u] /\ row'[t] # 0 => t = u
  <2>1. CASE row[s] = 0
    <3>1. row' = [row EXCEPT ![s] = ids + 1]
      BY <2>1 DEF PublicContact
    <3>2. \A t \in Session : row[t] # ids + 1
      BY <1>1
    <3>3. QED
      BY <1>1, <3>1, <3>2 DEF TypeOK, TableOK
  <2>2. CASE row[s] # 0
    BY <2>2 DEF PublicContact, TypeOK, TableOK
  <2>3. QED
    BY <2>1, <2>2
<1>4. \A l \in stamped' : l \in Lead /\ Exists(l)'
  <2>1. stamped' = stamped
    BY DEF PublicContact, Kept
  <2>2. \A l : l # 0 /\ Exists(l) => Exists(l)'
    BY <1>1, <1>2 DEF PublicContact, Exists
  <2>3. QED
    BY <2>1, <2>2 DEF TypeOK, TableOK, Lead
<1>5. TableOK'
  BY <1>2, <1>3, <1>4 DEF TableOK, Lead
<1>6. ThreadsOK'
  BY <1>1, <1>2 DEF PublicContact, TypeOK, ThreadsOK, threads
<1>7. QED
  BY <1>5, <1>6 DEF PublicContact, TypeOK, MailOK, PlanOK, mail, Lead

LEMMA FollowUpTypes ==
  ASSUME TypeOK, NEW g \in Contact, FollowUp(g)
  PROVE  TypeOK'
<1>0. ids \in Nat /\ MaxMishaps \in Nat
  BY ConstantsAssumption DEF TypeOK, TableOK
<1>1. ASSUME ReadPlan(g) \/ ReadStamp(g) PROVE TypeOK'
  <2>1. ThreadsOK'
    BY <1>0, <1>1, GotoTypes, ReturnTypes DEF ReadPlan, ReadStamp, table, TypeOK
  <2>2. TableOK'
    BY <1>1 DEF ReadPlan, ReadStamp, table, TypeOK, TableOK, Exists, Lead
  <2>3. QED
    BY <1>1, <2>1, <2>2 DEF ReadPlan, ReadStamp, mail, TypeOK, MailOK, PlanOK, Lead
<1>2. ASSUME SendFollowUpEmail(g) PROVE TypeOK'
  <2>1. ThreadsOK'
    BY <1>2, GotoTypes DEF SendFollowUpEmail, table, TypeOK
  <2>2. TableOK'
    BY <1>2 DEF SendFollowUpEmail, table, TypeOK, TableOK, Exists, Lead
  <2>3. MailOK'
    <3>1. /\ emails \in [Lead -> Nat] /\ lead[g] \in Lead
          /\ emails' = [emails EXCEPT ![lead[g]] = emails[lead[g]] + 1]
      BY <1>2, WorksOnALead DEF SendFollowUpEmail, TypeOK, MailOK
    <3>2. emails' \in [Lead -> Nat]
      BY <3>1
    <3>3. QED
      BY <1>2, <3>2 DEF SendFollowUpEmail, TypeOK, MailOK, Lead
  <2>4. QED
    BY <1>2, <2>1, <2>2, <2>3 DEF SendFollowUpEmail, TypeOK, PlanOK
<1>3. ASSUME FollowUpFails(g) \/ StampFails(g) PROVE TypeOK'
  <2>1. ThreadsOK'
    BY <1>0, <1>3, ReturnTypes DEF FollowUpFails, StampFails, table, TypeOK
  <2>2. TableOK'
    BY <1>3 DEF FollowUpFails, StampFails, table, TypeOK, TableOK, Exists, Lead
  <2>3. lead[g] \in Lead
    BY <1>3, WorksOnALead DEF FollowUpFails, StampFails
  <2>4. MailOK'
    <3>1. forgotten \in [Lead -> Nat] /\ emails \in [Lead -> Nat] /\ emails' = emails
      BY <1>3 DEF FollowUpFails, StampFails, TypeOK, MailOK
    <3>2. forgotten' \in [Lead -> Nat]
      BY <1>3, <3>1 DEF FollowUpFails, StampFails
    <3>3. failed' \in SUBSET Lead
      BY <1>3, <2>3 DEF FollowUpFails, StampFails, TypeOK, MailOK
    <3>4. QED
      BY <3>1, <3>2, <3>3 DEF MailOK, Lead
  <2>5. PlanOK'
    BY <1>0, <1>3 DEF FollowUpFails, StampFails, Mishap, TypeOK, PlanOK
  <2>6. QED
    BY <2>1, <2>2, <2>4, <2>5 DEF TypeOK
<1>4. ASSUME Stamp(g) PROVE TypeOK'
  <2>1. ThreadsOK'
    BY <1>0, <1>4, ReturnTypes DEF Stamp, TypeOK
  <2>2. lead[g] \in Lead
    BY <1>4, WorksOnALead DEF Stamp
  <2>3. TableOK'
    BY <1>4, <2>2 DEF Stamp, Marked, TypeOK, TableOK, Exists, Lead
  <2>4. QED
    BY <1>4, <2>1, <2>3 DEF Stamp, mail, TypeOK, MailOK, PlanOK, Lead
<1>5. QED
  BY <1>1, <1>2, <1>3, <1>4 DEF FollowUp

LEMMA DeleteTypes ==
  ASSUME TypeOK, NEW s \in Session, DeleteLead(s)
  PROVE  TypeOK'
<1>1. /\ row' \in [Session -> 0..ids'] /\ ids' \in 0..MaxLeads
      /\ \A t, u \in Session : row'[t] = row'[u] /\ row'[t] # 0 => t = u
  BY DEF DeleteLead, TypeOK, TableOK
<1>2. \A l \in stamped' : l \in Lead /\ Exists(l)'
  BY DEF DeleteLead, TypeOK, TableOK, Exists, Lead
<1>3. ThreadsOK'
  BY DEF DeleteLead, threads, TypeOK, ThreadsOK
<1>4. QED
  BY <1>1, <1>2, <1>3 DEF DeleteLead, mail, TypeOK, TableOK, MailOK, PlanOK, Lead

LEMMA ChangedPlanTypes ==
  ASSUME TypeOK, AdminSetPlan
  PROVE  TypeOK'
<1>1. UNCHANGED <<table, threads, mail, mishaps>>
  BY DEF AdminSetPlan
<1>2. PlanOK'
  BY DEF AdminSetPlan, TypeOK, PlanOK
<1>3. TableOK'
  BY <1>1 DEF table, TypeOK, TableOK, Exists, Lead
<1>4. QED
  BY <1>1, <1>2, <1>3 DEF table, threads, mail, TypeOK, ThreadsOK, MailOK, Lead

LEMMA CrashTypes ==
  ASSUME TypeOK, Crash
  PROVE  TypeOK'
<1>1. ThreadsOK'
  BY DEF Crash, table, TypeOK, TableOK, ThreadsOK
<1>2. TableOK'
  BY DEF Crash, table, TypeOK, TableOK, Exists, Lead
<1>3. MailOK'
  <2>1. /\ emails' \in [Lead -> Nat] /\ failed' \in SUBSET Lead
        /\ forgotten \in [Lead -> Nat]
        /\ forgotten' = [l \in Lead |-> forgotten[l] + Cardinality(Stamping(l))]
    BY DEF Crash, TypeOK, MailOK
  <2>2. forgotten' \in [Lead -> Nat]
    BY <2>1, WorkersAreCounted
  <2>3. QED
    BY <2>1, <2>2 DEF MailOK, Lead
<1>4. PlanOK'
  BY ConstantsAssumption DEF Crash, Mishap, TypeOK, PlanOK
<1>5. QED
  BY <1>1, <1>2, <1>3, <1>4 DEF TypeOK

\* The leads, the goroutines and the histories keep their shape; no two sessions
\* have one row, and no mark outlives its row.
THEOREM TypeCorrect == Spec => []TypeOK
<1>1. Init => TypeOK
  BY ConstantsAssumption DEF Init, TypeOK, TableOK, ThreadsOK, MailOK, PlanOK, Lead
<1>2. TypeOK /\ [Next]_vars => TypeOK'
  <2> SUFFICES ASSUME TypeOK, [Next]_vars PROVE TypeOK'
    OBVIOUS
  <2>1. CASE Next
    BY <2>1, ContactTypes, FollowUpTypes, DeleteTypes, ChangedPlanTypes, CrashTypes DEF Next
  <2>2. CASE UNCHANGED vars
    BY <2>2 DEF vars, table, threads, mail, TypeOK, TableOK, ThreadsOK, MailOK,
         PlanOK, Exists, Lead
  <2>3. QED
    BY <2>1, <2>2
<1>3. QED
  BY <1>1, <1>2, PTL DEF Spec

(***************************************************************************)
(* Emails.                                                                 *)
(***************************************************************************)

\* A step that sends nothing and loses no mark.
LEMMA NothingSent ==
  ASSUME TypeOK, IEmails, ids' \in Nat, ids <= ids',
         UNCHANGED <<emails, forgotten>>,
         \A l \in Lead : Sending(l)' \subseteq Sending(l),
         \A l \in Lead : Exists(l)' /\ l \notin stamped' =>
           l > ids \/ (Exists(l) /\ l \notin stamped /\ Stamping(l)' = Stamping(l))
  PROVE  IEmails'
<1>1. /\ Lead' = Lead /\ Lead \subseteq Nat /\ ids \in Nat
      /\ emails \in [Lead -> Nat] /\ forgotten \in [Lead -> Nat]
  BY ConstantsAssumption DEF TypeOK, TableOK, MailOK, Lead
<1>2. FreshIsUnsent'
  BY <1>1 DEF IEmails, FreshIsUnsent
<1>3. ASSUME NEW l \in Lead, Exists(l)', l \notin stamped'
      PROVE  emails'[l] <= forgotten'[l] + Cardinality(Stamping(l)')
  <2>1. CASE l > ids
    <3>1. emails'[l] = 0
      BY <2>1 DEF IEmails, FreshIsUnsent
    <3>2. Stamping(l)' \in SUBSET Contact
      BY DEF Stamping
    <3>3. Cardinality(Stamping(l)') \in Nat
      BY <3>2, PartIsFinite, ConstantsAssumption
    <3>4. QED
      BY <1>1, <3>1, <3>3
  <2>2. CASE ~(l > ids)
    BY <1>3, <2>2 DEF IEmails, UnmarkedIsExplained
  <2>3. QED
    BY <2>1, <2>2
<1>4. ASSUME NEW l \in Lead
      PROVE  emails'[l] + Cardinality(Sending(l)') <= forgotten'[l] + Cardinality(Contact)
  <2>1. IsFiniteSet(Sending(l)) /\ Sending(l)' \in SUBSET Sending(l)
    BY PartIsFinite, ConstantsAssumption DEF Sending
  <2>2. /\ Cardinality(Sending(l)') \in Nat /\ Cardinality(Sending(l)) \in Nat
        /\ Cardinality(Sending(l)') <= Cardinality(Sending(l))
    BY <2>1, PartIsFinite
  <2>3. emails[l] + Cardinality(Sending(l)) <= forgotten[l] + Cardinality(Contact)
    BY DEF IEmails, SendsAreBounded
  <2>4. QED
    BY <1>1, <2>2, <2>3, WorkersAreCounted
<1>5. QED
  BY <1>1, <1>2, <1>3, <1>4 DEF IEmails, UnmarkedIsExplained, SendsAreBounded

LEMMA ContactKeepsEmails ==
  ASSUME TypeOK, IEmails, NEW g \in Contact, NEW s \in Session, PublicContact(g, s)
  PROVE  IEmails'
<1>1. ids' \in Nat /\ ids <= ids' /\ UNCHANGED <<emails, forgotten, stamped>>
  BY DEF PublicContact, Kept, mail, TypeOK, TableOK
<1>2. \A l \in Lead : Sending(l)' = Sending(l) /\ Stamping(l)' = Stamping(l)
  BY DEF PublicContact, threads, Sending, Stamping, TypeOK, ThreadsOK
<1>3. ASSUME NEW l \in Lead, Exists(l)', ~Exists(l) PROVE l > ids
  <2>1. PICK t \in Session : row'[t] = l
    BY <1>3 DEF Exists
  <2>2. row[t] # l
    BY <1>3 DEF Exists
  <2>3. l = ids + 1
    BY <2>1, <2>2 DEF PublicContact, TypeOK, TableOK
  <2>4. QED
    BY <2>3 DEF TypeOK, TableOK
<1>4. QED
  BY <1>1, <1>2, <1>3, NothingSent

LEMMA ReturnCounts ==
  ASSUME TypeOK, NEW g \in Contact, Return(g), NEW l \in Lead
  PROVE  /\ Sending(l)' = Sending(l) \ {g} /\ Stamping(l)' = Stamping(l) \ {g}
         /\ pc[g] # "stamp" \/ lead[g] # l => Stamping(l)' = Stamping(l)
BY DEF Return, Sending, Stamping, TypeOK, ThreadsOK, Lead

LEMMA ReadKeepsEmails ==
  ASSUME TypeOK, IEmails, NEW g \in Contact, ReadPlan(g) \/ ReadStamp(g)
  PROVE  IEmails'
<1>1. /\ ids' = ids /\ ids \in Nat
      /\ UNCHANGED <<emails, forgotten, stamped>> /\ \A l \in Lead : Exists(l)' <=> Exists(l)
  BY DEF ReadPlan, ReadStamp, mail, table, TypeOK, TableOK, Exists
<1>2. CASE Return(g)
  <2>1. pc[g] # "stamp"
    BY DEF ReadPlan, ReadStamp
  <2>2. \A l \in Lead : Sending(l)' \subseteq Sending(l) /\ Stamping(l)' = Stamping(l)
    BY <1>2, <2>1, ReturnCounts
  <2>3. QED
    BY <1>1, <2>2, NothingSent
<1>3. CASE Goto(g, "stamp?") /\ pc[g] = "plan"
  <2>1. \A l \in Lead : Sending(l)' = Sending(l) /\ Stamping(l)' = Stamping(l)
    BY <1>3 DEF Goto, Sending, Stamping, TypeOK, ThreadsOK
  <2>2. QED
    BY <1>1, <2>1, NothingSent
<1>4. CASE ReadStamp(g) /\ Goto(g, "send")
  <2>1. /\ pc[g] = "stamp?" /\ Exists(lead[g]) /\ lead[g] \notin stamped
        /\ lead[g] \in Lead
    BY <1>4, WorksOnALead DEF ReadStamp, Goto, Return, TypeOK, ThreadsOK
  <2>2. \A l \in Lead : Stamping(l)' = Stamping(l)
    BY <1>4, <2>1 DEF Goto, Stamping, TypeOK, ThreadsOK
  <2>3. \A l \in Lead : l # lead[g] => Sending(l)' = Sending(l)
    BY <1>4 DEF Goto, Sending, TypeOK, ThreadsOK
  <2>4. Lead' = Lead /\ emails \in [Lead -> Nat] /\ forgotten \in [Lead -> Nat]
    BY DEF TypeOK, MailOK, Lead
  <2>5. FreshIsUnsent'
    BY <1>1, <2>4 DEF IEmails, FreshIsUnsent
  <2>6. UnmarkedIsExplained'
    BY <1>1, <2>2, <2>4 DEF IEmails, UnmarkedIsExplained
  <2>7. emails[lead[g]] <= forgotten[lead[g]] + Cardinality(Stamping(lead[g]))
    BY <2>1 DEF IEmails, UnmarkedIsExplained
  <2>8. ASSUME NEW l \in Lead
        PROVE  emails'[l] + Cardinality(Sending(l)') <= forgotten'[l] + Cardinality(Contact)
    <3>1. CASE l = lead[g]
      <4>1. /\ Sending(l)' \in SUBSET Contact /\ Stamping(l) \in SUBSET Contact
            /\ Sending(l)' \cap Stamping(l) = {}
            /\ Sending(l)' \cup Stamping(l) \in SUBSET Contact
        BY <1>4, <2>1 DEF Goto, Sending, Stamping, TypeOK, ThreadsOK
      <4>2. /\ IsFiniteSet(Sending(l)') /\ IsFiniteSet(Stamping(l))
            /\ Cardinality(Sending(l)') \in Nat /\ Cardinality(Stamping(l)) \in Nat
            /\ Cardinality(Contact) \in Nat
            /\ Cardinality(Sending(l)' \cup Stamping(l)) <= Cardinality(Contact)
        BY <4>1, PartIsFinite, ConstantsAssumption
      <4>3. Cardinality(Sending(l)' \cup Stamping(l))
              = Cardinality(Sending(l)') + Cardinality(Stamping(l))
                  - Cardinality(Sending(l)' \cap Stamping(l))
        BY <4>2, FS_Union
      <4>4. Cardinality(Sending(l)' \cap Stamping(l)) = 0
        BY <4>1, FS_EmptySet
      <4>5. /\ emails'[l] = emails[l] /\ forgotten'[l] = forgotten[l]
            /\ emails[l] \in Nat /\ forgotten[l] \in Nat
        BY <1>1, <2>4
      <4>6. emails[l] <= forgotten[l] + Cardinality(Stamping(l))
        BY <2>7, <3>1
      <4>7. QED
        BY <4>2, <4>3, <4>4, <4>5, <4>6
    <3>2. CASE l # lead[g]
      BY <1>1, <2>3, <3>2 DEF IEmails, SendsAreBounded
    <3>3. QED
      BY <3>1, <3>2
  <2>9. QED
    BY <2>4, <2>5, <2>6, <2>8 DEF IEmails, SendsAreBounded
<1>5. QED
  BY <1>2, <1>3, <1>4 DEF ReadPlan, ReadStamp

LEMMA SendKeepsEmails ==
  ASSUME TypeOK, IEmails, NEW g \in Contact, SendFollowUpEmail(g)
  PROVE  IEmails'
<1>1. /\ lead[g] \in Lead /\ lead[g] <= ids /\ pc[g] = "send"
  BY WorksOnALead DEF SendFollowUpEmail
<1>2. /\ Lead' = Lead /\ emails \in [Lead -> Nat] /\ forgotten \in [Lead -> Nat]
      /\ ids \in Nat /\ Lead \subseteq Nat
      /\ UNCHANGED <<ids, stamped, forgotten>> /\ \A l \in Lead : Exists(l)' <=> Exists(l)
  BY DEF SendFollowUpEmail, table, TypeOK, TableOK, MailOK, Lead, Exists
<1>3. emails'[lead[g]] = emails[lead[g]] + 1
      /\ \A l \in Lead : l # lead[g] => emails'[l] = emails[l]
  <2>1. /\ emails \in [Lead -> Nat] /\ lead[g] \in Lead
        /\ emails' = [emails EXCEPT ![lead[g]] = @ + 1]
    BY <1>1, <1>2 DEF SendFollowUpEmail
  <2>2. QED
    BY ONLY <2>1
<1>4. FreshIsUnsent'
  <2>1. ASSUME NEW l \in Lead, l > ids PROVE emails'[l] = 0
    <3>1. emails[l] = 0
      BY <2>1 DEF IEmails, FreshIsUnsent
    <3>2. l # lead[g]
      BY <1>1, <1>2, <2>1
    <3>3. QED
      BY <1>3, <3>1, <3>2
  <2>2. QED
    BY <1>2, <2>1 DEF FreshIsUnsent
<1>5. \A l \in Lead : l # lead[g] => Sending(l)' = Sending(l) /\ Stamping(l)' = Stamping(l)
  BY DEF SendFollowUpEmail, Goto, Sending, Stamping, TypeOK, ThreadsOK
<1>6. ASSUME NEW l \in Lead, l = lead[g]
      PROVE  /\ Cardinality(Stamping(l)') = Cardinality(Stamping(l)) + 1
             /\ Cardinality(Sending(l)') = Cardinality(Sending(l)) - 1
             /\ emails'[l] = emails[l] + 1
  <2>1. /\ Stamping(l)' = Stamping(l) \cup {g}
        /\ Stamping(l) \in SUBSET Contact /\ g \in Contact \ Stamping(l)
    BY <1>1, <1>6 DEF SendFollowUpEmail, Goto, Stamping, TypeOK, ThreadsOK
  <2>2. /\ Sending(l)' = Sending(l) \ {g}
        /\ Sending(l) \in SUBSET Contact /\ g \in Sending(l)
    BY <1>1, <1>6 DEF SendFollowUpEmail, Goto, Sending, TypeOK, ThreadsOK
  <2>3. QED
    BY <1>3, <1>6, <2>1, <2>2, OneMore, OneLess, ConstantsAssumption
<1>7. ASSUME NEW l \in Lead, Exists(l)', l \notin stamped'
      PROVE  emails'[l] <= forgotten'[l] + Cardinality(Stamping(l)')
  <2>1. emails[l] <= forgotten[l] + Cardinality(Stamping(l))
    BY <1>2, <1>7 DEF IEmails, UnmarkedIsExplained
  <2>2. CASE l = lead[g]
    <3>1. /\ emails[l] \in Nat /\ forgotten[l] \in Nat /\ forgotten'[l] = forgotten[l]
          /\ Cardinality(Stamping(l)) \in Nat /\ Cardinality(Sending(l)) \in Nat
          /\ Cardinality(Contact) \in Nat
      BY <1>2, WorkersAreCounted
    <3>2. QED
      BY <1>6, <2>1, <2>2, <3>1
  <2>3. CASE l # lead[g]
    BY <1>2, <1>3, <1>5, <2>1, <2>3
  <2>4. QED
    BY <2>2, <2>3
<1>8. ASSUME NEW l \in Lead
      PROVE  emails'[l] + Cardinality(Sending(l)') <= forgotten'[l] + Cardinality(Contact)
  <2>1. emails[l] + Cardinality(Sending(l)) <= forgotten[l] + Cardinality(Contact)
    BY DEF IEmails, SendsAreBounded
  <2>2. CASE l = lead[g]
    <3>1. /\ emails[l] \in Nat /\ forgotten[l] \in Nat /\ forgotten'[l] = forgotten[l]
          /\ Cardinality(Stamping(l)) \in Nat /\ Cardinality(Sending(l)) \in Nat
          /\ Cardinality(Contact) \in Nat
      BY <1>2, WorkersAreCounted
    <3>2. QED
      BY <1>6, <2>1, <2>2, <3>1
  <2>3. CASE l # lead[g]
    BY <1>2, <1>3, <1>5, <2>1, <2>3
  <2>4. QED
    BY <2>2, <2>3
<1>9. QED
  BY <1>2, <1>4, <1>7, <1>8 DEF IEmails, UnmarkedIsExplained, SendsAreBounded

LEMMA MarkKeepsEmails ==
  ASSUME TypeOK, IEmails, NEW g \in Contact, Stamp(g) \/ FollowUpFails(g)
  PROVE  IEmails'
<1>1. /\ Return(g) /\ ids' = ids /\ ids \in Nat /\ UNCHANGED <<emails, forgotten>>
      /\ \A l \in Lead : Exists(l)' <=> Exists(l)
  BY DEF Stamp, FollowUpFails, mail, table, TypeOK, TableOK, Exists
<1>2. \A l \in Lead : Sending(l)' \subseteq Sending(l)
  BY <1>1, ReturnCounts
<1>3. ASSUME NEW l \in Lead, Exists(l)', l \notin stamped'
      PROVE  Exists(l) /\ l \notin stamped /\ Stamping(l)' = Stamping(l)
  <2>1. CASE Stamp(g)
    <3>1. lead[g] # l /\ l \notin stamped
      BY <1>1, <1>3, <2>1 DEF Stamp, Marked
    <3>2. QED
      BY <1>1, <1>3, <3>1, ReturnCounts
  <2>2. CASE FollowUpFails(g)
    <3>1. pc[g] # "stamp" /\ l \notin stamped
      BY <1>3, <2>2 DEF FollowUpFails, table
    <3>2. QED
      BY <1>1, <1>3, <3>1, ReturnCounts
  <2>3. QED
    BY <2>1, <2>2
<1>4. QED
  BY <1>1, <1>2, <1>3, NothingSent

LEMMA StampFailsKeepsEmails ==
  ASSUME TypeOK, IEmails, NEW g \in Contact, StampFails(g)
  PROVE  IEmails'
<1>1. /\ Return(g) /\ pc[g] = "stamp" /\ lead[g] \in Lead
  BY WorksOnALead DEF StampFails
<1>2. /\ Lead' = Lead /\ emails \in [Lead -> Nat] /\ forgotten \in [Lead -> Nat]
      /\ UNCHANGED <<ids, stamped, emails>> /\ \A l \in Lead : Exists(l)' <=> Exists(l)
  BY DEF StampFails, table, TypeOK, MailOK, Lead, Exists
<1>3. \A l \in Lead : forgotten'[l] = IF l = lead[g] THEN forgotten[l] + 1 ELSE forgotten[l]
  BY <1>1, <1>2 DEF StampFails
<1>4. FreshIsUnsent'
  BY <1>2 DEF IEmails, FreshIsUnsent
<1>5. ASSUME NEW l \in Lead, Exists(l)', l \notin stamped'
      PROVE  emails'[l] <= forgotten'[l] + Cardinality(Stamping(l)')
  <2>1. /\ emails[l] <= forgotten[l] + Cardinality(Stamping(l))
        /\ emails'[l] = emails[l] /\ emails[l] \in Nat /\ forgotten[l] \in Nat
        /\ Cardinality(Stamping(l)) \in Nat
    BY <1>2, <1>5, WorkersAreCounted DEF IEmails, UnmarkedIsExplained
  <2>2. CASE l = lead[g]
    <3>1. /\ Stamping(l)' = Stamping(l) \ {g}
          /\ Stamping(l) \in SUBSET Contact /\ g \in Stamping(l)
      BY <1>1, <2>2, ReturnCounts DEF Stamping
    <3>2. Cardinality(Stamping(l)') = Cardinality(Stamping(l)) - 1
      BY <3>1, OneLess, ConstantsAssumption
    <3>3. forgotten'[l] = forgotten[l] + 1
      BY <1>3, <2>2
    <3>4. QED
      BY <2>1, <3>2, <3>3
  <2>3. CASE l # lead[g]
    <3>1. Stamping(l)' = Stamping(l) /\ forgotten'[l] = forgotten[l]
      BY <1>1, <1>3, <2>3, ReturnCounts
    <3>2. QED
      BY <2>1, <3>1
  <2>4. QED
    BY <2>2, <2>3
<1>6. ASSUME NEW l \in Lead
      PROVE  emails'[l] + Cardinality(Sending(l)') <= forgotten'[l] + Cardinality(Contact)
  <2>1. Sending(l)' = Sending(l)
    BY <1>1 DEF Return, Sending, TypeOK, ThreadsOK, Lead
  <2>2. /\ emails[l] + Cardinality(Sending(l)) <= forgotten[l] + Cardinality(Contact)
        /\ emails'[l] = emails[l] /\ emails[l] \in Nat /\ forgotten[l] \in Nat
        /\ forgotten'[l] \in {forgotten[l], forgotten[l] + 1}
    BY <1>2, <1>3 DEF IEmails, SendsAreBounded
  <2>3. QED
    BY <2>1, <2>2, WorkersAreCounted
<1>7. QED
  BY <1>2, <1>4, <1>5, <1>6 DEF IEmails, UnmarkedIsExplained, SendsAreBounded

LEMMA CrashKeepsEmails ==
  ASSUME TypeOK, IEmails, Crash
  PROVE  IEmails'
<1>1. /\ Lead' = Lead /\ emails \in [Lead -> Nat] /\ forgotten \in [Lead -> Nat]
      /\ UNCHANGED <<ids, stamped, emails>> /\ \A l \in Lead : Exists(l)' <=> Exists(l)
      /\ \A l \in Lead : forgotten'[l] = forgotten[l] + Cardinality(Stamping(l))
  BY DEF Crash, table, TypeOK, MailOK, Lead, Exists
<1>2. FreshIsUnsent'
  BY <1>1 DEF IEmails, FreshIsUnsent
<1>3. \A l \in Lead : Cardinality(Stamping(l)') = 0 /\ Cardinality(Sending(l)') = 0
  <2>1. \A l \in Lead : Stamping(l)' = {} /\ Sending(l)' = {}
    BY DEF Crash, Stamping, Sending
  <2>2. QED
    BY <2>1, FS_EmptySet
<1>4. ASSUME NEW l \in Lead, Exists(l)', l \notin stamped'
      PROVE  emails'[l] <= forgotten'[l] + Cardinality(Stamping(l)')
  <2>1. /\ emails[l] <= forgotten[l] + Cardinality(Stamping(l))
        /\ emails[l] \in Nat /\ forgotten[l] \in Nat
    BY <1>1, <1>4 DEF IEmails, UnmarkedIsExplained
  <2>2. QED
    BY <1>1, <1>3, <2>1, WorkersAreCounted
<1>5. ASSUME NEW l \in Lead
      PROVE  emails'[l] + Cardinality(Sending(l)') <= forgotten'[l] + Cardinality(Contact)
  <2>1. /\ emails[l] + Cardinality(Sending(l)) <= forgotten[l] + Cardinality(Contact)
        /\ emails[l] \in Nat /\ forgotten[l] \in Nat
    BY <1>1 DEF IEmails, SendsAreBounded
  <2>2. QED
    BY <1>1, <1>3, <2>1, WorkersAreCounted
<1>6. QED
  BY <1>1, <1>2, <1>4, <1>5 DEF IEmails, UnmarkedIsExplained, SendsAreBounded

LEMMA DashboardKeepsEmails ==
  ASSUME TypeOK, IEmails,
         (\E s \in Session : DeleteLead(s)) \/ AdminSetPlan \/ UNCHANGED vars
  PROVE  IEmails'
<1>1. /\ ids' = ids /\ ids \in Nat /\ UNCHANGED <<emails, forgotten, pc, lead>>
  BY DEF DeleteLead, AdminSetPlan, table, threads, mail, vars, TypeOK, TableOK
<1>2. \A l \in Lead : Sending(l)' = Sending(l) /\ Stamping(l)' = Stamping(l)
  BY <1>1 DEF Sending, Stamping
<1>3. ASSUME NEW l \in Lead, Exists(l)', l \notin stamped'
      PROVE  Exists(l) /\ l \notin stamped
  <2>1. CASE \E s \in Session : DeleteLead(s)
    <3>1. PICK s \in Session : DeleteLead(s)
      BY <2>1
    <3>2. PICK t \in Session : row'[t] = l
      BY <1>3 DEF Exists
    <3>3. row[t] = l /\ t # s
      BY <3>1, <3>2 DEF DeleteLead, TypeOK, TableOK, Lead
    <3>4. row[s] # l
      BY <3>3 DEF TypeOK, TableOK, Lead
    <3>5. QED
      BY <1>3, <3>1, <3>3, <3>4 DEF DeleteLead, Exists
  <2>2. CASE UNCHANGED table
    BY <1>3, <2>2 DEF table, Exists
  <2>3. QED
    BY <2>1, <2>2 DEF AdminSetPlan, vars
<1>4. QED
  BY <1>1, <1>2, <1>3, NothingSent

LEMMA EmailsAreInductive == Spec => [](TypeOK /\ IEmails)
<1>1. Init => IEmails
  <2> SUFFICES ASSUME Init PROVE IEmails
    OBVIOUS
  <2>1. FreshIsUnsent
    BY DEF Init, FreshIsUnsent
  <2>2. UnmarkedIsExplained
    BY WorkersAreCounted DEF Init, UnmarkedIsExplained, Exists, Lead
  <2>3. ASSUME NEW l \in Lead
        PROVE  emails[l] + Cardinality(Sending(l)) <= forgotten[l] + Cardinality(Contact)
    <3>1. emails[l] = 0 /\ forgotten[l] = 0
      BY DEF Init
    <3>2. QED
      BY <3>1, WorkersAreCounted
  <2>4. QED
    BY <2>1, <2>2, <2>3 DEF IEmails, SendsAreBounded
<1>2. TypeOK /\ IEmails /\ [Next]_vars => IEmails'
  <2> SUFFICES ASSUME TypeOK, IEmails, [Next]_vars PROVE IEmails'
    OBVIOUS
  <2>1. ASSUME NEW g \in Contact, FollowUp(g) PROVE IEmails'
    BY <2>1, ReadKeepsEmails, SendKeepsEmails, MarkKeepsEmails, StampFailsKeepsEmails
       DEF FollowUp
  <2>2. QED
    BY <2>1, ContactKeepsEmails, CrashKeepsEmails, DashboardKeepsEmails DEF Next
<1>3. QED
  BY <1>1, <1>2, TypeCorrect, PTL DEF Spec

\* However often a visitor sends the contact form, a lead gets at most one
\* follow-up from each goroutine that runs at the same time, and one more for
\* each mark that was lost.
THEOREM EmailsAreBoundedAlways == Spec => []EmailsAreBounded
<1>1. ASSUME TypeOK, IEmails PROVE EmailsAreBounded
  <2>1. ASSUME NEW l \in Lead PROVE emails[l] <= Cardinality(Contact) + forgotten[l]
    <3>1. /\ emails[l] + Cardinality(Sending(l)) <= forgotten[l] + Cardinality(Contact)
          /\ emails[l] \in Nat /\ forgotten[l] \in Nat
      BY <1>1 DEF IEmails, SendsAreBounded, TypeOK, MailOK
    <3>2. QED
      BY <3>1, WorkersAreCounted
  <2>2. QED
    BY <2>1 DEF EmailsAreBounded
<1>2. QED
  BY <1>1, EmailsAreInductive, PTL

(***************************************************************************)
(* Marks.                                                                  *)
(***************************************************************************)

\* Who is marked as followed up was written to: the mark is written only by a
\* goroutine that sent, and ids are never given twice.
THEOREM MarkedWasSentAlways == Spec => []MarkedWasSent
<1>1. Init => IMarks
  BY DEF Init, IMarks, StampingWasSent, MarkedWasSent
<1>2. TypeOK /\ IMarks /\ [Next]_vars => IMarks'
  <2> SUFFICES ASSUME TypeOK, IMarks, [Next]_vars PROVE IMarks'
    OBVIOUS
  <2>0. /\ emails \in [Lead -> Nat] /\ stamped \subseteq Lead
        /\ \A g \in Contact : pc[g] = "stamp" => lead[g] \in Lead
    BY WorksOnALead DEF TypeOK, TableOK, MailOK
  <2>1. ASSUME emails' = emails,
               \A g \in Contact : pc'[g] = "stamp" => pc[g] = "stamp" /\ lead'[g] = lead[g],
               \A l \in stamped' : l \in stamped \/ (\E g \in Contact : pc[g] = "stamp" /\ lead[g] = l)
        PROVE  IMarks'
    BY <2>1 DEF IMarks, StampingWasSent, MarkedWasSent
  <2>2. ASSUME NEW g \in Contact, NEW s \in Session, PublicContact(g, s) PROVE IMarks'
    <3>1. \A h \in Contact : pc'[h] = "stamp" => pc[h] = "stamp" /\ lead'[h] = lead[h]
      BY <2>2 DEF PublicContact, threads, TypeOK, ThreadsOK
    <3>2. QED
      BY <2>1, <2>2, <3>1 DEF PublicContact, Kept, mail
  <2>3. ASSUME NEW g \in Contact,
               ReadPlan(g) \/ ReadStamp(g) \/ FollowUpFails(g) \/ Stamp(g) \/ StampFails(g)
        PROVE  IMarks'
    <3>1. \A h \in Contact : pc'[h] = "stamp" => pc[h] = "stamp" /\ lead'[h] = lead[h]
      BY <2>3 DEF ReadPlan, ReadStamp, FollowUpFails, Stamp, StampFails, Goto, Return,
           TypeOK, ThreadsOK
    <3>2. \A l \in stamped' : l \in stamped \/ (pc[g] = "stamp" /\ lead[g] = l)
      BY <2>3 DEF ReadPlan, ReadStamp, FollowUpFails, Stamp, StampFails, Marked, table
    <3>3. emails' = emails
      BY <2>3 DEF ReadPlan, ReadStamp, FollowUpFails, Stamp, StampFails, mail
    <3>4. QED
      BY <2>1, <3>1, <3>2, <3>3
  <2>4. ASSUME NEW g \in Contact, SendFollowUpEmail(g) PROVE IMarks'
    <3>1. /\ lead[g] \in Lead /\ lead' = lead /\ stamped' = stamped
          /\ \A h \in Contact : pc'[h] = "stamp" => pc[h] = "stamp" \/ h = g
      BY <2>4, WorksOnALead DEF SendFollowUpEmail, Goto, table, TypeOK, ThreadsOK
    <3>2. /\ \A l \in Lead : emails[l] > 0 => emails'[l] > 0
          /\ emails'[lead[g]] > 0
      BY <2>0, <2>4, <3>1 DEF SendFollowUpEmail
    <3>3. QED
      BY <2>0, <3>1, <3>2 DEF IMarks, StampingWasSent, MarkedWasSent
  <2>5. ASSUME NEW s \in Session, DeleteLead(s) PROVE IMarks'
    BY <2>1, <2>5 DEF DeleteLead, threads, mail
  <2>6. ASSUME AdminSetPlan \/ UNCHANGED vars PROVE IMarks'
    BY <2>1, <2>6 DEF AdminSetPlan, vars, table, threads, mail
  <2>7. ASSUME Crash PROVE IMarks'
    BY <2>1, <2>7 DEF Crash, table
  <2>8. QED
    BY <2>2, <2>3, <2>4, <2>5, <2>6, <2>7 DEF Next, FollowUp
<1>3. IMarks => MarkedWasSent
  BY DEF IMarks
<1>4. QED
  BY <1>1, <1>2, <1>3, TypeCorrect, PTL DEF Spec

(***************************************************************************)
(* Progress: a follow-up passes its stages, whatever the others do.        *)
(***************************************************************************)
At(g, l, what) == lead[g] = l /\ pc[g] = what

LEMMA OthersLeaveIt ==
  ASSUME NEW g \in Contact, NEW l \in Lead, NEW what \in {"plan", "stamp?", "send"},
         TypeOK, At(g, l, what), [Next]_vars, ~FollowUp(g)
  PROVE  At(g, l, what)' \/ Followed(l)'
<1> USE DEF At, TypeOK, ThreadsOK
<1>1. ASSUME NEW h \in Contact, NEW s \in Session, PublicContact(h, s)
      PROVE  At(g, l, what)'
  BY <1>1 DEF PublicContact, threads
<1>2. ASSUME NEW h \in Contact, FollowUp(h)
      PROVE  At(g, l, what)'
  <2>1. h # g
    BY <1>2
  <2> QED
    BY <1>2, <2>1 DEF FollowUp, ReadPlan, ReadStamp, SendFollowUpEmail, FollowUpFails, Stamp,
                      StampFails, Goto, Return
<1>3. CASE Crash
  <2>1. g \in Working(l)
    BY DEF Working
  <2> QED
    BY <1>3, <2>1 DEF Crash, Followed
<1>4. CASE (\E s \in Session : DeleteLead(s)) \/ AdminSetPlan \/ UNCHANGED vars
  BY <1>4 DEF DeleteLead, AdminSetPlan, vars, threads
<1> QED
  BY <1>1, <1>2, <1>3, <1>4 DEF Next

LEMMA PlanIsRead ==
  ASSUME NEW g \in Contact, NEW l \in Lead, TypeOK, At(g, l, "plan"), FollowUp(g)
  PROVE  At(g, l, "stamp?")' \/ Followed(l)'
BY DEF At, TypeOK, ThreadsOK, MailOK, FollowUp, ReadPlan, ReadStamp, SendFollowUpEmail, FollowUpFails,
       Stamp, StampFails, Goto, Return, Followed

LEMMA StampIsRead ==
  ASSUME NEW g \in Contact, NEW l \in Lead, TypeOK, MarkedWasSent, At(g, l, "stamp?"), FollowUp(g)
  PROVE  At(g, l, "send")' \/ Followed(l)'
<1> USE DEF At, TypeOK, ThreadsOK, MailOK
<1>1. CASE ReadStamp(g)
  <2>1. Exists(l)' <=> Exists(l)
    BY <1>1 DEF ReadStamp, Exists, table
  <2>2. emails' = emails
    BY <1>1 DEF ReadStamp, mail
  <2>3. l \in stamped => emails[l] > 0
    BY DEF MarkedWasSent
  <2>4. CASE Exists(l) /\ l \notin stamped
    BY <1>1, <2>4 DEF ReadStamp, Goto
  <2> QED
    BY <2>1, <2>2, <2>3, <2>4 DEF Followed
<1>2. CASE FollowUpFails(g)
  BY <1>2 DEF FollowUpFails, Followed
<1> QED
  BY <1>1, <1>2 DEF FollowUp, ReadPlan, SendFollowUpEmail, Stamp, StampFails

LEMMA EmailIsSent ==
  ASSUME NEW g \in Contact, NEW l \in Lead, TypeOK, At(g, l, "send"), FollowUp(g)
  PROVE  Followed(l)'
BY DEF At, TypeOK, ThreadsOK, MailOK, FollowUp, ReadPlan, ReadStamp, SendFollowUpEmail, FollowUpFails,
       Stamp, StampFails, Goto, Return, Followed

\* A lead that leaves an email is followed up, with goroutines that go on, each
\* step of which is enabled while it has work (queueLeadFollowUpEmail).
THEOREM FollowUpsHappen == FairSpec /\ []FollowUpsGoOn => LeadsAreFollowedUp
<1>1. ASSUME NEW g \in Contact, NEW l \in Lead
      PROVE  FairSpec /\ []FollowUpsGoOn => (At(g, l, "plan") ~> Followed(l))
  <2>1. FairSpec => Spec /\ Goes(g)
    BY DEF FairSpec
  <2>2. FollowUpsGoOn /\ (At(g, l, "plan") \/ At(g, l, "stamp?") \/ At(g, l, "send"))
          => ENABLED <<FollowUp(g)>>_vars
    BY DEF FollowUpsGoOn, At
  <2>3. TypeOK /\ At(g, l, "plan") /\ [Next]_vars
          => \/ At(g, l, "plan")' /\ ~<<FollowUp(g)>>_vars
             \/ At(g, l, "stamp?")' \/ Followed(l)'
    BY PlanIsRead, OthersLeaveIt
  <2>4. TypeOK /\ MarkedWasSent /\ At(g, l, "stamp?") /\ [Next]_vars
          => \/ At(g, l, "stamp?")' /\ ~<<FollowUp(g)>>_vars
             \/ At(g, l, "send")' \/ Followed(l)'
    BY StampIsRead, OthersLeaveIt
  <2>5. TypeOK /\ At(g, l, "send") /\ [Next]_vars
          => \/ At(g, l, "send")' /\ ~<<FollowUp(g)>>_vars
             \/ Followed(l)'
    BY EmailIsSent, OthersLeaveIt
  <2>6. QED
    BY <2>1, <2>2, <2>3, <2>4, <2>5, TypeCorrect, MarkedWasSentAlways, PTL DEF Spec, Goes
<1>2. QED
  BY <1>1 DEF LeadsAreFollowedUp, At

-------------------------------------------------------------------------------
(***************************************************************************)
(* PlanChecks.                                                             *)
(***************************************************************************)

\* The plan, the requests and the count of late edits keep their shape.
THEOREM ChecksTypeCorrect == ChecksSpec => []ChecksTypeOK
<1>1. ChecksInit => ChecksTypeOK
  BY DEF ChecksInit, ChecksTypeOK
<1>2. ChecksTypeOK /\ [ChecksNext]_checksVars => ChecksTypeOK'
  BY DEF ChecksTypeOK, ChecksNext, checksVars, AuthenticateUser, Edit, RefuseEdit,
         Answered, AdminSetPlanType
<1>3. QED
  BY <1>1, <1>2, PTL DEF ChecksSpec

LEMMA EditorsAreCounted ==
  /\ Cardinality(Allowed) \in Nat /\ Cardinality(Editor) \in Nat
  /\ Cardinality(Allowed) <= Cardinality(Editor)
<1>1. Allowed \in SUBSET Editor
  BY DEF Allowed
<1>2. QED
  BY <1>1, PartIsFinite, EditorAssumption

\* A step that neither edits nor changes the plan.
LEMMA NothingEdited ==
  ASSUME ChecksTypeOK, LateIsExplained, UNCHANGED <<planType, late>>,
         ~HasFeatures(planType) => Allowed' \subseteq Allowed
  PROVE  LateIsExplained'
<1>1. CASE HasFeatures(planType)
  BY <1>1 DEF LateIsExplained
<1>2. CASE ~HasFeatures(planType)
  <2>1. IsFiniteSet(Allowed) /\ Allowed' \in SUBSET Allowed
    BY <1>2, PartIsFinite, EditorAssumption DEF Allowed
  <2>2. Cardinality(Allowed') \in Nat /\ Cardinality(Allowed') <= Cardinality(Allowed)
    BY <2>1, PartIsFinite
  <2>3. late \in Nat /\ late + Cardinality(Allowed) <= Cardinality(Editor)
    BY <1>2 DEF LateIsExplained, ChecksTypeOK
  <2>4. late + Cardinality(Allowed') <= Cardinality(Editor)
    BY <2>2, <2>3, EditorsAreCounted
  <2>5. QED
    BY <2>4 DEF LateIsExplained
<1>3. QED
  BY <1>1, <1>2

LEMMA EditIsExplained ==
  ASSUME ChecksTypeOK, LateIsExplained, NEW e \in Editor, Edit(e)
  PROVE  LateIsExplained'
<1>1. /\ Allowed' = Allowed \ {e} /\ Allowed \in SUBSET Editor /\ e \in Allowed
      /\ planType' = planType /\ late \in Nat
  BY DEF Edit, Answered, Allowed, ChecksTypeOK
<1>2. CASE HasFeatures(planType)
  BY <1>1, <1>2, NothingEdited DEF Edit
<1>3. CASE ~HasFeatures(planType)
  <2>1. Cardinality(Allowed') = Cardinality(Allowed) - 1
    BY <1>1, OneLess, EditorAssumption
  <2>2. late' = late + 1 /\ late + Cardinality(Allowed) <= Cardinality(Editor)
    BY <1>3 DEF Edit, LateIsExplained
  <2>3. late' + Cardinality(Allowed') <= Cardinality(Editor)
    BY <1>1, <2>1, <2>2, EditorsAreCounted
  <2>4. QED
    BY <2>3 DEF LateIsExplained
<1>4. QED
  BY <1>2, <1>3

LEMMA PlanChangeIsExplained ==
  ASSUME ChecksTypeOK, LateIsExplained, AdminSetPlanType
  PROVE  LateIsExplained'
<1>1. Allowed' = Allowed
  BY DEF AdminSetPlanType, Allowed
<1>2. CASE ~HasFeatures(planType) \/ HasFeatures(planType')
  BY <1>1, <1>2 DEF AdminSetPlanType, LateIsExplained
<1>3. CASE HasFeatures(planType) /\ ~HasFeatures(planType')
  <2>1. late' = 0
    BY <1>3 DEF AdminSetPlanType
  <2>2. QED
    BY <1>1, <2>1, EditorsAreCounted DEF LateIsExplained
<1>4. QED
  BY <1>2, <1>3

\* An edit that the plan has stopped to allow comes only from one of the requests
\* that were authenticated before: it happens at most once for each of them.
THEOREM LateEditsAreBoundedAlways == ChecksSpec => []LateEditsAreBounded
<1> DEFINE ILate == LateIsExplained /\ LateEditsAreBounded
<1>1. ChecksInit => ILate
  <2> SUFFICES ASSUME ChecksInit PROVE ILate
    OBVIOUS
  <2>1. late = 0
    BY DEF ChecksInit
  <2>2. QED
    BY <2>1, EditorsAreCounted DEF LateIsExplained, LateEditsAreBounded
<1>2. ChecksTypeOK /\ ChecksTypeOK' /\ ILate /\ [ChecksNext]_checksVars => ILate'
  <2> SUFFICES ASSUME ChecksTypeOK, ChecksTypeOK', ILate, [ChecksNext]_checksVars
               PROVE  ILate'
    OBVIOUS
  <2>1. LateIsExplained'
    <3>1. ASSUME NEW e \in Editor, AuthenticateUser(e) PROVE LateIsExplained'
      <4>1. ~HasFeatures(planType) => Allowed' \subseteq Allowed
        BY <3>1 DEF AuthenticateUser, Allowed, ChecksTypeOK
      <4>2. QED
        BY <3>1, <4>1, NothingEdited DEF AuthenticateUser
    <3>2. ASSUME NEW e \in Editor, RefuseEdit(e) PROVE LateIsExplained'
      BY <3>2, NothingEdited DEF RefuseEdit, Answered, Allowed, ChecksTypeOK
    <3>3. ASSUME UNCHANGED checksVars PROVE LateIsExplained'
      BY <3>3, NothingEdited DEF checksVars, Allowed
    <3>4. QED
      BY <3>1, <3>2, <3>3, EditIsExplained, PlanChangeIsExplained DEF ChecksNext
  <2>2. CASE ~HasFeatures(planType')
    <3>1. late' \in Nat /\ late' + Cardinality(Allowed') <= Cardinality(Editor)
      BY <2>1, <2>2 DEF LateIsExplained, ChecksTypeOK
    <3>2. Allowed' \in SUBSET Editor
      BY DEF Allowed
    <3>3. Cardinality(Allowed') \in Nat
      BY <3>2, PartIsFinite, EditorAssumption
    <3>4. QED
      BY <2>1, <3>1, <3>3, EditorsAreCounted DEF LateEditsAreBounded
  <2>3. CASE HasFeatures(planType')
    <3>1. late' \in {late, 0}
      BY <2>3 DEF ChecksNext, checksVars, AuthenticateUser, Edit, RefuseEdit, AdminSetPlanType
    <3>2. QED
      BY <2>1, <3>1, EditorsAreCounted DEF LateEditsAreBounded
  <2>4. QED
    BY <2>2, <2>3
<1>3. ILate => LateEditsAreBounded
  OBVIOUS
<1>4. QED
  BY <1>1, <1>2, <1>3, ChecksTypeCorrect, PTL DEF ChecksSpec
-------------------------------------------------------------------------------
(***************************************************************************)
(* Flows.                                                                  *)
(***************************************************************************)
LEMMA BeginsTypes ==
  ASSUME FlowsTypeOK, NEW r \in FlowRequest, NEW what \in {"insert", "update"},
         NEW f \in 0..flowIds, Begins(r, what, f)
  PROVE  /\ UNCHANGED <<flows, flowIds, noneActive>>
         /\ saving' \in [FlowRequest -> {"nothing", "insert", "update"}]
         /\ target' \in [FlowRequest -> 0..flowIds]
BY DEF Begins, FlowsTypeOK

LEMMA EndsTypes ==
  ASSUME FlowsTypeOK, NEW r \in FlowRequest, Ends(r)
  PROVE  /\ saving' \in [FlowRequest -> {"nothing", "insert", "update"}]
         /\ target' \in [FlowRequest -> 0..flowIds]
BY FlowsAssumption DEF Ends, FlowsTypeOK

LEMMA ActivationTypes ==
  ASSUME FlowsTypeOK, NEW r \in FlowRequest,
         CreateActiveFlow(r) \/ (\E f \in FlowId : UpdateActiveFlow(r, f))
  PROVE  FlowsTypeOK'
<1>1. \E kept : activeFlows' = activeFlows \cap kept \/ UNCHANGED activeFlows
  BY DEF CreateActiveFlow, UpdateActiveFlow, Deactivate
<1>2. ignored' \in 0..MaxIgnored
  BY FlowsAssumption DEF CreateActiveFlow, UpdateActiveFlow, Deactivate, FlowsTypeOK
<1>3. \E what \in {"insert", "update"}, f \in 0..flowIds : Begins(r, what, f)
  BY FlowsAssumption DEF CreateActiveFlow, UpdateActiveFlow, FlowsTypeOK, FlowId
<1>4. /\ UNCHANGED <<flows, flowIds, noneActive>>
      /\ saving' \in [FlowRequest -> {"nothing", "insert", "update"}]
      /\ target' \in [FlowRequest -> 0..flowIds]
  BY <1>3, BeginsTypes
<1>5. QED
  BY <1>1, <1>2, <1>4 DEF FlowsTypeOK

LEMMA InsertRowTypes ==
  ASSUME FlowsTypeOK, NEW active \in BOOLEAN, InsertRow(active)
  PROVE  /\ flowIds' \in 0..MaxFlows /\ 0..flowIds \subseteq 0..flowIds'
         /\ flows' \subseteq 1..flowIds' /\ activeFlows' \subseteq flows'
<1>1. flowIds \in Nat /\ flowIds' = flowIds + 1 /\ flowIds < MaxFlows /\ MaxFlows \in Nat
  BY FlowsAssumption DEF InsertRow, FlowsTypeOK
<1>2. 1..flowIds \subseteq 1..flowIds' /\ flowIds + 1 \in 1..flowIds'
  BY <1>1
<1>3. flows' \subseteq 1..flowIds' /\ activeFlows' \subseteq flows'
  BY <1>2 DEF InsertRow, FlowsTypeOK
<1>4. QED
  BY <1>1, <1>3

LEMMA FlowEndTypes ==
  ASSUME FlowsTypeOK, NEW r \in FlowRequest, InsertFlow(r) \/ UpdateFlow(r) \/ SaveFails(r)
  PROVE  FlowsTypeOK'
<1>1. /\ saving' \in [FlowRequest -> {"nothing", "insert", "update"}]
      /\ target' \in [FlowRequest -> 0..flowIds]
  BY EndsTypes DEF InsertFlow, UpdateFlow, SaveFails
<1>2. CASE InsertFlow(r)
  <2>1. InsertRow(TRUE) /\ ignored' = ignored /\ noneActive' = FALSE
    BY <1>2 DEF InsertFlow
  <2>2. /\ flowIds' \in 0..MaxFlows /\ 0..flowIds \subseteq 0..flowIds'
        /\ flows' \subseteq 1..flowIds' /\ activeFlows' \subseteq flows'
    BY <2>1, InsertRowTypes
  <2>3. target' \in [FlowRequest -> 0..flowIds']
    BY <1>1, <2>2
  <2>4. QED
    BY <1>1, <2>1, <2>2, <2>3 DEF FlowsTypeOK
<1>3. CASE UpdateFlow(r)
  <2>1. activeFlows' \subseteq flows'
    BY <1>3 DEF UpdateFlow, Written, FlowsTypeOK
  <2>2. QED
    BY <1>1, <1>3, <2>1 DEF UpdateFlow, FlowsTypeOK
<1>4. CASE SaveFails(r)
  BY <1>1, <1>4 DEF SaveFails, FlowsTypeOK, flowTable
<1>5. QED
  BY <1>2, <1>3, <1>4

\* The table and the requests keep their shape; only existing flows are active.
THEOREM FlowsTypeCorrect == FlowsSpec => []FlowsTypeOK
<1>1. FlowsInit => FlowsTypeOK
  BY FlowsAssumption DEF FlowsInit, FlowsTypeOK
<1>2. FlowsTypeOK /\ [FlowsNext]_flowsVars => FlowsTypeOK'
  <2> SUFFICES ASSUME FlowsTypeOK, [FlowsNext]_flowsVars PROVE FlowsTypeOK'
    OBVIOUS
  <2>1. ASSUME NEW r \in FlowRequest, SaveFlow(r) PROVE FlowsTypeOK'
    BY <2>1, ActivationTypes, FlowEndTypes DEF SaveFlow
  <2>2. ASSUME NEW f \in FlowId, UpdateInactiveFlow(f) \/ DeleteFlow(f) PROVE FlowsTypeOK'
    BY <2>2 DEF UpdateInactiveFlow, DeleteFlow, savers, FlowsTypeOK
  <2>3. ASSUME CreateInactiveFlow PROVE FlowsTypeOK'
    <3>1. InsertRow(FALSE) /\ UNCHANGED <<saving, target, ignored, noneActive>>
      BY <2>3 DEF CreateInactiveFlow, savers
    <3>2. /\ flowIds' \in 0..MaxFlows /\ 0..flowIds \subseteq 0..flowIds'
          /\ flows' \subseteq 1..flowIds' /\ activeFlows' \subseteq flows'
      BY <3>1, InsertRowTypes
    <3>3. target' \in [FlowRequest -> 0..flowIds']
      BY <3>1, <3>2 DEF FlowsTypeOK
    <3>4. QED
      BY <3>1, <3>2, <3>3 DEF FlowsTypeOK
  <2>4. ASSUME CrashSaving PROVE FlowsTypeOK'
    <3>1. target' \in [FlowRequest -> 0..flowIds]
      BY <2>4, FlowsAssumption DEF CrashSaving, FlowsTypeOK
    <3>2. QED
      BY <2>4, <3>1 DEF CrashSaving, flowTable, FlowsTypeOK
  <2>5. CASE UNCHANGED flowsVars
    BY <2>5 DEF flowsVars, flowTable, savers, FlowsTypeOK
  <2>6. QED
    BY <2>1, <2>2, <2>3, <2>4, <2>5 DEF FlowsNext
<1>3. QED
  BY <1>1, <1>2, PTL DEF FlowsSpec

\* The values of a function on a finite set are no more than the set.
LEMMA ImageIsCounted ==
  ASSUME NEW U, IsFiniteSet(U), NEW t
  PROVE  IsFiniteSet({t[r] : r \in U}) /\ Cardinality({t[r] : r \in U}) <= Cardinality(U)
<1> DEFINE T == {t[r] : r \in U}
           g == [r \in U |-> t[r]]
<1>1. g \in Surjection(U, T)
  BY DEF Surjection
<1> HIDE DEF T, g
<1>2. IsFiniteSet(T) /\ Cardinality(T) <= Cardinality(U)
  BY <1>1, FS_Surjection
<1>3. QED
  BY <1>2 DEF T

LEMMA DisjointAreCounted ==
  ASSUME NEW S, IsFiniteSet(S), NEW A \in SUBSET S, NEW B \in SUBSET S, A \cap B = {}
  PROVE  /\ IsFiniteSet(A) /\ IsFiniteSet(B)
         /\ Cardinality(A) \in Nat /\ Cardinality(B) \in Nat /\ Cardinality(S) \in Nat
         /\ Cardinality(A) + Cardinality(B) <= Cardinality(S)
<1>1. /\ IsFiniteSet(A) /\ IsFiniteSet(B) /\ Cardinality(A) \in Nat /\ Cardinality(B) \in Nat
      /\ Cardinality(S) \in Nat
  BY PartIsFinite
<1>2. A \cup B \in SUBSET S
  OBVIOUS
<1>3. Cardinality(A \cup B) <= Cardinality(S)
  BY <1>2, PartIsFinite
<1>4. Cardinality(A \cup B) = Cardinality(A) + Cardinality(B) - Cardinality(A \cap B)
  BY <1>1, FS_Union
<1>5. Cardinality(A \cap B) = 0
  BY FS_EmptySet
<1>6. QED
  BY <1>1, <1>3, <1>4, <1>5

LEMMA TargetedIsFinite ==
  FlowsTypeOK => /\ IsFiniteSet(Targeted) /\ Cardinality(Targeted) \in Nat
                 /\ IsFiniteSet(Creating) /\ Cardinality(Creating) \in Nat
                 /\ ignored \in Nat /\ Cardinality(FlowRequest) \in Nat
<1> SUFFICES ASSUME FlowsTypeOK
             PROVE  /\ IsFiniteSet(Targeted) /\ Cardinality(Targeted) \in Nat
                    /\ IsFiniteSet(Creating) /\ Cardinality(Creating) \in Nat
                    /\ ignored \in Nat /\ Cardinality(FlowRequest) \in Nat
  OBVIOUS
<1>1. flowIds \in Nat /\ ignored \in Nat
  BY FlowsAssumption DEF FlowsTypeOK
<1>2. Targeted \in SUBSET (0..flowIds)
  <2>1. activeFlows \subseteq 0..flowIds
    BY <1>1 DEF FlowsTypeOK
  <2>2. \A q \in Updating : target[q] \in 0..flowIds
    BY DEF Updating, FlowsTypeOK
  <2>3. QED
    BY <2>1, <2>2 DEF Targeted
<1>3. IsFiniteSet(0..flowIds)
  BY <1>1, FS_Interval
<1>4. Creating \in SUBSET FlowRequest
  BY DEF Creating
<1>5. QED
  BY <1>1, <1>2, <1>3, <1>4, PartIsFinite, FlowsAssumption

\* After the others were deactivated, each active flow is that of a request.
LEMMA DeactivationFreesBudget ==
  ASSUME FlowsTypeOK, NEW r \in FlowRequest, ignored' = 0,
         \/ CreateActiveFlow(r) /\ activeFlows' = {}
         \/ \E f \in FlowId : UpdateActiveFlow(r, f) /\ activeFlows' \subseteq {f}
  PROVE  FlowBudget'
<1>1. Targeted' = {target'[q] : q \in Updating'}
  <2>1. CASE CreateActiveFlow(r) /\ activeFlows' = {}
    BY <2>1 DEF Targeted
  <2>2. CASE \E f \in FlowId : UpdateActiveFlow(r, f) /\ activeFlows' \subseteq {f}
    <3>1. PICK f \in FlowId : UpdateActiveFlow(r, f) /\ activeFlows' \subseteq {f}
      BY <2>2
    <3>2. r \in Updating' /\ target'[r] = f
      BY <3>1 DEF UpdateActiveFlow, Begins, Updating, FlowsTypeOK
    <3>3. QED
      BY <3>1, <3>2 DEF Targeted
  <2>3. QED
    BY <2>1, <2>2
<1>2. /\ Updating' \in SUBSET FlowRequest /\ Creating' \in SUBSET FlowRequest
      /\ Updating' \cap Creating' = {}
  BY DEF Updating, Creating
<1>3. /\ IsFiniteSet(Updating') /\ Cardinality(Updating') \in Nat
      /\ Cardinality(Creating') \in Nat /\ Cardinality(FlowRequest) \in Nat
      /\ Cardinality(Updating') + Cardinality(Creating') <= Cardinality(FlowRequest)
  BY <1>2, DisjointAreCounted, FlowsAssumption
<1>4. IsFiniteSet(Targeted') /\ Cardinality(Targeted') <= Cardinality(Updating')
  BY <1>1, <1>3, ImageIsCounted
<1>5. Cardinality(Targeted') \in Nat
  BY <1>4, FS_CardinalityType
<1>6. QED
  BY <1>3, <1>4, <1>5 DEF FlowBudget

\* Another flow is active or going to be, at the cost of one that was counted.
LEMMA BudgetIsSpent ==
  ASSUME FlowsTypeOK, FlowsTypeOK', FlowBudget,
         \/ /\ Targeted' \subseteq Targeted /\ Creating' \subseteq Creating
            /\ ignored' = ignored
         \/ /\ Targeted' \subseteq Targeted /\ ignored' = ignored + 1
            /\ \E r \in FlowRequest : Creating' = Creating \cup {r}
         \/ /\ \E f : Targeted' \subseteq Targeted \cup {f}
            /\ Creating' \subseteq Creating /\ ignored' = ignored + 1
         \/ /\ \E f : Targeted' \subseteq Targeted \cup {f}
            /\ \E r \in Creating : Creating' = Creating \ {r}
            /\ ignored' = ignored
  PROVE  FlowBudget'
<1>1. /\ IsFiniteSet(Targeted) /\ Cardinality(Targeted) \in Nat
      /\ IsFiniteSet(Creating) /\ Cardinality(Creating) \in Nat
      /\ ignored \in Nat /\ Cardinality(FlowRequest) \in Nat
  BY TargetedIsFinite
<1>2. (/\ IsFiniteSet(Targeted) /\ Cardinality(Targeted) \in Nat
       /\ IsFiniteSet(Creating) /\ Cardinality(Creating) \in Nat
       /\ ignored \in Nat /\ Cardinality(FlowRequest) \in Nat)'
  BY TargetedIsFinite, PTL
<1>3. Targeted' \subseteq Targeted => Cardinality(Targeted') <= Cardinality(Targeted)
  BY <1>1, FS_Subset
<1>4. Creating' \subseteq Creating => Cardinality(Creating') <= Cardinality(Creating)
  BY <1>1, FS_Subset
<1>5. ASSUME NEW f, Targeted' \subseteq Targeted \cup {f}
      PROVE  Cardinality(Targeted') <= Cardinality(Targeted) + 1
  <2>1. /\ IsFiniteSet(Targeted \cup {f})
        /\ Cardinality(Targeted \cup {f}) \in {Cardinality(Targeted), Cardinality(Targeted) + 1}
    BY <1>1, FS_AddElement
  <2>2. Cardinality(Targeted') <= Cardinality(Targeted \cup {f})
    BY <1>5, <2>1, FS_Subset
  <2>3. QED
    BY <1>1, <1>2, <2>1, <2>2
<1>6. ASSUME NEW r, Creating' = Creating \cup {r}
      PROVE  Cardinality(Creating') <= Cardinality(Creating) + 1
  <2>1. Cardinality(Creating \cup {r}) \in {Cardinality(Creating), Cardinality(Creating) + 1}
    BY <1>1, FS_AddElement
  <2>2. QED
    BY <1>1, <1>6, <2>1
<1>7. ASSUME NEW r \in Creating, Creating' = Creating \ {r}
      PROVE  Cardinality(Creating') = Cardinality(Creating) - 1
  BY <1>1, <1>7, FS_RemoveElement
<1>8. Cardinality(Targeted) + Cardinality(Creating) <= Cardinality(FlowRequest) + ignored
  BY DEF FlowBudget
<1>9. Cardinality(Targeted') + Cardinality(Creating') <= Cardinality(FlowRequest) + ignored'
  <2>1. CASE Targeted' \subseteq Targeted /\ Creating' \subseteq Creating /\ ignored' = ignored
    BY <1>1, <1>2, <1>3, <1>4, <1>8, <2>1
  <2>2. CASE /\ Targeted' \subseteq Targeted /\ ignored' = ignored + 1
             /\ \E r \in FlowRequest : Creating' = Creating \cup {r}
    <3>1. Cardinality(Creating') <= Cardinality(Creating) + 1
      BY <1>6, <2>2
    <3>2. QED
      BY <1>1, <1>2, <1>3, <1>8, <2>2, <3>1
  <2>3. CASE /\ \E f : Targeted' \subseteq Targeted \cup {f}
             /\ Creating' \subseteq Creating /\ ignored' = ignored + 1
    <3>1. Cardinality(Targeted') <= Cardinality(Targeted) + 1
      BY <1>5, <2>3
    <3>2. QED
      BY <1>1, <1>2, <1>4, <1>8, <2>3, <3>1
  <2>4. CASE /\ \E f : Targeted' \subseteq Targeted \cup {f}
             /\ \E r \in Creating : Creating' = Creating \ {r}
             /\ ignored' = ignored
    <3>1. /\ Cardinality(Targeted') <= Cardinality(Targeted) + 1
          /\ Cardinality(Creating') = Cardinality(Creating) - 1
      BY <1>5, <1>7, <2>4
    <3>2. QED
      BY <1>1, <1>2, <1>8, <2>4, <3>1
  <2>5. QED
    BY <2>1, <2>2, <2>3, <2>4
<1>10. QED
  BY <1>9 DEF FlowBudget

LEMMA ActivationKeepsBudget ==
  ASSUME FlowsTypeOK, FlowsTypeOK', FlowBudget, NEW r \in FlowRequest,
         CreateActiveFlow(r) \/ (\E f \in FlowId : UpdateActiveFlow(r, f))
  PROVE  FlowBudget'
<1>1. CASE CreateActiveFlow(r)
  <2>1. CASE activeFlows' = {} /\ ignored' = 0
    BY <1>1, <2>1, DeactivationFreesBudget
  <2>2. CASE UNCHANGED activeFlows /\ ignored' = ignored + 1
    <3>1. Updating' = Updating /\ \A q \in Updating : target'[q] = target[q]
      BY <1>1 DEF CreateActiveFlow, Begins, Updating, FlowsTypeOK
    <3>2. Targeted' \subseteq Targeted
      BY <2>2, <3>1 DEF Targeted
    <3>3. Creating' = Creating \cup {r}
      BY <1>1 DEF CreateActiveFlow, Begins, Creating, FlowsTypeOK
    <3>4. QED
      BY <2>2, <3>2, <3>3, BudgetIsSpent
  <2>3. QED
    BY <1>1, <2>1, <2>2 DEF CreateActiveFlow, Deactivate
<1>2. ASSUME NEW f \in FlowId, UpdateActiveFlow(r, f) PROVE FlowBudget'
  <2>1. CASE activeFlows' = activeFlows \cap {f} /\ ignored' = 0
    BY <1>2, <2>1, DeactivationFreesBudget
  <2>2. CASE UNCHANGED activeFlows /\ ignored' = ignored + 1
    <3>1. /\ Updating' = Updating \cup {r} /\ target'[r] = f
          /\ \A q \in Updating : target'[q] = target[q]
      BY <1>2 DEF UpdateActiveFlow, Begins, Updating, FlowsTypeOK
    <3>2. Targeted' \subseteq Targeted \cup {f}
      BY <2>2, <3>1 DEF Targeted
    <3>3. Creating' = Creating
      BY <1>2 DEF UpdateActiveFlow, Begins, Creating, FlowsTypeOK
    <3>4. QED
      BY <2>2, <3>2, <3>3, BudgetIsSpent
  <2>3. QED
    BY <1>2, <2>1, <2>2 DEF UpdateActiveFlow, Deactivate, Others
<1>3. QED
  BY <1>1, <1>2

LEMMA EndKeepsBudget ==
  ASSUME FlowsTypeOK, FlowsTypeOK', FlowBudget, NEW r \in FlowRequest,
         InsertFlow(r) \/ UpdateFlow(r) \/ SaveFails(r)
  PROVE  FlowBudget'
<1>1. /\ Updating' = Updating \ {r} /\ Creating' = Creating \ {r}
      /\ \A q \in Updating' : target'[q] = target[q]
  BY DEF InsertFlow, UpdateFlow, SaveFails, Ends, Updating, Creating, FlowsTypeOK
<1>2. CASE InsertFlow(r)
  <2>1. r \in Creating /\ ignored' = ignored
    BY <1>2 DEF InsertFlow, Creating
  <2>2. activeFlows' \subseteq activeFlows \cup {flowIds + 1}
    BY <1>2 DEF InsertFlow, InsertRow
  <2>3. Targeted' \subseteq Targeted \cup {flowIds + 1}
    BY <1>1, <2>2 DEF Targeted
  <2>4. QED
    BY <1>1, <2>1, <2>3, BudgetIsSpent
<1>3. CASE UpdateFlow(r)
  <2>1. r \in Updating /\ activeFlows' \subseteq activeFlows \cup {target[r]}
    BY <1>3 DEF UpdateFlow, Updating, Written
  <2>2. Targeted' \subseteq Targeted
    BY <1>1, <2>1 DEF Targeted
  <2>3. QED
    BY <1>1, <1>3, <2>2, BudgetIsSpent DEF UpdateFlow
<1>4. CASE SaveFails(r)
  <2>1. Targeted' \subseteq Targeted /\ ignored' = ignored
    BY <1>1, <1>4 DEF SaveFails, flowTable, Targeted
  <2>2. QED
    BY <1>1, <2>1, BudgetIsSpent
<1>5. QED
  BY <1>2, <1>3, <1>4

\* "Deactivate others first" bounds the active flows by the requests served at
\* once and the deactivations that failed, however the two statements of the
\* requests interleave.
THEOREM ActiveFlowsAreBoundedAlways == FlowsSpec => []ActiveFlowsAreBounded
<1>1. FlowsInit => FlowBudget
  <2> SUFFICES ASSUME FlowsInit PROVE FlowBudget
    OBVIOUS
  <2>1. Targeted = {} /\ Creating = {} /\ ignored = 0
    BY DEF FlowsInit, Targeted, Updating, Creating
  <2>2. Cardinality({}) = 0 /\ Cardinality(FlowRequest) \in Nat
    BY FS_EmptySet, FS_CardinalityType, FlowsAssumption
  <2>3. QED
    BY <2>1, <2>2 DEF FlowBudget
<1>2. FlowsTypeOK /\ FlowsTypeOK' /\ FlowBudget /\ [FlowsNext]_flowsVars => FlowBudget'
  <2> SUFFICES ASSUME FlowsTypeOK, FlowsTypeOK', FlowBudget, [FlowsNext]_flowsVars
               PROVE  FlowBudget'
    OBVIOUS
  <2>1. ASSUME UNCHANGED <<saving, target, ignored>>, activeFlows' \subseteq activeFlows
        PROVE  FlowBudget'
    <3>1. Targeted' \subseteq Targeted /\ Creating' = Creating /\ ignored' = ignored
      BY <2>1 DEF Targeted, Updating, Creating
    <3>2. QED
      BY <3>1, BudgetIsSpent
  <2>2. ASSUME NEW r \in FlowRequest, SaveFlow(r) PROVE FlowBudget'
    BY <2>2, ActivationKeepsBudget, EndKeepsBudget DEF SaveFlow
  <2>3. ASSUME NEW f \in FlowId, UpdateInactiveFlow(f) \/ DeleteFlow(f) PROVE FlowBudget'
    BY <2>1, <2>3 DEF UpdateInactiveFlow, DeleteFlow, savers
  <2>4. ASSUME CreateInactiveFlow PROVE FlowBudget'
    BY <2>1, <2>4 DEF CreateInactiveFlow, InsertRow, savers
  <2>5. ASSUME CrashSaving PROVE FlowBudget'
    <3>1. Targeted' \subseteq Targeted /\ Creating' \subseteq Creating /\ ignored' = ignored
      BY <2>5 DEF CrashSaving, flowTable, Targeted, Updating, Creating
    <3>2. QED
      BY <3>1, BudgetIsSpent
  <2>6. CASE UNCHANGED flowsVars
    BY <2>1, <2>6 DEF flowsVars, flowTable, savers
  <2>7. QED
    BY <2>2, <2>3, <2>4, <2>5, <2>6 DEF FlowsNext
<1>3. FlowsTypeOK /\ FlowBudget => ActiveFlowsAreBounded
  <2> SUFFICES ASSUME FlowsTypeOK, FlowBudget PROVE ActiveFlowsAreBounded
    OBVIOUS
  <2>1. /\ IsFiniteSet(Targeted) /\ Cardinality(Targeted) \in Nat
        /\ Cardinality(Creating) \in Nat
        /\ ignored \in Nat /\ Cardinality(FlowRequest) \in Nat
    BY TargetedIsFinite
  <2>2. activeFlows \in SUBSET Targeted
    BY DEF Targeted
  <2>3. Cardinality(activeFlows) <= Cardinality(Targeted) /\ Cardinality(activeFlows) \in Nat
    BY <2>1, <2>2, PartIsFinite
  <2>4. QED
    BY <2>1, <2>3 DEF FlowBudget, ActiveFlowsAreBounded
<1>4. QED
  BY <1>1, <1>2, <1>3, FlowsTypeCorrect, PTL DEF FlowsSpec

\* Activations that overlap never cancel each other out: a row is written only
\* after the others were deactivated.
THEOREM SwitchLeavesOneAlways == FlowsSpec => []SwitchLeavesOne
<1>1. FlowsInit => SwitchLeavesOne
  BY DEF FlowsInit, SwitchLeavesOne
<1>2. FlowsTypeOK /\ SwitchLeavesOne /\ [FlowsNext]_flowsVars => SwitchLeavesOne'
  <2> SUFFICES ASSUME FlowsTypeOK, SwitchLeavesOne, [FlowsNext]_flowsVars
               PROVE  SwitchLeavesOne'
    OBVIOUS
  <2>1. ASSUME NEW r \in FlowRequest,
               CreateActiveFlow(r) \/ (\E f \in FlowId : UpdateActiveFlow(r, f))
        PROVE  SwitchLeavesOne'
    <3>1. r \in Creating' \/ r \in Updating'
      BY <2>1 DEF CreateActiveFlow, UpdateActiveFlow, Begins, Creating, Updating, FlowsTypeOK
    <3>2. QED
      BY <3>1 DEF SwitchLeavesOne
  <2>2. ASSUME NEW r \in FlowRequest, InsertFlow(r) PROVE SwitchLeavesOne'
    <3>1. flowIds + 1 \in activeFlows'
      BY <2>2 DEF InsertFlow, InsertRow
    <3>2. QED
      BY <3>1 DEF SwitchLeavesOne
  <2>3. ASSUME NEW r \in FlowRequest, UpdateFlow(r) PROVE SwitchLeavesOne'
    <3>1. target[r] \in flows => target[r] \in activeFlows'
      BY <2>3 DEF UpdateFlow, Written
    <3>2. QED
      BY <2>3, <3>1 DEF UpdateFlow, SwitchLeavesOne
  <2>4. ASSUME noneActive' = TRUE PROVE SwitchLeavesOne'
    BY <2>4 DEF SwitchLeavesOne
  <2>5. ASSUME UNCHANGED <<saving, noneActive>>, activeFlows' = activeFlows
        PROVE  SwitchLeavesOne'
    BY <2>5 DEF SwitchLeavesOne, Creating, Updating
  <2>6. ASSUME CreateInactiveFlow \/ UNCHANGED flowsVars PROVE SwitchLeavesOne'
    BY <2>5, <2>6 DEF CreateInactiveFlow, InsertRow, flowsVars, flowTable, savers
  <2>7. QED
    BY <2>1, <2>2, <2>3, <2>4, <2>6
       DEF FlowsNext, SaveFlow, SaveFails, UpdateInactiveFlow, DeleteFlow, CrashSaving
<1>3. QED
  BY <1>1, <1>2, FlowsTypeCorrect, PTL DEF FlowsSpec
-------------------------------------------------------------------------------
(***************************************************************************)
(* WidgetSettings.                                                         *)
(***************************************************************************)
LEMMA SavePartTypes ==
  ASSUME SettingsTypeOK, NEW f \in Part, SavePart(f)
  PROVE  SettingsTypeOK'
<1>1. /\ saves \in Nat /\ saves' = saves + 1 /\ saves' \in 0..MaxSaves
      /\ 0..saves \subseteq 0..saves' /\ saves' \in 0..saves'
  BY SettingsAssumption DEF SavePart, SettingsTypeOK
<1>2. config \in [Part -> 0..saves'] /\ saved \in [Part -> 0..saves']
  BY <1>1 DEF SettingsTypeOK
<1>3. config' \in [Part -> 0..saves'] /\ saved' \in [Part -> 0..saves']
  BY <1>1, <1>2 DEF SavePart, Merged
<1>4. shown' \in [Page -> [Part -> 0..saves']]
  <2>1. [Part -> 0..saves] \subseteq [Part -> 0..saves']
    BY <1>1
  <2>2. shown' = shown /\ shown \in [Page -> [Part -> 0..saves]]
    BY DEF SavePart, SettingsTypeOK
  <2>3. QED
    BY <2>1, <2>2
<1>5. outdated' \in [Page -> SUBSET Part]
  BY DEF SavePart, SettingsTypeOK
<1>6. QED
  BY <1>1, <1>3, <1>4, <1>5 DEF SavePart, SettingsTypeOK

\* The configuration, the pages and the histories keep their shape.
THEOREM SettingsTypeCorrect == SettingsSpec => []SettingsTypeOK
<1>0. 0..0 \subseteq Nat /\ 0 \in 0..0 /\ \A n \in Nat : 0 \in 0..n
  OBVIOUS
<1>1. SettingsInit => SettingsTypeOK
  <2> SUFFICES ASSUME SettingsInit PROVE SettingsTypeOK
    OBVIOUS
  <2>1. saves = 0 /\ saves \in 0..MaxSaves
    BY <1>0, SettingsAssumption DEF SettingsInit
  <2>2. Nothing \in [Part -> 0..saves]
    BY <1>0, <2>1 DEF Nothing
  <2>3. shown \in [Page -> [Part -> 0..saves]]
    BY <2>2 DEF SettingsInit
  <2>4. QED
    BY <2>1, <2>2, <2>3 DEF SettingsInit, SettingsTypeOK
<1>2. SettingsTypeOK /\ [SettingsNext]_settingsVars => SettingsTypeOK'
  <2> SUFFICES ASSUME SettingsTypeOK, [SettingsNext]_settingsVars PROVE SettingsTypeOK'
    OBVIOUS
  <2>1. ASSUME NEW p \in Page, GetWidget(p) PROVE SettingsTypeOK'
    BY <2>1 DEF GetWidget, SettingsTypeOK
  <2>2. ASSUME NEW p \in Page, UpdateSettings(p) PROVE SettingsTypeOK'
    BY <2>2 DEF UpdateSettings, Sent, SettingsTypeOK
  <2>3. ASSUME CreateSettings PROVE SettingsTypeOK'
    <3>1. Nothing \in [Part -> 0..saves]
      BY <1>0, SettingsAssumption DEF Nothing, SettingsTypeOK
    <3>2. QED
      BY <2>3, <3>1 DEF CreateSettings, SettingsTypeOK
  <2>4. ASSUME DeleteSettings \/ UNCHANGED settingsVars PROVE SettingsTypeOK'
    BY <2>4 DEF DeleteSettings, settingsVars, SettingsTypeOK
  <2>5. ASSUME SavePersona \/ SaveNavigation \/ SaveBranding PROVE SettingsTypeOK'
    BY <2>5, SavePartTypes DEF SavePersona, SaveNavigation, SaveBranding, Part
  <2>6. QED
    BY <2>1, <2>2, <2>3, <2>4, <2>5 DEF SettingsNext
<1>3. QED
  BY <1>1, <1>2, PTL DEF SettingsSpec

LEMMA SavePartKeeps ==
  ASSUME SettingsTypeOK, SavedPartIsKept, ShownIsExplained, NEW f \in Part, SavePart(f)
  PROVE  SavedPartIsKept' /\ ShownIsExplained'
<1>1. /\ hasWidget /\ config'[f] = saves + 1 /\ saved'[f] = saves + 1
      /\ \A g \in Part : g # f => config'[g] = config[g] /\ saved'[g] = saved[g]
      /\ undone' = undone \ {f}
  BY DEF SavePart, Merged, SettingsTypeOK
<1>2. SavedPartIsKept'
  BY <1>1 DEF SavedPartIsKept, Part
<1>3. \A p \in Page : outdated'[p] = outdated[p] \cup {f} /\ shown' = shown
  BY DEF SavePart
<1>4. ShownIsExplained'
  <2>1. ASSUME NEW p \in opened', NEW g \in Part \ (undone' \cup outdated'[p])
        PROVE  shown'[p][g] = saved'[g]
    <3>1. p \in opened /\ p \in Page
      BY DEF SavePart, SettingsTypeOK
    <3>2. g # f /\ g \in Part \ (undone \cup outdated[p])
      BY <1>1, <1>3, <2>1, <3>1
    <3>3. shown[p][g] = saved[g]
      BY <3>1, <3>2 DEF ShownIsExplained
    <3>4. QED
      BY <1>1, <1>3, <3>1, <3>2, <3>3
  <2>2. QED
    BY <2>1 DEF ShownIsExplained, Part
<1>5. QED
  BY <1>2, <1>4

LEMMA GetWidgetKeeps ==
  ASSUME SettingsTypeOK, SavedPartIsKept, ShownIsExplained, NEW p \in Page, GetWidget(p)
  PROVE  SavedPartIsKept' /\ ShownIsExplained'
<1>1. SavedPartIsKept'
  BY DEF GetWidget, SavedPartIsKept, Part
<1>2. ASSUME NEW q \in opened', NEW g \in Part \ (undone' \cup outdated'[q])
      PROVE  shown'[q][g] = saved'[g]
  <2>1. /\ q \in Page /\ saved' = saved /\ undone' = undone
        /\ q = p => shown'[q] = config
        /\ q # p => q \in opened /\ shown'[q] = shown[q] /\ outdated'[q] = outdated[q]
    BY DEF GetWidget, SettingsTypeOK
  <2>2. CASE q = p
    BY <1>2, <2>1, <2>2 DEF GetWidget, SavedPartIsKept
  <2>3. CASE q # p
    BY <1>2, <2>1, <2>3 DEF ShownIsExplained
  <2>4. QED
    BY <2>2, <2>3
<1>3. QED
  BY <1>1, <1>2 DEF ShownIsExplained, Part

LEMMA UpdateSettingsKeeps ==
  ASSUME SettingsTypeOK, SavedPartIsKept, ShownIsExplained,
         NEW p \in Page, UpdateSettings(p)
  PROVE  SavedPartIsKept' /\ ShownIsExplained'
<1>1. /\ p \in opened /\ config' = shown[p] /\ saved' = saved
      /\ undone' = undone \cup outdated[p] /\ opened' \subseteq opened
      /\ outdated' = outdated /\ shown' = shown
  BY DEF UpdateSettings, Sent
<1>2. SavedPartIsKept'
  BY <1>1 DEF SavedPartIsKept, ShownIsExplained, Part
<1>3. ShownIsExplained'
  BY <1>1 DEF ShownIsExplained, Part
<1>4. QED
  BY <1>2, <1>3

\* The merges of the pages of the parts do not disturb each other, and what
\* replaces the column undoes only the parts that were saved after its page was
\* opened.
THEOREM SavedPartIsKeptAlways == SettingsSpec => []SavedPartIsKept
<1>1. SettingsInit => SavedPartIsKept /\ ShownIsExplained
  BY DEF SettingsInit, SavedPartIsKept, ShownIsExplained
<1>2. SettingsTypeOK /\ SavedPartIsKept /\ ShownIsExplained /\ [SettingsNext]_settingsVars
        => SavedPartIsKept' /\ ShownIsExplained'
  <2> SUFFICES ASSUME SettingsTypeOK, SavedPartIsKept, ShownIsExplained,
                      [SettingsNext]_settingsVars
               PROVE  SavedPartIsKept' /\ ShownIsExplained'
    OBVIOUS
  <2>1. ASSUME CreateSettings PROVE SavedPartIsKept' /\ ShownIsExplained'
    BY <2>1 DEF CreateSettings, SavedPartIsKept, ShownIsExplained, Part
  <2>2. ASSUME DeleteSettings PROVE SavedPartIsKept' /\ ShownIsExplained'
    BY <2>2 DEF DeleteSettings, SavedPartIsKept, ShownIsExplained, Part
  <2>3. CASE UNCHANGED settingsVars
    BY <2>3 DEF settingsVars, SavedPartIsKept, ShownIsExplained, Part
  <2>4. ASSUME SavePersona \/ SaveNavigation \/ SaveBranding
        PROVE  SavedPartIsKept' /\ ShownIsExplained'
    BY <2>4, SavePartKeeps DEF SavePersona, SaveNavigation, SaveBranding, Part
  <2>5. QED
    BY <2>1, <2>2, <2>3, <2>4, GetWidgetKeeps, UpdateSettingsKeeps DEF SettingsNext
<1>3. QED
  BY <1>1, <1>2, SettingsTypeCorrect, PTL DEF SettingsSpec
-------------------------------------------------------------------------------
(***************************************************************************)
(* HandoffInbox.                                                           *)
(***************************************************************************)

\* The handoffs and the lists keep their shape.
THEOREM InboxTypeCorrect == InboxSpec => []InboxTypeOK
<1>1. InboxInit => InboxTypeOK
  BY DEF InboxInit, InboxTypeOK, HandoffStatus
<1>2. InboxTypeOK /\ [InboxNext]_inboxVars => InboxTypeOK'
  <2> SUFFICES ASSUME InboxTypeOK, [InboxNext]_inboxVars PROVE InboxTypeOK'
    OBVIOUS
  <2>1. ASSUME NEW h \in Handoff, RequestHandoff(h) PROVE InboxTypeOK'
    BY <2>1 DEF RequestHandoff, InboxTypeOK, HandoffStatus
  <2>2. ASSUME NEW a \in Agent, ListHandoffs(a) PROVE InboxTypeOK'
    BY <2>2 DEF ListHandoffs, InboxTypeOK
  <2>3. ASSUME NEW a \in Agent, NEW h \in Handoff,
               ClaimHandoff(a, h) \/ ResolveHandoff(a, h) \/ SendHandoffMessage(a, h)
        PROVE  InboxTypeOK'
    BY <2>3 DEF ClaimHandoff, ResolveHandoff, SendHandoffMessage, InboxTypeOK, HandoffStatus
  <2>4. CASE UNCHANGED inboxVars
    BY <2>4 DEF inboxVars, InboxTypeOK
  <2>5. QED
    BY <2>1, <2>2, <2>3, <2>4 DEF InboxNext
<1>3. QED
  BY <1>1, <1>2, PTL DEF InboxSpec

\* Whatever the agents were shown, no step takes a handoff back.
THEOREM HandoffsAdvance == InboxSpec => HandoffsOnlyAdvance
<1> DEFINE Advances ==
      \A h \in Handoff :
        /\ handoff[h] = "claimed" => handoff'[h] \in {"claimed", "resolved"}
        /\ handoff[h] = "resolved" => handoff'[h] = "resolved"
<1>1. InboxTypeOK /\ [InboxNext]_inboxVars => [Advances]_inboxVars
  <2> SUFFICES ASSUME InboxTypeOK, InboxNext PROVE Advances
    BY DEF inboxVars
  <2>1. ASSUME NEW h \in Handoff, RequestHandoff(h) PROVE Advances
    BY <2>1 DEF RequestHandoff, InboxTypeOK
  <2>2. ASSUME UNCHANGED handoff PROVE Advances
    BY <2>2
  <2>3. ASSUME NEW a \in Agent, NEW h \in Handoff, ClaimHandoff(a, h) PROVE Advances
    BY <2>3 DEF ClaimHandoff, Claimable, InboxTypeOK
  <2>4. ASSUME NEW a \in Agent, NEW h \in Handoff, ResolveHandoff(a, h) PROVE Advances
    BY <2>4 DEF ResolveHandoff, InboxTypeOK
  <2>5. QED
    BY <2>1, <2>2, <2>3, <2>4 DEF InboxNext, ListHandoffs, SendHandoffMessage
<1>2. QED
  BY <1>1, InboxTypeCorrect, PTL DEF InboxSpec, HandoffsOnlyAdvance

-------------------------------------------------------------------------------
\* Every behaviour of the composition is one of each module: so what is proved
\* of the modules above holds of every behaviour of the run.
THEOREM DashboardComposes ==
  MCInit /\ [][MCNext]_All
    => Spec /\ ChecksSpec /\ FlowsSpec /\ SettingsSpec /\ InboxSpec
<1>1. MCInit => Init /\ ChecksInit /\ FlowsInit /\ SettingsInit /\ InboxInit
  BY DEF MCInit
<1>2. [MCNext]_All => /\ [Next]_vars /\ [ChecksNext]_checksVars /\ [FlowsNext]_flowsVars
                      /\ [SettingsNext]_settingsVars /\ [InboxNext]_inboxVars
  BY DEF MCNext, All, OnLeads, OnChecks, OnFlows, OnSettings, OnInbox, Is, Pages
<1>3. QED
  BY <1>1, <1>2, PTL DEF Spec, ChecksSpec, FlowsSpec, SettingsSpec, InboxSpec
===============================================================================
