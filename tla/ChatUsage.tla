------------------------------- MODULE ChatUsage -------------------------------
(***************************************************************************)
(* The conversations of one account and its usage counter: messages from   *)
(* the dashboard, which are charged, and from the visitors of its widget,  *)
(* which are not.  Every statement of a handler is a step; requests,       *)
(* clearing, the widget's row and the admin's changes come between them.   *)
(*                                                                         *)
(* A turn is a message with its answer: two rows of chat_messages, and two *)
(* in message_count.                                                       *)
(***************************************************************************)
EXTENDS Naturals, FiniteSets

CONSTANTS Conversation,     \* chat_conversations.id
          NoConversation,
          Request,          \* requests, served at once
          Limits,           \* the values plans give to conversations_limit
          NoLimit,          \* NULL
          MaxMessages,      \* bound: messages
          MaxWidgets,       \* bound: rows of widget_keys, one after the other
          MaxMishaps        \* bound: failed statements and crashes

ASSUME ConstantsAssumption ==
  /\ NoConversation \notin Conversation
  /\ IsFiniteSet(Request)
  /\ NoLimit \notin Nat
  /\ Limits \subseteq Nat \cup {NoLimit}
  /\ MaxMessages \in Nat /\ MaxWidgets \in Nat /\ MaxMishaps \in Nat

VARIABLES
  state,      \* conversation -> whether it exists and was cleared
  by,         \* conversation -> widget_key_id, 0 for NULL
  turns,      \* conversation -> its turns in chat_messages
  count,      \* conversation -> the turns in message_count
  used,       \* users.conversations_used
  limit,      \* users.conversations_limit
  widget,     \* the id of the account's row in widget_keys, 0 if it has none
  widgets,    \* the last id given
  pc,         \* request -> what it does next
  on,         \* request -> the conversation it writes to
  via,        \* request -> the widget it came from, 0 for the dashboard
  answered,   \* history: answers to the dashboard since the last reset
  allowed,    \* history: the highest limit since the last reset
  disturbed,  \* history: conversations that a mishap or a deleted widget met
  messages, mishaps

conversations == <<state, by, turns, count>>
account       == <<used, limit>>
site          == <<widget, widgets>>
requests      == <<pc, on, via>>
history       == <<answered, allowed, disturbed, messages, mishaps>>
vars          == <<conversations, account, site, requests, history>>

Limit == Nat \cup {NoLimit}

ConversationsOK ==
  /\ state \in [Conversation -> {"absent", "live", "cleared"}]
  /\ by \in [Conversation -> {0, widget}]
  /\ turns \in [Conversation -> Nat]
  /\ count \in [Conversation -> Nat]

RequestsOK ==
  /\ pc \in [Request -> {"idle", "open", "charge", "insert", "count"}]
  /\ on \in [Request -> Conversation \cup {NoConversation}]
  /\ via \in [Request -> 0..widgets]
  /\ \A r \in Request : /\ on[r] = NoConversation <=> pc[r] \in {"idle", "open"}
                        /\ pc[r] = "open" => via[r] # 0
                        /\ pc[r] \in {"idle", "charge"} => via[r] = 0

AccountOK ==
  /\ used \in Nat /\ limit \in Limit
  /\ widgets \in Nat /\ widget \in {0, widgets}

HistoryOK ==
  /\ answered \in Nat /\ allowed \in Limit
  /\ disturbed \in SUBSET Conversation
  /\ messages \in 0..MaxMessages /\ mishaps \in 0..MaxMishaps

TypeOK == ConversationsOK /\ RequestsOK /\ AccountOK /\ HistoryOK

Init ==
  /\ state = [c \in Conversation |-> "absent"]
  /\ by = [c \in Conversation |-> 0]
  /\ turns = [c \in Conversation |-> 0]
  /\ count = [c \in Conversation |-> 0]
  /\ used = 0 /\ limit \in Limits
  /\ widget = 0 /\ widgets = 0
  /\ pc = [r \in Request |-> "idle"]
  /\ on = [r \in Request |-> NoConversation]
  /\ via = [r \in Request |-> 0]
  /\ answered = 0 /\ allowed = limit
  /\ disturbed = {} /\ messages = 0 /\ mishaps = 0

Goto(r, what) == pc' = [pc EXCEPT ![r] = what] /\ UNCHANGED <<on, via>>

End(r) ==
  /\ pc' = [pc EXCEPT ![r] = "idle"]
  /\ on' = [on EXCEPT ![r] = NoConversation]
  /\ via' = [via EXCEPT ![r] = 0]

Mishap == mishaps < MaxMishaps /\ mishaps' = mishaps + 1

\* Requests of both kinds that have yet to answer.
Answering(c) == {r \in Request : on[r] = c /\ pc[r] \in {"insert", "count"}}
Counting(c)  == {r \in Request : on[r] = c /\ pc[r] = "count"}

(***************************************************************************)
(* The conversation: an insert that updates on conflict.                   *)
(***************************************************************************)

\* Mutant of Writable: cleared conversations are written to.
WritableCleared(c, w) == state[c] # "absent" /\ (w = 0 \/ by[c] \in {0, w})

Writable(c, w) == state[c] = "live" /\ (w = 0 \/ by[c] \in {0, w})

\* Mutant of Openable: the conflict clause forgets is_deleted.
OpenableAgain(c, w) == w = 0 \/ by[c] \in {0, w}

Openable(c, w) == state[c] = "absent" \/ Writable(c, w)

Open(r, w, next) ==
  /\ messages < MaxMessages
  /\ messages' = messages + 1
  /\ \E c \in Conversation :
       /\ Openable(c, w)
       /\ state' = [state EXCEPT ![c] = "live"]
       /\ by' = [by EXCEPT ![c] = IF @ = 0 THEN w ELSE @]
       /\ on' = [on EXCEPT ![r] = c]
  /\ pc' = [pc EXCEPT ![r] = next]
  /\ UNCHANGED <<turns, count, account, site, via, answered, allowed, disturbed, mishaps>>

(***************************************************************************)
(* Chat, from the dashboard, and PublicWebhook, from the widget.           *)
(***************************************************************************)
OpenChat(r) == pc[r] = "idle" /\ Open(r, 0, "charge")

LookUpWidget(r) ==
  /\ pc[r] = "idle" /\ widget # 0
  /\ pc' = [pc EXCEPT ![r] = "open"]
  /\ via' = [via EXCEPT ![r] = widget]
  /\ UNCHANGED <<conversations, account, site, on, history>>

\* widget_key_id refers to a row that exists.
OpenPublic(r) == pc[r] = "open" /\ via[r] = widget /\ Open(r, via[r], "insert")

\* Not a UUID, a cleared conversation, another widget's, or no widget any more.
RefusePublic(r) ==
  /\ pc[r] = "open"
  /\ End(r)
  /\ UNCHANGED <<conversations, account, site, history>>

\* Mutant of Affordable: one more than the limit.
AffordableLast == limit # NoLimit => used <= limit

Affordable == limit # NoLimit => used < limit

\* One statement reads, compares and increments.
Charge(r) ==
  /\ pc[r] = "charge" /\ Affordable
  /\ used' = used + 1
  /\ Goto(r, "insert")
  /\ UNCHANGED <<conversations, limit, site, history>>

RefuseCharge(r) ==
  /\ pc[r] = "charge" /\ ~Affordable
  /\ End(r)
  /\ UNCHANGED <<conversations, account, site, history>>

\* An error that the request is told of; the charge may have been made.
ChargeFails(r) ==
  /\ pc[r] = "charge" /\ Mishap
  /\ used' \in {used} \cup (IF Affordable THEN {used + 1} ELSE {})
  /\ End(r)
  /\ UNCHANGED <<conversations, limit, site, answered, allowed, disturbed, messages>>

InsertTurn(r) ==
  /\ pc[r] = "insert" /\ Writable(on[r], via[r])
  /\ turns' = [turns EXCEPT ![on[r]] = @ + 1]
  /\ Goto(r, "count")
  /\ UNCHANGED <<state, by, count, account, site, history>>

\* No row to write to: the request ends without its answer.
InsertNothing(r) ==
  /\ pc[r] = "insert" /\ ~Writable(on[r], via[r])
  /\ End(r)
  /\ UNCHANGED <<conversations, account, site, history>>

\* An error that is only logged.
InsertFails(r) ==
  /\ pc[r] = "insert" /\ Mishap
  /\ \/ UNCHANGED turns
     \/ Writable(on[r], via[r]) /\ turns' = [turns EXCEPT ![on[r]] = @ + 1]
  /\ disturbed' = disturbed \cup {on[r]}
  /\ Goto(r, "count")
  /\ UNCHANGED <<state, by, count, account, site, answered, allowed, messages>>

Answer(r) ==
  /\ pc[r] = "count"
  /\ answered' = IF via[r] = 0 THEN answered + 1 ELSE answered
  /\ End(r)
  /\ UNCHANGED <<state, by, turns, account, site, allowed, messages>>

Counted(r) ==
  IF Writable(on[r], via[r]) THEN [count EXCEPT ![on[r]] = @ + 1] ELSE count

CountTurn(r) ==
  /\ Answer(r)
  /\ count' = Counted(r)
  /\ UNCHANGED <<disturbed, mishaps>>

CountFails(r) ==
  /\ Answer(r) /\ Mishap
  /\ count' \in {count, Counted(r)}
  /\ disturbed' = disturbed \cup {on[r]}

(***************************************************************************)
(* The dashboard, a login, an admin.                                       *)
(***************************************************************************)
Clear(D) ==
  /\ state' = [c \in Conversation |->
                 IF c \in D /\ state[c] = "live" THEN "cleared" ELSE state[c]]
  /\ UNCHANGED <<by, turns, count, account, site, requests, history>>

ClearChatSession == \E c \in Conversation : state[c] = "live" /\ Clear({c})

ClearUserSessions == Clear(Conversation)

Unlinked == [c \in Conversation |-> IF by[c] = widget THEN 0 ELSE by[c]]

DeleteWidget ==
  /\ widget # 0
  /\ widget' = 0
  /\ by' = Unlinked
  /\ disturbed' = disturbed \cup {c \in Conversation : \E r \in Answering(c) : via[r] # 0}
  /\ UNCHANGED <<state, turns, count, account, widgets, requests,
                 answered, allowed, messages, mishaps>>

EnsureWidget ==
  /\ widget = 0 /\ widgets < MaxWidgets
  /\ widgets' = widgets + 1
  /\ widget' = widgets + 1
  /\ UNCHANGED <<conversations, account, requests, history>>

AdminResetUsage ==
  /\ used' = 0
  /\ answered' = 0 /\ allowed' = limit
  /\ UNCHANGED <<conversations, limit, site, requests, disturbed, messages, mishaps>>

AdminSetPlan ==
  /\ limit' \in Limits
  /\ allowed' = IF limit' = NoLimit \/ (allowed # NoLimit /\ allowed < limit')
                THEN limit' ELSE allowed
  /\ UNCHANGED <<conversations, used, site, requests,
                 answered, disturbed, messages, mishaps>>

-------------------------------------------------------------------------------
Crash ==
  /\ \E r \in Request : pc[r] # "idle"
  /\ Mishap
  /\ pc' = [r \in Request |-> "idle"]
  /\ on' = [r \in Request |-> NoConversation]
  /\ via' = [r \in Request |-> 0]
  /\ disturbed' = disturbed \cup {c \in Conversation : Counting(c) # {}}
  /\ UNCHANGED <<conversations, account, site, answered, allowed, messages>>

Serve(r) ==
  \/ OpenChat(r) \/ LookUpWidget(r) \/ OpenPublic(r) \/ RefusePublic(r)
  \/ Charge(r) \/ RefuseCharge(r) \/ ChargeFails(r)
  \/ InsertTurn(r) \/ InsertNothing(r) \/ InsertFails(r)
  \/ CountTurn(r) \/ CountFails(r)

Next ==
  \/ \E r \in Request : Serve(r)
  \/ ClearChatSession \/ ClearUserSessions
  \/ DeleteWidget \/ EnsureWidget
  \/ AdminResetUsage \/ AdminSetPlan
  \/ Crash

Spec == Init /\ [][Next]_vars

-------------------------------------------------------------------------------
\* Between two resets the dashboard gets no more answers than the highest limit
\* in force, and those of requests that were charged before the reset.
AnswersAreLimited ==
  allowed # NoLimit => answered <= allowed + Cardinality(Request)

\* What a live conversation says of its messages is what it has, but for the
\* requests that have yet to count, unless a statement failed, the process ended
\* or its widget was deleted under a visitor's request.
LiveCountAgrees ==
  \A c \in Conversation :
    state[c] = "live" /\ c \notin disturbed
      => turns[c] = count[c] + Cardinality(Counting(c))

\* A cleared conversation stays cleared and gets no message, whichever requests
\* were under way when it was cleared.
ClearedIsFinal ==
  [][\A c \in Conversation :
       state[c] = "cleared" => /\ state'[c] = "cleared"
                               /\ turns'[c] = turns[c] /\ count'[c] = count[c]]_vars

\* At its limit an account answers no more messages: plan_limits.go speaks of a
\* maximum of messages, and the widget has a text for a limit that is reached.
MessagesAreLimited ==
  [][\A r \in Request :
       pc[r] # "insert" /\ pc'[r] = "insert" =>
         (limit # NoLimit => used < limit)]_vars

-------------------------------------------------------------------------------
(***************************************************************************)
(* Strengthenings.                                                         *)
(***************************************************************************)

\* Requests of the dashboard that have been charged and have yet to answer.
Charged == {r \in Request : via[r] = 0 /\ pc[r] \in {"insert", "count"}}

\* They share the budget of what was charged and what a reset forgot.
Spent  == answered + Cardinality(Charged) <= used + Cardinality(Request)

Capped == allowed # NoLimit => used <= allowed /\ limit # NoLimit /\ limit <= allowed

\* Nothing is kept of a conversation that does not exist.
AbsentUntouched ==
  \A c \in Conversation :
    state[c] = "absent" => /\ turns[c] = 0 /\ count[c] = 0 /\ by[c] = 0
                           /\ \A r \in Request : on[r] # c

\* A visitor's request writes to a conversation of its widget.
VisitorsKnown ==
  \A r \in Request :
    pc[r] \in {"insert", "count"} /\ via[r] # 0 =>
      by[on[r]] = via[r] \/ on[r] \in disturbed
===============================================================================
