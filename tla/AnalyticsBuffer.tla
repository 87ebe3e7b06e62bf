---------------------------- MODULE AnalyticsBuffer ----------------------------
(***************************************************************************)
(* The events of a widget on their way to widget_analytics.  Requests of   *)
(* visitors push them onto a Redis list that all server processes share;   *)
(* the background goroutine of each process pops them, at most FlushLimit  *)
(* per tick, and inserts them one by one.  The list is popped at the end   *)
(* it is pushed to, so the latest event goes first.  The Redis client      *)
(* sends a command that had no answer again, whether or not Redis has      *)
(* executed it: an event may be in the list more than once.                *)
(***************************************************************************)
EXTENDS Naturals, Sequences, FiniteSets

CONSTANTS View,          \* events, numbered in the order they are pushed
          Process,       \* server processes: one background goroutine each
          FlushLimit,    \* events popped per tick
          MaxResends,    \* Options.MaxRetries of the Redis client, 3 unless it is set
          MaxLostCalls   \* bound: failed calls and crashes

ASSUME AnalyticsAssumption ==
  /\ View \subseteq Nat \ {0} /\ IsFiniteSet(View)
  /\ FlushLimit \in Nat \ {0} /\ MaxResends \in Nat /\ MaxLostCalls \in Nat

VARIABLES
  pushed,         \* events that a request has handed to the Redis client
  resent,         \* event -> how often the client has sent its push again
  unanswered,     \* events whose last push had no answer
  buffer,         \* the list, its tail last
  goroutine,      \* process -> what its goroutine does
  left,           \* process -> events it may still pop in this tick
  hand,           \* process -> the event it has popped and not inserted, or 0
  rows,           \* event -> its rows in widget_analytics
  gone,           \* history: events whose widget was deleted
  expired,        \* history: events of which a row has expired
  widgetDeleted,  \* history: a widget was deleted
  lostCalls

pushes        == <<pushed, resent, unanswered>>
flushers      == <<goroutine, left, hand>>
ends          == <<gone, expired, widgetDeleted>>
analyticsVars == <<pushes, buffer, flushers, rows, ends, lostCalls>>

AnalyticsTypeOK ==
  /\ unanswered \subseteq pushed /\ pushed \subseteq View
  /\ resent \in [View -> 0..MaxResends]
  /\ buffer \in Seq(View)
  /\ goroutine \in [Process -> {"waiting", "flushing", "hung"}]
  /\ left \in [Process -> 0..FlushLimit]
  /\ hand \in [Process -> View \cup {0}]
  /\ rows \in [View -> Nat]
  /\ gone \subseteq View /\ expired \subseteq View
  /\ widgetDeleted \in BOOLEAN
  /\ lostCalls \in 0..MaxLostCalls

AnalyticsInit ==
  /\ pushed = {} /\ unanswered = {} /\ buffer = <<>>
  /\ resent = [v \in View |-> 0]
  /\ goroutine = [p \in Process |-> "waiting"]
  /\ left = [p \in Process |-> 0]
  /\ hand = [p \in Process |-> 0]
  /\ rows = [v \in View |-> 0]
  /\ gone = {} /\ expired = {} /\ widgetDeleted = FALSE
  /\ lostCalls = 0

LostCall == lostCalls < MaxLostCalls /\ lostCalls' = lostCalls + 1

\* A push is sent.  Redis answers, or does not: then the push was made or not.
RPush(v) ==
  \/ /\ buffer' = Append(buffer, v)
     /\ unanswered' = unanswered \ {v}
     /\ UNCHANGED lostCalls
  \/ /\ LostCall
     /\ buffer' \in {buffer, Append(buffer, v)}
     /\ unanswered' = unanswered \cup {v}

\* The push of a request: its error is ignored.  The widget may have been
\* deleted since its configuration was cached.
QueueWidgetAnalytics(v, stale) ==
  /\ v \notin pushed /\ \A u \in View : u < v => u \in pushed
  /\ stale => widgetDeleted
  /\ pushed' = pushed \cup {v}
  /\ gone' = IF stale THEN gone \cup {v} ELSE gone
  /\ RPush(v)
  /\ UNCHANGED <<resent, flushers, rows, expired, widgetDeleted>>

\* The client sends the push once more: it does not know whether the one
\* without an answer was made.  When it does not, its request or its process
\* has ended.
ResendPush(v) ==
  /\ v \in unanswered /\ resent[v] < MaxResends
  /\ resent' = [resent EXCEPT ![v] = @ + 1]
  /\ RPush(v)
  /\ UNCHANGED <<pushed, flushers, rows, ends>>

\* Mutant of Renewed: the limit of the last flush is not set anew.
RenewedNever(p) == left

Renewed(p) == [left EXCEPT ![p] = FlushLimit]

\* The goroutine's ticker for analytics has fired.
FlushWidgetAnalytics(p) ==
  /\ goroutine[p] = "waiting"
  /\ goroutine' = [goroutine EXCEPT ![p] = "flushing"]
  /\ left' = Renewed(p)
  /\ UNCHANGED <<pushes, buffer, hand, rows, ends, lostCalls>>

Ready(p) == goroutine[p] = "flushing" /\ hand[p] = 0

\* Mutant of Remaining: the event is read and left in the list.
RemainingAll == buffer

Remaining == SubSeq(buffer, 1, Len(buffer) - 1)

Pop(p) ==
  /\ Ready(p) /\ left[p] > 0 /\ buffer # <<>>
  /\ buffer' = Remaining
  /\ hand' = [hand EXCEPT ![p] = buffer[Len(buffer)]]
  /\ left' = [left EXCEPT ![p] = @ - 1]
  /\ UNCHANGED <<pushes, goroutine, rows, ends, lostCalls>>

Return(p) ==
  /\ goroutine' = [goroutine EXCEPT ![p] = "waiting"]
  /\ left' = [left EXCEPT ![p] = 0]

\* The list is empty or the limit is reached.
EndFlush(p) ==
  /\ Ready(p) /\ (left[p] = 0 \/ buffer = <<>>)
  /\ Return(p)
  /\ UNCHANGED <<pushes, buffer, hand, rows, ends, lostCalls>>

\* Redis does not answer: the pop was made or not.  The client sends it again,
\* or, after MaxResends times, ends the flush; how often it has sent this pop is
\* not counted, as each time is a lost call.
PopFails(p) ==
  /\ Ready(p) /\ left[p] > 0 /\ LostCall
  /\ Return(p) \/ UNCHANGED <<goroutine, left>>
  /\ \/ UNCHANGED buffer
     \/ buffer # <<>> /\ buffer' = SubSeq(buffer, 1, Len(buffer) - 1)
  /\ UNCHANGED <<pushes, hand, rows, ends>>

EmptyHand(p) == hand' = [hand EXCEPT ![p] = 0]

\* Mutant of Inserted: the first event stands for those of the same tick.
InsertedFirst(p) ==
  IF left[p] = FlushLimit - 1 THEN [rows EXCEPT ![hand[p]] = @ + 1] ELSE rows

Inserted(p) == [rows EXCEPT ![hand[p]] = @ + 1]

\* The foreign key refuses the event of a deleted widget; that is logged.
Insert(p) ==
  /\ hand[p] # 0 /\ EmptyHand(p)
  /\ rows' = IF hand[p] \in gone THEN rows ELSE Inserted(p)
  /\ UNCHANGED <<pushes, buffer, goroutine, left, ends, lostCalls>>

\* An insert that fails without having taken effect is only logged too.
InsertFails(p) ==
  /\ hand[p] # 0 /\ EmptyHand(p) /\ LostCall
  /\ UNCHANGED <<pushes, buffer, goroutine, left, rows, ends>>

Flush(p) ==
  \/ FlushWidgetAnalytics(p) \/ Pop(p) \/ EndFlush(p) \/ PopFails(p)
  \/ Insert(p) \/ InsertFails(p)

\* The ticker for webhooks has fired, and an endpoint never answers.
HangInWebhooks(p) ==
  /\ goroutine[p] = "waiting"
  /\ goroutine' = [goroutine EXCEPT ![p] = "hung"]
  /\ UNCHANGED <<pushes, buffer, left, hand, rows, ends, lostCalls>>

\* The daily maintenance deletes the rows that are 90 days old: those of an
\* event that was stored twice need not expire together.
CleanupWidgetAnalytics(p, v) ==
  /\ goroutine[p] = "waiting" /\ rows[v] > 0
  /\ \E n \in 0..(rows[v] - 1) : rows' = [rows EXCEPT ![v] = n]
  /\ expired' = expired \cup {v}
  /\ UNCHANGED <<pushes, buffer, flushers, gone, widgetDeleted, lostCalls>>

\* The rows of a widget go with it, by the foreign key.
DeleteAnalyzedWidget ==
  /\ widgetDeleted' = TRUE
  /\ rows' = [v \in View |-> 0]
  /\ gone' = gone \cup pushed
  /\ UNCHANGED <<pushes, buffer, flushers, expired, lostCalls>>

\* A process ends, by a signal or a crash, and is started again.
Restart(p) ==
  /\ goroutine[p] # "waiting" /\ LostCall
  /\ Return(p) /\ EmptyHand(p)
  /\ UNCHANGED <<pushes, buffer, rows, ends>>

AnalyticsNext ==
  \/ \E v \in View : ResendPush(v) \/ \E stale \in BOOLEAN : QueueWidgetAnalytics(v, stale)
  \/ \E p \in Process :
       Flush(p) \/ HangInWebhooks(p) \/ Restart(p) \/ \E v \in View : CleanupWidgetAnalytics(p, v)
  \/ DeleteAnalyzedWidget

AnalyticsSpec == AnalyticsInit /\ [][AnalyticsNext]_analyticsVars

\* The tickers keep every goroutine going that does not hang.
KeepsFlushing(p)  == WF_analyticsVars(Flush(p))
AnalyticsFairness == \A p \in Process : KeepsFlushing(p)

-------------------------------------------------------------------------------
Listed(v) == {i \in 1..Len(buffer) : buffer[i] = v}
Popped(v) == {p \in Process : hand[p] = v}

InBuffer(v) == Listed(v) # {}
InHand(v)   == Popped(v) # {}

\* Events that were pushed, are to be shown, and are nowhere.
Lost == {v \in pushed \ (gone \cup expired) : rows[v] = 0 /\ ~InBuffer(v) /\ ~InHand(v)}

Copies(v) == rows[v] + Cardinality(Listed(v)) + Cardinality(Popped(v))
Sends(v)  == IF v \in pushed THEN 1 + resent[v] ELSE 0

\* An event is stored once for every time its push was sent, at most: once, if
\* Redis has answered.  Only the client makes copies; the processes that flush
\* the one list make none, however they overlap, fail or are started again.
StoredPerSend == \A v \in View : Copies(v) <= Sends(v)

\* A failed call or a restart loses at most one event, however many the flush
\* that it ends has popped: nothing is popped ahead of its insert.
LossIsBounded == Cardinality(Lost) <= lostCalls

\* A buffered event is taken off the list, unless every goroutine waits for an
\* endpoint that does not answer.
EventsAreFlushed ==
  \A v \in View : InBuffer(v) ~> ~InBuffer(v) \/ \A p \in Process : goroutine[p] = "hung"
-------------------------------------------------------------------------------
(***************************************************************************)
(* What the steps preserve, and what fairness rests on.                    *)
(***************************************************************************)
\* A goroutine holds an event only during a flush.
FlushHolds == \A p \in Process : hand[p] # 0 => goroutine[p] = "flushing"

\* A goroutine that does not hang has a step to take.
FlushesGoOn == \A p \in Process : goroutine[p] # "hung" => ENABLED <<Flush(p)>>_analyticsVars
===============================================================================
