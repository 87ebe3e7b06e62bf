------------------------------ MODULE WidgetCache ------------------------------
(***************************************************************************)
(* The configuration of one account's widget: its row of widget_keys, the  *)
(* copies that Redis keeps under the widget's keys, the visitors' requests *)
(* that fill them and the dashboard's requests that change the row and     *)
(* delete the copies afterwards.  Nothing orders a request's statement and *)
(* its Redis calls with those of another request.                          *)
(*                                                                         *)
(* What the row says is known by the number of the change that made it; a  *)
(* new key and a new row are changes too.  Time passes in ticks.           *)
(***************************************************************************)
EXTENDS Naturals

CONSTANTS Key,         \* what generateWidgetKey draws, never the same twice
          Visitor,     \* requests for a configuration, served at once
          Editor,      \* requests of the dashboard, served at once
          Lifetime,    \* of a copy
          Timeout,     \* of a visitor's Redis calls, from its request on
          MaxChanges   \* bound: changes of the row

NoKey == "none"

ASSUME ConstantsAssumption ==
  /\ NoKey \notin Key
  /\ Lifetime \in Nat
  /\ Timeout \in Nat
  /\ MaxChanges \in Nat

VARIABLES
  row,       \* widget_key of the account's row, or NoKey without a row
  content,   \* the last change of the row
  drawn,     \* the keys that were drawn
  copy,      \* key -> the content of its copy in Redis, 0 without one
  age,       \* key -> the age of its copy
  serving,   \* visitor -> what its request does next
  asked,     \* visitor -> widgetKey
  seen,      \* visitor -> the content that it has read
  waited,    \* visitor -> the time since its request began
  editing,   \* editor -> what its request does next
  oldKey,    \* editor -> the key that it has read to replace
  doomed,    \* editor -> the keys whose copies it has yet to delete
  behind,    \* history: content -> the time since the row has left it
  exposed    \* history: the keys that a race or a failure keeps a copy for

table    == <<row, content, drawn>>
redis    == <<copy, age>>
visitors == <<serving, asked, seen, waited>>
editors  == <<editing, oldKey, doomed>>
history  == <<behind, exposed>>
vars     == <<table, redis, visitors, editors, history>>

Content == 1..MaxChanges
Gone(c) == row = NoKey \/ c # content

\* The longest that a copy may show what the row has left.
Bound == Lifetime + Timeout

TableOK ==
  /\ row \in Key \cup {NoKey}
  /\ content \in 0..MaxChanges
  /\ drawn \in SUBSET Key
  /\ row # NoKey => content # 0 /\ row \in drawn

RedisOK ==
  /\ copy \in [Key -> 0..MaxChanges]
  /\ age \in [Key -> 0..Lifetime]

VisitorsOK ==
  /\ serving \in [Visitor -> {"idle", "read", "fill"}]
  /\ asked \in [Visitor -> Key \cup {NoKey}]
  /\ seen \in [Visitor -> 0..MaxChanges]
  /\ waited \in [Visitor -> 0..Timeout + 1]
  /\ \A v \in Visitor : serving[v] # "idle" => asked[v] \in Key
  /\ \A v \in Visitor : serving[v] = "fill" => seen[v] # 0

EditorsOK ==
  /\ editing \in [Editor -> {"idle", "regenerate", "invalidate"}]
  /\ oldKey \in [Editor -> Key \cup {NoKey}]
  /\ doomed \in [Editor -> SUBSET Key]
  /\ \A e \in Editor : doomed[e] # {} <=> editing[e] = "invalidate"

HistoryOK ==
  /\ behind \in [Content -> 0..Bound + 1]
  /\ exposed \in SUBSET Key

TypeOK == TableOK /\ RedisOK /\ VisitorsOK /\ EditorsOK /\ HistoryOK

Init ==
  /\ row = NoKey
  /\ content = 0
  /\ drawn = {}
  /\ copy = [k \in Key |-> 0]
  /\ age = [k \in Key |-> 0]
  /\ serving = [v \in Visitor |-> "idle"]
  /\ asked = [v \in Visitor |-> NoKey]
  /\ seen = [v \in Visitor |-> 0]
  /\ waited = [v \in Visitor |-> 0]
  /\ editing = [e \in Editor |-> "idle"]
  /\ oldKey = [e \in Editor |-> NoKey]
  /\ doomed = [e \in Editor |-> {}]
  /\ behind = [c \in Content |-> 0]
  /\ exposed = {}

(***************************************************************************)
(* PublicWidgetConfig.  A request that finds a copy answers with it and    *)
(* changes nothing.                                                        *)
(***************************************************************************)

\* No copy, one that cannot be decoded, or Redis does not answer in time.
LookUp(v, k) ==
  /\ serving[v] = "idle"
  /\ serving' = [serving EXCEPT ![v] = "read"]
  /\ asked' = [asked EXCEPT ![v] = k]
  /\ UNCHANGED <<table, redis, seen, waited, editors, history>>

Answered(v) ==
  /\ serving' = [serving EXCEPT ![v] = "idle"]
  /\ asked' = [asked EXCEPT ![v] = NoKey]
  /\ seen' = [seen EXCEPT ![v] = 0]
  /\ waited' = [waited EXCEPT ![v] = 0]

\* The query does not run under the timeout.
ReadRow(v) ==
  /\ serving[v] = "read"
  /\ row = asked[v]
  /\ serving' = [serving EXCEPT ![v] = "fill"]
  /\ seen' = [seen EXCEPT ![v] = content]
  /\ UNCHANGED <<table, redis, asked, waited, editors, history>>

\* No such widget, a domain that is not allowed, or a copy that cannot be set.
AnswerOnly(v) ==
  /\ serving[v] # "idle"
  /\ Answered(v)
  /\ UNCHANGED <<table, redis, editors, history>>

\* Mutant of InTime: the copy is set outside the timeout.
InTimeAlways(v) == waited[v] \in Nat

InTime(v) == waited[v] <= Timeout

FillCopy(v) ==
  /\ serving[v] = "fill"
  /\ InTime(v)
  /\ copy' = [copy EXCEPT ![asked[v]] = seen[v]]
  /\ age' = [age EXCEPT ![asked[v]] = 0]
  /\ Answered(v)
  /\ UNCHANGED <<table, editors, history>>

(***************************************************************************)
(* The requests that change the row.                                       *)
(***************************************************************************)

\* The keys under which a visitor holds what it has read of the row.
InFlight == {k \in Key : \E v \in Visitor : serving[v] = "fill" /\ asked[v] = k}

Draw(k) == k \in Key \ drawn /\ drawn' = drawn \cup {k}

\* The row gets new content and the key k; missed are keys whose copies this
\* request will not delete.
Change(k, missed) ==
  /\ content < MaxChanges
  /\ content' = content + 1
  /\ row' = k
  /\ exposed' = exposed \cup missed \cup ({row} \cap InFlight)

\* Mutant of ToInvalidate: the copies are not deleted.
ToInvalidateNothing(e, keys) ==
  /\ editing' = [editing EXCEPT ![e] = "idle"]
  /\ UNCHANGED doomed

ToInvalidate(e, keys) ==
  /\ editing' = [editing EXCEPT ![e] = IF keys = {} THEN "idle" ELSE "invalidate"]
  /\ doomed' = [doomed EXCEPT ![e] = keys]

\* One UPDATE that returns the key.
Save(e) ==
  /\ editing[e] = "idle"
  /\ row # NoKey
  /\ Change(row, {})
  /\ ToInvalidate(e, {row})
  /\ UNCHANGED <<drawn, redis, visitors, oldKey, behind>>

UpdateWidget(e)     == Save(e)
UpdatePersona(e)    == Save(e)
UpdateBranding(e)   == Save(e)
UpdateNavigation(e) == Save(e)

\* An existing row keeps its key.
CreateWidget(e) ==
  \/ Save(e)
  \/ /\ editing[e] = "idle"
     /\ row = NoKey
     /\ \E k \in Key : Draw(k) /\ Change(k, {}) /\ ToInvalidate(e, {k})
     /\ UNCHANGED <<redis, visitors, oldKey, behind>>

\* A login gives an account without a widget an empty one.
EnsureWidget ==
  /\ row = NoKey
  /\ \E k \in Key : Draw(k) /\ Change(k, {})
  /\ UNCHANGED <<redis, visitors, editors, behind>>

\* The key that will be replaced; an error is ignored.
RegenerateWidgetRead(e) ==
  /\ editing[e] = "idle"
  /\ editing' = [editing EXCEPT ![e] = "regenerate"]
  /\ oldKey' \in {oldKey, [oldKey EXCEPT ![e] = row]}
  /\ UNCHANGED <<table, redis, visitors, doomed, history>>

\* Without a row nothing is written and the copies are deleted all the same;
\* when the statement fails neither.
RegenerateWidget(e) ==
  /\ editing[e] = "regenerate"
  /\ \/ /\ row # NoKey
        /\ \E k \in Key :
             /\ Draw(k)
             /\ Change(k, {row} \ {oldKey[e]})
             /\ ToInvalidate(e, {oldKey[e], k} \ {NoKey})
     \/ row = NoKey /\ ToInvalidate(e, {oldKey[e]} \ {NoKey}) /\ UNCHANGED <<table, exposed>>
     \/ ToInvalidate(e, {}) /\ UNCHANGED <<table, exposed>>
  /\ oldKey' = [oldKey EXCEPT ![e] = NoKey]
  /\ UNCHANGED <<redis, visitors, behind>>

\* The copy stays.
DeleteWidget ==
  /\ row # NoKey
  /\ row' = NoKey
  /\ exposed' = exposed \cup {row}
  /\ UNCHANGED <<content, drawn, redis, visitors, editors, behind>>

\* The visitors that would set a copy of k with what the row has left.
Late(k) == {v \in Visitor : serving[v] = "fill" /\ asked[v] = k /\ Gone(seen[v])}

\* The call deletes the copy, or fails and is ignored; so does a process that
\* ends before it.
Invalidate(e, k) ==
  /\ k \in doomed[e]
  /\ doomed' = [doomed EXCEPT ![e] = @ \ {k}]
  /\ editing' = [editing EXCEPT ![e] = IF doomed[e] = {k} THEN "idle" ELSE @]
  /\ \/ /\ copy' = [copy EXCEPT ![k] = 0]
        /\ age' = [age EXCEPT ![k] = 0]
        /\ exposed' = IF Late(k) = {} THEN exposed \ {k} ELSE exposed
     \/ exposed' = exposed \cup {k} /\ UNCHANGED redis
  /\ UNCHANGED <<table, visitors, oldKey, behind>>

-------------------------------------------------------------------------------
Outlived(k) == age[k] >= Lifetime

Expired == {k \in Key : copy[k] # 0 /\ Outlived(k)}

Tick ==
  /\ copy' = [k \in Key |-> IF k \in Expired THEN 0 ELSE copy[k]]
  /\ age' = [k \in Key |-> IF copy[k] # 0 /\ k \notin Expired THEN age[k] + 1 ELSE 0]
  /\ waited' = [v \in Visitor |-> IF serving[v] # "idle" /\ waited[v] <= Timeout
                                  THEN waited[v] + 1 ELSE waited[v]]
  /\ behind' = [c \in Content |-> IF c <= content /\ Gone(c) /\ behind[c] <= Bound
                                  THEN behind[c] + 1 ELSE behind[c]]
  /\ exposed' = {k \in exposed : k \notin Expired \/ Late(k) # {}}
  /\ UNCHANGED <<table, serving, asked, seen, editors>>

PublicWidgetConfig(v) ==
  \/ \E k \in Key : LookUp(v, k)
  \/ ReadRow(v) \/ AnswerOnly(v) \/ FillCopy(v)

Edit(e) ==
  \/ UpdateWidget(e) \/ UpdatePersona(e) \/ UpdateBranding(e) \/ UpdateNavigation(e)
  \/ CreateWidget(e)
  \/ RegenerateWidgetRead(e) \/ RegenerateWidget(e)
  \/ \E k \in Key : Invalidate(e, k)

Next ==
  \/ \E v \in Visitor : PublicWidgetConfig(v)
  \/ \E e \in Editor : Edit(e)
  \/ EnsureWidget
  \/ DeleteWidget
  \/ Tick

Spec == Init /\ [][Next]_vars

-------------------------------------------------------------------------------
\* A copy shows what the row has left only while the request that changed the
\* row is about to delete it, or after one of these: a visitor had read the row
\* and not yet set the copy when it changed; the deletion failed; two requests
\* regenerated the key at once or the old key could not be read; the widget was
\* deleted, which deletes no copy.
StaleNeedsCause ==
  \A k \in Key :
    copy[k] # 0 /\ Gone(copy[k]) => k \in exposed \/ \E e \in Editor : k \in doomed[e]

\* Whatever races and fails, no copy shows what the row has left for longer
\* than the lifetime of a copy and the timeout of the request that set it.
StaleIsBounded ==
  \A k \in Key : copy[k] # 0 => behind[copy[k]] <= Bound

-------------------------------------------------------------------------------
(***************************************************************************)
(* Strengthenings: what the visitors hold, and how old it is.              *)
(***************************************************************************)
KnowsItsKey ==
  /\ \A k \in Key : copy[k] <= content /\ (copy[k] # 0 /\ ~Gone(copy[k]) => k = row)
  /\ \A v \in Visitor : seen[v] <= content
  /\ \A v \in Visitor : serving[v] = "fill" /\ ~Gone(seen[v]) => asked[v] = row

LateIsExposed ==
  \A v \in Visitor : serving[v] = "fill" /\ Gone(seen[v]) => asked[v] \in exposed

NoOlderThanRead ==
  /\ \A c \in Content : c > content \/ ~Gone(c) => behind[c] = 0
  /\ \A k \in Key : copy[k] # 0 => behind[copy[k]] <= age[k] + Timeout
  /\ \A v \in Visitor :
       serving[v] = "fill" /\ waited[v] <= Timeout => behind[seen[v]] <= waited[v]
===============================================================================
