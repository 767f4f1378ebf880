--------------------------- MODULE IndexSyncProofs ---------------------------
(***************************************************************************)
(* Theorems about IndexSync, for any rows, size of the subscription and    *)
(* number of restarts, reliable or not.                                    *)
(***************************************************************************)
EXTENDS IndexSync, TLAPS

-----------------------------------------------------------------------------
(* Types.                                                                   *)

\* What isearch starts with, at first and after a restart.
LEMMA StartTypes ==
    /\ [ticker |-> "build", subscriber |-> "off"] \in [Builders -> BuilderStates]
    /\ [g \in Builders |-> {}] \in [Builders -> SUBSET Keys]
    /\ <<>> \in Seq(Events) /\ Len(<<>>) = 0
    /\ \A S : {} \subseteq S
<1>1. [ticker |-> "build", subscriber |-> "off"] =
      [g \in Builders |-> IF g = "ticker" THEN "build" ELSE "off"]
  BY DEF Builders
<1>2. [g \in Builders |-> IF g = "ticker" THEN "build" ELSE "off"] \in [Builders -> BuilderStates]
  BY DEF BuilderStates
<1> QED
  BY <1>1, <1>2

\* Messages come at the end of the queue and are taken from its front.
LEMMA QueueTypes ==
    ASSUME NEW q \in Seq(Events)
    PROVE  /\ Len(q) \in Nat
           /\ \A e \in Events : Append(q, e) \in Seq(Events) /\ Len(Append(q, e)) = Len(q) + 1
           /\ q # <<>> => /\ Head(q) \in Events
                          /\ Tail(q) \in Seq(Events) /\ Len(Tail(q)) = Len(q) - 1
  OBVIOUS

\* Steps of the update service.
LEMMA CatalogKeepsType ==
    ASSUME TypeOK, UpdateStep \/ \E event \in Events : SendEvent(event)
    PROVE  TypeOK'
<1> USE DEF TypeOK, isearchVars
<1>1. CASE UpdateStep
  <2>1. CatalogTypeOK'
    BY <1>1 DEF UpdateStep, CatalogTypeOK, Phases, Events, BeginUpdate, BeginDrop, Insert, Seal,
                Truncate, Fail, Release, Crash, Become
  <2> QED
    BY <1>1, <2>1 DEF UpdateStep
<1>2. ASSUME NEW event \in Events, SendEvent(event) PROVE TypeOK'
  <2>1. CatalogTypeOK'
    BY <1>2 DEF SendEvent, CatalogTypeOK, Announce, Phases
  <2>2. CASE Deliver(event)
    <3>1. pending' \in Seq(Events) /\ Len(pending') <= MaxPending
      BY <2>2, QueueTypes, BoundsAssumption DEF Deliver
    <3> QED
      BY <1>2, <2>1, <2>2, <3>1 DEF SendEvent, Deliver
  <2>3. CASE Lose
    BY <1>2, <2>1, <2>3 DEF SendEvent, Lose, Miss
  <2> QED
    BY <1>2, <2>2, <2>3 DEF SendEvent
<1> QED
  BY <1>1, <1>2

\* Steps of isearch.
LEMMA IsearchKeepsType ==
    ASSUME TypeOK, Ticker \/ Subscriber \/ Restart
    PROVE  TypeOK'
<1> USE DEF TypeOK, Builders, BuilderStates, Goto, Miss
<1>0. ASSUME UNCHANGED catalogVars PROVE CatalogTypeOK'
  BY <1>0 DEF CatalogTypeOK, catalogVars
<1>1. ASSUME NEW g \in Builders, ReadTable(g) PROVE TypeOK'
  BY <1>0, <1>1 DEF ReadTable, CatalogTypeOK
<1>2. ASSUME NEW g \in Builders, StoreIndex(g) PROVE TypeOK'
  BY <1>0, <1>2 DEF StoreIndex
<1>3. ASSUME NEW g \in Builders, BuildFails(g) PROVE TypeOK'
  BY <1>0, <1>3 DEF BuildFails
<1>4. CASE Tick \/ Subscribe
  BY <1>0, <1>4 DEF Tick, Subscribe
<1>5. CASE NextMsg
  <2>1. pending' \in Seq(Events) /\ Len(pending') <= MaxPending
    BY <1>5, QueueTypes, BoundsAssumption DEF NextMsg
  <2> QED
    BY <1>0, <1>5, <2>1 DEF NextMsg
<1>6. CASE DropIndex \/ NextMsgFails \/ Resume
  BY <1>0, <1>6 DEF DropIndex, NextMsgFails, Resume
<1>7. CASE Restart
  <2>1. CatalogTypeOK' /\ restarts' \in 0 .. MaxRestarts
    BY <1>0, <1>7, BoundsAssumption DEF Restart
  <2>2. /\ at' \in [Builders -> BuilderStates]
        /\ snapshot' \in [Builders -> SUBSET Keys]
        /\ pending' \in Seq(Events) /\ Len(pending') = 0
        /\ index' = {} /\ latest' = {}
    <3>1. Start
      BY <1>7 DEF Restart
    <3> HIDE DEF Builders, BuilderStates
    <3> QED
      BY <3>1, StartTypes DEF Start
  <2>3. missed' \in BOOLEAN /\ overtaken' \in BOOLEAN
    BY <1>7 DEF Restart, Start
  <2> QED
    BY <2>1, <2>2, <2>3, BoundsAssumption
<1> QED
  BY <1>1, <1>2, <1>3, <1>4, <1>5, <1>6, <1>7 DEF Ticker, Subscriber

\* Every variable keeps its type, for any size of the subscription.
THEOREM TypeCorrect == Spec => []TypeOK
<1>1. Init => TypeOK
  <2>1. CatalogInit => CatalogTypeOK
    BY DEF CatalogInit, CatalogTypeOK, Phases, Events
  <2>2. 0 <= MaxPending /\ 0 \in 0 .. MaxRestarts
    BY BoundsAssumption
  <2> QED
    BY <2>1, <2>2, StartTypes DEF Init, TypeOK
<1>2. TypeOK /\ [Next]_vars => TypeOK'
  <2>1. ASSUME TypeOK, UNCHANGED vars PROVE TypeOK'
    BY <2>1 DEF vars, catalogVars, isearchVars, TypeOK, CatalogTypeOK
  <2> QED
    BY <2>1, CatalogKeepsType, IsearchKeepsType DEF Next
<1> QED
  BY <1>1, <1>2, PTL DEF Spec

-----------------------------------------------------------------------------
(* The index follows the table.                                             *)

\* Events that were delivered and are not handled yet.
Waiting == pending # <<>> \/ at["subscriber"] \in {"build", "drop"}

\* The last of them is a drop event.
DropLast ==
    IF pending # <<>> THEN pending[Len(pending)] = "drop" ELSE at["subscriber"] = "drop"

\* A build that has read the table and that nothing has made out of date.
Promising(g) == g \in latest /\ at[g] = "got"

\* Why the index is fresh at rest.  The last event to be handled tells the truth:
\* a build reads the table itself, and a drop event is last only if the table is
\* empty.  When no event waits, the build that read last has seen the table as it
\* is; and when no such build is under way either, its result is the index.
FreshInv ==
    /\ phase = "emptied" => comics = {}
    /\ (DropLast /\ ~missed /\ ~dirty) => comics = {}
    /\ \A g \in Builders : (Promising(g) /\ ~Waiting /\ ~dirty) => snapshot[g] = comics
    /\ ( /\ ~Waiting /\ \A g \in Builders : ~Promising(g)
         /\ ~dirty /\ ~missed /\ ~overtaken ) => index = comics

\* What the update service does meanwhile: an unannounced change makes the table
\* dirty, and an event waits or was missed.
LEMMA CatalogKeepsFresh ==
    ASSUME TypeOK, FreshInv, UpdateStep \/ \E event \in Events : SendEvent(event)
    PROVE  FreshInv'
<1> USE DEF TypeOK, FreshInv, Waiting, DropLast, Promising
<1>1. CASE UpdateStep
  <2>1. UNCHANGED <<index, at, snapshot, pending, missed, overtaken, latest>>
    BY <1>1 DEF UpdateStep, isearchVars
  <2>2. (comics' = comics /\ dirty' = dirty) \/ dirty'
    BY <1>1 DEF UpdateStep, BeginUpdate, BeginDrop, Insert, Seal, Truncate, Fail, Release, Crash,
                Become, CatalogTypeOK
  <2>3. (phase = "emptied" => comics = {})'
    BY <1>1 DEF UpdateStep, BeginUpdate, BeginDrop, Insert, Seal, Truncate, Fail, Release, Crash, Become
  <2> QED
    BY <2>1, <2>2, <2>3
<1>2. ASSUME NEW event \in Events, SendEvent(event) PROVE FreshInv'
  <2>1. /\ phase' = "closing" /\ comics' = comics
        /\ event = "drop" => comics = {}
        /\ UNCHANGED <<index, at, snapshot>>
    BY <1>2 DEF SendEvent, Announce, Events
  <2>2. CASE Deliver(event)
    <3>1. pending' # <<>> /\ pending'[Len(pending')] = event
      BY <2>2, QueueTypes DEF Deliver
    <3>2. event = "drop" \/ event = "update"
      BY DEF Events
    <3> QED
      BY <2>1, <3>1, <3>2
  <2>3. CASE Lose
    BY <2>1, <2>3 DEF Lose, Miss
  <2> QED
    BY <1>2, <2>2, <2>3 DEF SendEvent
<1> QED
  BY <1>1, <1>2

\* What isearch does: both of its goroutines, a failed build and a restart.
LEMMA IsearchKeepsFresh ==
    ASSUME TypeOK, FreshInv, Ticker \/ Subscriber \/ Restart
    PROVE  FreshInv'
<1> USE DEF TypeOK, FreshInv, Waiting, DropLast, Promising, Builders, Goto, Miss, catalogVars
<1>1. ASSUME NEW g \in Builders, ReadTable(g) PROVE FreshInv'
  BY <1>1 DEF ReadTable
<1>2. ASSUME NEW g \in Builders, StoreIndex(g) PROVE FreshInv'
  <2>1. DropLast => DropWaits
    BY QueueTypes DEF DropWaits
  <2> QED
    BY <1>2, <2>1 DEF StoreIndex
<1>3. ASSUME NEW g \in Builders, BuildFails(g) PROVE FreshInv'
  BY <1>3 DEF BuildFails
<1>4. CASE Tick \/ Subscribe
  BY <1>4 DEF Tick, Subscribe
<1>5. CASE NextMsg
  <2>1. /\ at["subscriber"] = "rest" /\ pending # <<>> /\ pending' = Tail(pending)
        /\ at' = [at EXCEPT !["subscriber"] = IF Head(pending) = "update" THEN "build" ELSE "drop"]
        /\ UNCHANGED <<catalogVars, index, snapshot, missed, overtaken, latest>>
    BY <1>5 DEF NextMsg
  <2>2. Waiting /\ Waiting'
    BY <2>1
  <2>3. DropLast' = DropLast
    <3>1. Head(pending) = pending[1] /\ (Head(pending) = "update" \/ Head(pending) = "drop")
      BY <2>1, QueueTypes DEF Events
    <3>2. CASE Tail(pending) = <<>>
      <4>1. Len(pending) = 1
        <5>1. Len(Tail(pending)) = Len(pending) - 1 /\ Len(pending) \in Nat
          BY <2>1, QueueTypes
        <5>2. Len(Tail(pending)) = 0
          BY <3>2, StartTypes
        <5> QED
          BY <5>1, <5>2
      <4> QED
        BY <2>1, <3>1, <3>2, <4>1
    <3>3. CASE Tail(pending) # <<>>
      <4>1. Tail(pending)[Len(Tail(pending))] = pending[Len(pending)]
        BY <2>1, <3>3, QueueTypes
      <4> QED
        BY <2>1, <3>3, <4>1
    <3> QED
      BY <3>2, <3>3
  <2> HIDE DEF Waiting, DropLast
  <2> QED
    BY <2>1, <2>2, <2>3
<1>6. CASE DropIndex
  BY <1>6 DEF DropIndex
<1>7. CASE NextMsgFails \/ Resume
  BY <1>7 DEF NextMsgFails, Resume
<1>8. CASE Restart
  BY <1>8 DEF Restart, Start
<1> QED
  BY <1>1, <1>2, <1>3, <1>4, <1>5, <1>6, <1>7, <1>8 DEF Ticker, Subscriber

\* At rest the index shows the table unless it is dirty, an event was missed or a
\* build was overtaken: for any table, any queue and any order of the events, the
\* ticks and the builds (isearch/core/service.go:30-52, broker.go:43-93).
THEOREM IndexCorrect == Spec => []FreshUnlessExcused
<1>1. Init => FreshInv
  BY DEF Init, CatalogInit, FreshInv, DropLast, Promising, Waiting, Builders
<1>2. TypeOK /\ FreshInv /\ [Next]_vars => FreshInv'
  <2>1. ASSUME FreshInv, UNCHANGED vars PROVE FreshInv'
    BY <2>1 DEF vars, catalogVars, isearchVars, FreshInv, DropLast, Promising, Waiting
  <2> QED
    BY <2>1, CatalogKeepsFresh, IsearchKeepsFresh DEF Next
<1>3. FreshInv => FreshUnlessExcused
  BY DEF FreshInv, Waiting, Promising, Builders, FreshUnlessExcused, Quiet
<1> QED
  BY <1>1, <1>2, <1>3, TypeCorrect, PTL DEF Spec

\* The index only watches: whatever isearch builds, misses or forgets, the update
\* service stays Catalog, the specification that UpdateService implements
\* (isearch/core/service.go:30-52).
THEOREM IndexOnlyWatches == Spec => CatalogSpec
<1>1. Init => CatalogInit
  BY DEF Init
<1>2. [Next]_vars => [CatalogNext]_catalogVars
  <2>1. CASE UpdateStep
    BY <2>1 DEF UpdateStep, CatalogNext
  <2>2. ASSUME NEW event \in Events, SendEvent(event) PROVE CatalogNext
    BY <2>2 DEF SendEvent, CatalogNext
  <2>3. CASE Ticker \/ Subscriber \/ Restart
    BY <2>3 DEF Ticker, Subscriber, Restart, Tick, ReadTable, StoreIndex, BuildFails, Subscribe,
                NextMsg, DropIndex, NextMsgFails, Resume
  <2>4. CASE UNCHANGED vars
    BY <2>4 DEF vars
  <2> QED
    BY <2>1, <2>2, <2>3, <2>4 DEF Next
<1> QED
  BY <1>1, <1>2, PTL DEF Spec, CatalogSpec

-----------------------------------------------------------------------------
(* How the index heals.                                                     *)

\* A message waits only for a subscriber that is there to take it: one that never
\* subscribed has none, and one that subscribed never ends (broker.go:43-67).
WaitingIsHeard == pending # <<>> => Subscribed

\* What still separates the index from the table once the operations pause: messages
\* to handle, a drop to carry out, builds that have read a table which is no more.
Lag(g) == IF at[g] = "got" /\ snapshot[g] # comics THEN 1 ELSE 0

Debt ==
    2 * Len(pending) + (IF at["subscriber"] = "drop" THEN 1 ELSE 0)
        + Lag("ticker") + Lag("subscriber")

\* While no operation is under way and isearch is not restarted, the debt is paid and
\* never grows, whatever fails; from then on every build leaves the index equal to the
\* table, and it stays so.
PauseHeals ==
    [][(phase = "free" /\ phase' = "free" /\ restarts' = restarts) =>
          /\ Debt \in Nat /\ Debt' <= Debt
          /\ (NextMsg \/ DropIndex) => Debt' < Debt
          /\ \A g \in Builders : (StoreIndex(g) /\ snapshot[g] # comics) => Debt' < Debt
          /\ \A g \in Builders : (Debt = 0 /\ StoreIndex(g)) => index' = comics'
          /\ (Debt = 0 /\ index = comics) => index' = comics']_vars

\* The subscriber's loop is there for every message that waits, for any failures
\* (broker.go:43-67).
THEOREM MessagesHeard == Spec => []WaitingIsHeard
<1>1. Init => WaitingIsHeard
  BY DEF Init, WaitingIsHeard
<1>2. TypeOK /\ WaitingIsHeard /\ [Next]_vars => WaitingIsHeard'
  <2> SUFFICES ASSUME TypeOK, WaitingIsHeard, [Next]_vars PROVE WaitingIsHeard'
    OBVIOUS
  <2> USE DEF TypeOK, WaitingIsHeard, Subscribed, Goto, Miss, Builders, isearchVars
  <2>1. CASE UpdateStep \/ UNCHANGED vars
    BY <2>1 DEF UpdateStep, vars
  <2>2. ASSUME NEW event \in Events, SendEvent(event) PROVE WaitingIsHeard'
    BY <2>2 DEF SendEvent, Deliver, Lose
  <2>3. ASSUME NEW g \in Builders, ReadTable(g) \/ StoreIndex(g) \/ BuildFails(g)
        PROVE  WaitingIsHeard'
    BY <2>3 DEF ReadTable, StoreIndex, BuildFails
  <2>4. CASE Tick \/ DropIndex \/ NextMsgFails \/ Resume
    BY <2>4 DEF Tick, DropIndex, NextMsgFails, Resume
  <2>5. CASE Subscribe \/ NextMsg \/ Restart
    BY <2>5 DEF Subscribe, NextMsg, Restart, Start
  <2> QED
    BY <2>1, <2>2, <2>3, <2>4, <2>5 DEF Next, Ticker, Subscriber
<1> QED
  BY <1>1, <1>2, TypeCorrect, PTL DEF Spec

\* Nothing announces or changes a row between two moments without an operation.
LEMMA PauseKeepsTable ==
    ASSUME TypeOK, phase = "free", phase' = "free", restarts' = restarts, [Next]_vars
    PROVE  /\ comics' = comics
           /\ Ticker \/ Subscriber \/ UNCHANGED isearchVars
<1>1. CASE UpdateStep
  BY <1>1 DEF UpdateStep, BeginUpdate, BeginDrop, Insert, Seal, Truncate, Fail, Release, Crash
<1>2. ASSUME NEW event \in Events, SendEvent(event) PROVE FALSE
  BY <1>2 DEF SendEvent, Announce
<1>3. CASE Ticker \/ Subscriber
  BY <1>3 DEF Ticker, Subscriber, Tick, ReadTable, StoreIndex, BuildFails, Subscribe, NextMsg,
              DropIndex, NextMsgFails, Resume, catalogVars
<1>4. CASE Restart
  BY <1>4 DEF Restart, TypeOK
<1>5. CASE UNCHANGED vars
  BY <1>5 DEF vars, catalogVars
<1> QED
  BY <1>1, <1>2, <1>3, <1>4, <1>5 DEF Next

\* The index heals by itself after any losses, failures and overtakings, for any queue
\* and any table: what the ticker is for (initiator.go:28-46, broker.go:43-93).
THEOREM PausesHeal == Spec => PauseHeals
<1> DEFINE Heals ==
      (phase = "free" /\ phase' = "free" /\ restarts' = restarts) =>
          /\ Debt \in Nat /\ Debt' <= Debt
          /\ (NextMsg \/ DropIndex) => Debt' < Debt
          /\ \A g \in Builders : (StoreIndex(g) /\ snapshot[g] # comics) => Debt' < Debt
          /\ \A g \in Builders : (Debt = 0 /\ StoreIndex(g)) => index' = comics'
          /\ (Debt = 0 /\ index = comics) => index' = comics'
           Settles == Debt' <= Debt /\ ((Debt = 0 /\ index = comics) => index' = comics')
           Pays == Debt' < Debt
<1>1. ASSUME TypeOK, TypeOK', comics' = comics, Ticker \/ Subscriber \/ UNCHANGED isearchVars
      PROVE  /\ Debt \in Nat /\ Settles
             /\ NextMsg \/ DropIndex => Pays
             /\ \A g \in Builders : StoreIndex(g) /\ snapshot[g] # comics => Pays
             /\ \A g \in Builders : StoreIndex(g) /\ Debt = 0 => index' = comics'
  <2> DEFINE n == Len(pending)
             k == IF at["subscriber"] = "drop" THEN 1 ELSE 0
             p == Lag("ticker")
             q == Lag("subscriber")
  <2>1. n \in Nat /\ k \in 0 .. 1 /\ p \in 0 .. 1 /\ q \in 0 .. 1
    BY <1>1 DEF TypeOK, Lag
  <2>2. Debt = 2 * n + k + p + q
    BY DEF Debt
  <2>3. PICK m \in Nat, l \in 0 .. 1, r \in 0 .. 1, t \in 0 .. 1 :
          /\ m = Len(pending') /\ l = (IF at'["subscriber"] = "drop" THEN 1 ELSE 0)
          /\ r = Lag("ticker")' /\ t = Lag("subscriber")'
    BY <1>1 DEF TypeOK, Lag
  <2>4. Debt' = 2 * m + l + r + t
    BY <2>3 DEF Debt
  <2>5. Debt \in Nat /\ Debt' \in Nat
    <3> HIDE DEF n, k, p, q
    <3>1. Debt \in Nat
      BY <2>1, <2>2
    <3>2. Debt' \in Nat
      BY <2>4
    <3> QED
      BY <3>1, <3>2
  <2>6. Debt = 0 => n = 0 /\ k = 0 /\ p = 0 /\ q = 0
    <3> HIDE DEF n, k, p, q
    <3> QED
      BY <2>1, <2>2
  <2>7. comics' = comics
    BY <1>1
  <2>8. ASSUME NEW g \in Builders, ReadTable(g) PROVE Settles
    <3>1. m = n /\ l <= k /\ r <= p /\ t <= q /\ index' = index
      BY <1>1, <2>3, <2>8 DEF TypeOK, Builders, Goto, ReadTable, Lag
    <3> HIDE DEF n, k, p, q
    <3>2. Debt' <= Debt
      BY <2>1, <2>2, <2>4, <3>1
    <3> QED
      BY <2>7, <3>1, <3>2
  <2>9. ASSUME NEW g \in Builders, StoreIndex(g)
        PROVE  /\ Settles
               /\ snapshot[g] # comics => Pays
               /\ Debt = 0 => index' = comics'
    <3>1. m = n /\ l = k /\ index' = snapshot[g]
      BY <1>1, <2>3, <2>9 DEF TypeOK, Builders, Goto, StoreIndex
    <3>2. /\ r <= p /\ t <= q
          /\ snapshot[g] # comics => r < p \/ t < q
          /\ p = 0 /\ q = 0 => snapshot[g] = comics
      BY <1>1, <2>3, <2>9 DEF TypeOK, Builders, Goto, StoreIndex, Lag
    <3> HIDE DEF n, k, p, q
    <3>3. Debt' <= Debt /\ (snapshot[g] # comics => Debt' < Debt)
      BY <2>1, <2>2, <2>4, <3>1, <3>2
    <3> QED
      BY <2>6, <2>7, <3>1, <3>2, <3>3
  <2>10. ASSUME NEW g \in Builders, BuildFails(g) PROVE Settles
    <3>1. m = n /\ l = k /\ r = p /\ t = q /\ index' = index
      BY <1>1, <2>3, <2>10 DEF TypeOK, Builders, Goto, BuildFails, Lag
    <3> HIDE DEF n, k, p, q
    <3>2. Debt' = Debt
      BY <2>2, <2>4, <3>1
    <3> QED
      BY <2>5, <2>7, <3>1, <3>2
  <2>11. ASSUME Tick \/ Subscribe \/ NextMsgFails \/ Resume \/ UNCHANGED isearchVars PROVE Settles
    <3>1. m = n /\ l = k /\ r = p /\ t = q /\ index' = index
      BY <1>1, <2>3, <2>11 DEF TypeOK, Builders, Goto, Tick, Subscribe, NextMsgFails, Resume, isearchVars, Lag
    <3> HIDE DEF n, k, p, q
    <3>2. Debt' = Debt
      BY <2>2, <2>4, <3>1
    <3> QED
      BY <2>5, <2>7, <3>1, <3>2
  <2>12. ASSUME NextMsg PROVE Settles /\ Pays
    <3>1. m = n - 1 /\ k = 0 /\ r = p /\ t = q /\ index' = index
      BY <1>1, <2>3, <2>12 DEF TypeOK, Builders, Goto, NextMsg, Lag
    <3> HIDE DEF n, k, p, q
    <3>2. Debt' < Debt
      BY <2>1, <2>2, <2>4, <3>1
    <3> QED
      BY <2>5, <2>6, <2>7, <3>1, <3>2
  <2>13. ASSUME DropIndex PROVE Settles /\ Pays
    <3>1. m = n /\ k = 1 /\ l = 0 /\ r = p /\ t = q
      BY <1>1, <2>3, <2>13 DEF TypeOK, Builders, Goto, DropIndex, Lag
    <3> HIDE DEF n, k, p, q
    <3>2. Debt' < Debt
      BY <2>1, <2>2, <2>4, <3>1
    <3> QED
      BY <2>5, <2>6, <2>7, <3>1, <3>2
  <2> HIDE DEF n, k, p, q, Settles, Pays
  <2>14. Settles
    BY <1>1, <2>8, <2>9, <2>10, <2>11, <2>12, <2>13 DEF Ticker, Subscriber, Builders
  <2> QED
    BY <2>5, <2>9, <2>12, <2>13, <2>14
<1>2. TypeOK /\ TypeOK' /\ [Next]_vars => [Heals]_vars
  BY <1>1, PauseKeepsTable
<1> QED
  BY <1>2, TypeCorrect, PTL DEF Spec, PauseHeals
=============================================================================
