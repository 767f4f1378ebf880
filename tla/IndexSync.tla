------------------------------ MODULE IndexSync ------------------------------
(***************************************************************************)
(* How the in-memory index of the isearch service follows the table of     *)
(* comics.  The update service is Catalog; its events travel through Core  *)
(* NATS, which delivers at most once and keeps nothing for a subscriber    *)
(* that is not there; isearch rebuilds the index from two goroutines, the  *)
(* ticker of adapters/initiator and the subscriber of adapters/broker,     *)
(* which share nothing but the atomic pointer to the index.                *)
(*                                                                         *)
(* A row is its id, and the index is the set of rows it was built from.    *)
(***************************************************************************)
EXTENDS Catalog, Integers, Sequences

CONSTANTS
    MaxPending,     \* messages a NATS subscription holds before it drops some
    MaxRestarts,    \* how often the isearch process is restarted
    Reliable        \* no event is lost and no build fails?

ASSUME BoundsAssumption == MaxPending \in Nat \ {0} /\ MaxRestarts \in Nat
ASSUME ReliableAssumption == Reliable \in BOOLEAN

\* The goroutines that call BuildIndex.
Builders == {"ticker", "subscriber"}

VARIABLES
    index,          \* the rows behind s.index
    at,             \* next statement of each goroutine
    snapshot,       \* what its GetAllComics returned
    pending,        \* messages waiting in the subscription
    restarts,       \* restarts of isearch so far
    missed,         \* history: was an event lost, or its build, ...
    overtaken,      \* ... or an index replaced by one read earlier ...
    latest          \* ... since this goroutine (if any) read the table?

isearchVars == <<index, at, snapshot, pending, restarts, missed, overtaken, latest>>
vars == <<catalogVars, isearchVars>>

BuilderStates ==
    {"off", "build", "got", "rest",             \* rest: Ticker.C or NextMsg
     "drop", "pause", "gone"}                   \* of the subscriber only

TypeOK ==
    /\ CatalogTypeOK
    /\ index \subseteq Keys
    /\ at \in [Builders -> BuilderStates]
    /\ snapshot \in [Builders -> SUBSET Keys]
    /\ pending \in Seq(Events) /\ Len(pending) <= MaxPending
    /\ restarts \in 0 .. MaxRestarts
    /\ missed \in BOOLEAN
    /\ overtaken \in BOOLEAN
    /\ latest \subseteq Builders

\* main starts the ticker's goroutine, whose first build needs no tick, and
\* connects and subscribes only after that.
Start ==
    /\ index' = {}
    /\ at' = [ticker |-> "build", subscriber |-> "off"]
    /\ snapshot' = [g \in Builders |-> {}]
    /\ pending' = <<>>
    /\ missed' = TRUE
    /\ overtaken' = FALSE
    /\ latest' = {}

Init ==
    /\ CatalogInit
    /\ index = {}
    /\ at = [ticker |-> "build", subscriber |-> "off"]
    /\ snapshot = [g \in Builders |-> {}]
    /\ pending = <<>>
    /\ restarts = 0
    /\ missed = TRUE
    /\ overtaken = FALSE
    /\ latest = {}

Goto(g, s) == at' = [at EXCEPT ![g] = s]

\* From now on the index may be behind until a build that has yet to start.
Miss == missed' = TRUE /\ latest' = {} /\ UNCHANGED overtaken

-----------------------------------------------------------------------------
(* The broker.                                                              *)

Subscribed == at["subscriber"] \notin {"off", "gone"}

\* Fault: one message more than the subscription holds.
DeliverOver(event) ==
    /\ Subscribed /\ Len(pending) <= MaxPending
    /\ pending' = Append(pending, event)
    /\ UNCHANGED <<missed, overtaken, latest>>

Deliver(event) ==
    /\ Subscribed /\ Len(pending) < MaxPending
    /\ pending' = Append(pending, event)
    /\ UNCHANGED <<missed, overtaken, latest>>

\* Nobody has subscribed, the subscription is full, or the connection of
\* either side is down: SendEvent logs an error at most.
Lose ==
    /\ Subscribed => Len(pending) = MaxPending \/ ~Reliable
    /\ Miss
    /\ UNCHANGED pending

\* The update service hands over the event of an operation that succeeded.
SendEvent(event) ==
    /\ Announce(event)
    /\ Deliver(event) \/ Lose
    /\ UNCHANGED <<index, at, snapshot, restarts>>

-----------------------------------------------------------------------------
(* BuildIndex, by either goroutine.                                         *)

\* GetAllComics.  Builds of the other goroutine that read before this one
\* hold a snapshot that is no better than this one.
ReadTable(g) ==
    /\ at[g] = "build"
    /\ snapshot' = [snapshot EXCEPT ![g] = comics]
    /\ Goto(g, "got")
    /\ latest' = {g}
    /\ UNCHANGED <<catalogVars, index, pending, restarts, missed, overtaken>>

\* A drop event still to be handled empties the index of any table.
DropWaits ==
    \/ at["subscriber"] = "drop"
    \/ \E i \in DOMAIN pending : pending[i] = "drop"

\* s.index.Store: whatever the other goroutine stored meanwhile is replaced.
StoreIndex(g) ==
    /\ at[g] = "got"
    /\ index' = snapshot[g]
    /\ missed' = (missed /\ (g \notin latest \/ DropWaits))
    /\ overtaken' = (g \notin latest)
    /\ snapshot' = [snapshot EXCEPT ![g] = {}]
    /\ Goto(g, "rest")
    /\ UNCHANGED <<catalogVars, pending, restarts, latest>>

\* Fault: the loop of the goroutine ends with the error.
BuildFailsForGood(g) ==
    /\ ~Reliable
    /\ at[g] = "build"
    /\ Goto(g, "gone")
    /\ IF g = "subscriber" THEN Miss ELSE UNCHANGED <<missed, overtaken, latest>>
    /\ UNCHANGED <<catalogVars, index, snapshot, pending, restarts>>

\* GetAllComics fails: the error is logged, nothing is retried.
BuildFails(g) ==
    /\ ~Reliable
    /\ at[g] = "build"
    /\ Goto(g, "rest")
    /\ IF g = "subscriber" THEN Miss ELSE UNCHANGED <<missed, overtaken, latest>>
    /\ UNCHANGED <<catalogVars, index, snapshot, pending, restarts>>

-----------------------------------------------------------------------------
(* The two goroutines.                                                      *)

Tick ==
    /\ at["ticker"] = "rest"
    /\ Goto("ticker", "build")
    /\ UNCHANGED <<catalogVars, index, snapshot, pending, restarts, missed, overtaken, latest>>

\* SubscribeSync, or its failure, after which the goroutine ends for good
\* while the service goes on serving.
Subscribe ==
    /\ at["subscriber"] = "off"
    /\ \/ Goto("subscriber", "rest")
       \/ ~Reliable /\ Goto("subscriber", "gone")
    /\ UNCHANGED <<catalogVars, index, snapshot, pending, restarts, missed, overtaken, latest>>

\* Fault: a burst of messages is handled as its first one.
NextMsgOnce ==
    /\ at["subscriber"] = "rest" /\ pending # <<>>
    /\ pending' = <<>>
    /\ Goto("subscriber", IF Head(pending) = "update" THEN "build" ELSE "drop")
    /\ UNCHANGED <<catalogVars, index, snapshot, restarts, missed, overtaken, latest>>

\* NextMsgWithContext returns a message, and processMsg dispatches it.
NextMsg ==
    /\ at["subscriber"] = "rest" /\ pending # <<>>
    /\ pending' = Tail(pending)
    /\ Goto("subscriber", IF Head(pending) = "update" THEN "build" ELSE "drop")
    /\ UNCHANGED <<catalogVars, index, snapshot, restarts, missed, overtaken, latest>>

\* DropIndex stores an empty index; a build that has read the table before
\* this moment may still store over it.
DropIndex ==
    /\ at["subscriber"] = "drop"
    /\ index' = {}
    /\ latest' = {}
    /\ Goto("subscriber", "rest")
    /\ UNCHANGED <<catalogVars, snapshot, pending, restarts, missed, overtaken>>

\* Fault: any error of NextMsgWithContext ends the loop.
NextMsgFailsForGood ==
    /\ ~Reliable
    /\ at["subscriber"] = "rest"
    /\ Goto("subscriber", "gone")
    /\ UNCHANGED <<catalogVars, index, snapshot, pending, restarts, missed, overtaken, latest>>

\* NextMsgWithContext fails: two seconds of sleep, and again.
NextMsgFails ==
    /\ ~Reliable
    /\ at["subscriber"] = "rest"
    /\ Goto("subscriber", "pause")
    /\ UNCHANGED <<catalogVars, index, snapshot, pending, restarts, missed, overtaken, latest>>

Resume ==
    /\ at["subscriber"] = "pause"
    /\ Goto("subscriber", "rest")
    /\ UNCHANGED <<catalogVars, index, snapshot, pending, restarts, missed, overtaken, latest>>

\* isearch dies (or its NATS connection cannot be made) and is started again.
Restart ==
    /\ restarts < MaxRestarts
    /\ restarts' = restarts + 1
    /\ Start
    /\ UNCHANGED catalogVars

-----------------------------------------------------------------------------
\* The update service, but for its events.
UpdateStep ==
    /\ \/ BeginUpdate \/ BeginDrop
       \/ \E k \in Keys : Insert(k)
       \/ Seal \/ Truncate \/ Fail
       \/ Release \/ Crash
    /\ UNCHANGED isearchVars

Ticker == Tick \/ ReadTable("ticker") \/ StoreIndex("ticker") \/ BuildFails("ticker")

Subscriber ==
    \/ Subscribe \/ NextMsg \/ DropIndex \/ NextMsgFails \/ Resume
    \/ ReadTable("subscriber") \/ StoreIndex("subscriber") \/ BuildFails("subscriber")

Next ==
    \/ UpdateStep
    \/ \E event \in Events : SendEvent(event)
    \/ Ticker \/ Subscriber
    \/ Restart

Spec == Init /\ [][Next]_vars

\* The goroutines run, the ticker keeps ticking every INDEX_TTL, and the
\* database does not fail every build of the ticker, nor NATS every NextMsg.
Fairness ==
    /\ WF_vars(Ticker) /\ WF_vars(Subscriber)
    /\ SF_vars(ReadTable("ticker")) /\ SF_vars(NextMsg)

FairSpec == Spec /\ Fairness
-----------------------------------------------------------------------------
(* Properties.                                                              *)

\* Nothing is under way: no operation, no event, no build.
Quiet ==
    /\ phase = "free" /\ pending = <<>>
    /\ \A g \in Builders : at[g] = "rest"

\* At rest the index shows the table, unless one of exactly three things has
\* happened since the table was last read for it: an operation failed and
\* announced nothing (dirty), an event or the build it asked for was lost
\* (missed), or a build stored over the result of a build that had read the
\* table later (overtaken).  A tick repairs all three, save that after a lost
\* event a drop event still waiting undoes it.  Late events, bursts of them, ticks and builds
\* that see half of an update never leave the index behind
\* (isearch/core/service.go:30-52, broker.go:43-93).
FreshUnlessExcused == (Quiet /\ ~dirty /\ ~missed /\ ~overtaken) => index = comics

\* The ticker repairs everything: if from some moment on no operation runs and
\* isearch is not restarted, the index ends up equal to the table and stays so,
\* whatever was lost, failed or overtaken before (initiator.go:28-46).
EventuallyFresh == <>[](phase = "free") => <>[](index = comics)

\* Once the operations pause, every event that reached the subscription is
\* handled: a failing database or connection, now and then, does not stop the
\* subscriber's loop (broker.go:49-67).
EventsDrain == <>[](phase = "free") => <>[](pending = <<>>)

\* What README.md:57 promises of the events: an event that was delivered, and
\* whose build did not fail, leaves the index equal to the table.
EventsKeepIndexFresh == (Quiet /\ ~dirty /\ ~missed) => index = comics
=============================================================================
