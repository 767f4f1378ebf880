---------------------------- MODULE UpdateService ----------------------------
(***************************************************************************)
(* The core of the update service (update/core/service.go): calls of       *)
(* Update and Drop that compete for the flag s.updating, and, inside an    *)
(* update, the feeder goroutine, the unbuffered channel of ids and the     *)
(* worker goroutines of the errgroup, which fetch each missing comic from  *)
(* xkcd with retries, normalise its words and store it.                    *)
(*                                                                         *)
(* One step is what a goroutine does between two points where another one  *)
(* can see or change shared state: an operation on the flag, a call to the *)
(* database, xkcd, words or the broker, a rendezvous on the channel.  The  *)
(* text of a comic is left out: a row of the table is its id.              *)
(***************************************************************************)
EXTENDS Integers, FiniteSets

CONSTANTS
    Calls,          \* concurrent calls of the gRPC handlers Update and Drop
    Workers,        \* worker goroutines of one update (XKCD_CONCURRENCY)
    MaxId,          \* the largest number LastID can report
    MaxAttempts     \* maxAttempts of fetchWithRetry, 3 in the source

\* NewService refuses a concurrency below one.
ASSUME WorkersAssumption == Workers # {} /\ IsFiniteSet(Workers)
ASSUME BoundsAssumption == MaxId \in Nat /\ MaxAttempts \in Nat \ {0}

Ids == 1 .. MaxId
Keys == {0} \cup Ids     \* a body without "num" decodes to comic number 0
NoJob == -1

VARIABLES
    comics,         \* the ids of the rows of table comics
    updating,       \* the atomic flag s.updating
    lastEvent,      \* the last event handed to broker.SendEvent
    dirty,          \* history: has the table changed since that event?
    pc,             \* next statement of each call
    res,            \* what the call is about to return
    cancelled,      \* is the call's context done?
    gdone,          \* has the errgroup cancelled gCtx?
    gerr,           \* did a worker of the call return an error?
    exist,          \* existIds
    feeding,        \* is the feeder running, and so channel in open?
    goal,           \* history: the ids the feeder set out to hand over
    todo,           \* those it has not handed over yet
    skipped,        \* history: the ids whose processOne gave up
    late,           \* history: how many db.Add ended after gCtx was done
    at,             \* next statement of each worker
    job,            \* the id, later the row key, the worker is busy with
    try             \* the variable attempt of its fetchWithRetry

shared == <<comics, updating, lastEvent, dirty>>
callVars == <<pc, res, cancelled, exist>>
groupVars == <<gdone, gerr, feeding, goal, todo, skipped, late>>
workerVars == <<at, job, try>>
vars == <<shared, callVars, groupVars, workerVars>>

CallStates == {"idle", "busy", "IDs", "LastID", "Wait", "SendUpdate",
               "Drop", "SendDrop", "Return"}
WorkerStates == {"off", "recv", "fetch", "backoff", "norm", "store", "blank", "done"}

TypeOK ==
    /\ comics \subseteq Keys
    /\ updating \in BOOLEAN
    /\ lastEvent \in {"none", "update", "drop"}
    /\ dirty \in BOOLEAN
    /\ pc \in [Calls -> CallStates]
    /\ res \in [Calls -> {"none", "ok", "error"}]
    /\ cancelled \in [Calls -> BOOLEAN]
    /\ gdone \in [Calls -> BOOLEAN]
    /\ gerr \in [Calls -> BOOLEAN]
    /\ feeding \in [Calls -> BOOLEAN]
    /\ exist \in [Calls -> SUBSET Keys]
    /\ goal \in [Calls -> SUBSET Ids]
    /\ todo \in [Calls -> SUBSET Ids]
    /\ skipped \in [Calls -> SUBSET Ids]
    /\ late \in [Calls -> Nat]
    /\ at \in [Calls -> [Workers -> WorkerStates]]
    /\ job \in [Calls -> [Workers -> Keys \cup {NoJob}]]
    /\ try \in [Calls -> [Workers -> 0 .. MaxAttempts - 1]]

Init ==
    /\ comics = {}
    /\ updating = FALSE
    /\ lastEvent = "none"
    /\ dirty = FALSE
    /\ pc = [c \in Calls |-> "idle"]
    /\ res = [c \in Calls |-> "none"]
    /\ cancelled = [c \in Calls |-> FALSE]
    /\ gdone = [c \in Calls |-> TRUE]
    /\ gerr = [c \in Calls |-> FALSE]
    /\ feeding = [c \in Calls |-> FALSE]
    /\ exist = [c \in Calls |-> {}]
    /\ goal = [c \in Calls |-> {}]
    /\ todo = [c \in Calls |-> {}]
    /\ skipped = [c \in Calls |-> {}]
    /\ late = [c \in Calls |-> 0]
    /\ at = [c \in Calls |-> [w \in Workers |-> "off"]]
    /\ job = [c \in Calls |-> [w \in Workers |-> NoJob]]
    /\ try = [c \in Calls |-> [w \in Workers |-> 0]]

\* gCtx is derived from the call's context and cancelled by the errgroup.
GDone(c) == gdone[c] \/ cancelled[c]

Become(rows) ==
    /\ comics' = rows
    /\ dirty' = (dirty \/ rows # comics)

Goto(c, s) == pc' = [pc EXCEPT ![c] = s]

Move(c, w, s) == at' = [at EXCEPT ![c][w] = s]

-----------------------------------------------------------------------------
(* Update and Drop: the goroutine that serves the call.                     *)

\* CompareAndSwap(false, true) succeeds.  A slot whose previous update left
\* its feeder running is not reused before that feeder has ended.
Acquire(c, op) ==
    /\ pc[c] = "idle" /\ ~feeding[c]
    /\ ~updating
    /\ updating' = TRUE
    /\ Goto(c, op)
    /\ UNCHANGED <<comics, lastEvent, dirty, res, cancelled, exist, groupVars, workerVars>>

BeginUpdate(c) == Acquire(c, "IDs")

BeginDrop(c) == Acquire(c, "Drop")

\* Fault: the Store(false) is deferred before the CompareAndSwap.
RefuseReleases(c) ==
    /\ pc[c] = "idle" /\ ~feeding[c]
    /\ updating
    /\ updating' = FALSE
    /\ Goto(c, "busy")
    /\ UNCHANGED <<comics, lastEvent, dirty, res, cancelled, exist, groupVars, workerVars>>

\* CompareAndSwap fails: ErrAlreadyRunning, and the deferred Store(false) is
\* not registered.
Refuse(c) ==
    /\ pc[c] = "idle" /\ ~feeding[c]
    /\ updating
    /\ Goto(c, "busy")
    /\ UNCHANGED <<shared, res, cancelled, exist, groupVars, workerVars>>

Refused(c) ==
    /\ pc[c] = "busy"
    /\ Goto(c, "idle")
    /\ UNCHANGED <<shared, res, cancelled, exist, groupVars, workerVars>>

\* The return value is decided; the deferred Store(false) comes next.
Finish(c, r) ==
    /\ Goto(c, "Return")
    /\ res' = [res EXCEPT ![c] = r]

ReadIDs(c) ==
    /\ pc[c] = "IDs" /\ ~cancelled[c]
    /\ exist' = [exist EXCEPT ![c] = comics]
    /\ Goto(c, "LastID")
    /\ UNCHANGED <<shared, res, cancelled, groupVars, workerVars>>

\* db.IDs or xkcd.LastID returns an error.
ReadFails(c) ==
    /\ pc[c] \in {"IDs", "LastID"}
    /\ Finish(c, "error")
    /\ exist' = [exist EXCEPT ![c] = {}]
    /\ UNCHANGED <<shared, cancelled, groupVars, workerVars>>

\* LastID answers n; the feeder and the workers are started.  xkcd's answer
\* is not under the service's control, it may even be below a stored id.
ReadLastID(c) ==
    /\ pc[c] = "LastID" /\ ~cancelled[c]
    /\ \E n \in 0 .. MaxId :
        /\ goal' = [goal EXCEPT ![c] = (1 .. n) \ exist[c]]
        /\ todo' = [todo EXCEPT ![c] = (1 .. n) \ exist[c]]
    /\ exist' = [exist EXCEPT ![c] = {}]
    /\ gdone' = [gdone EXCEPT ![c] = FALSE]
    /\ feeding' = [feeding EXCEPT ![c] = TRUE]
    /\ at' = [at EXCEPT ![c] = [w \in Workers |-> "recv"]]
    /\ Goto(c, "Wait")
    /\ UNCHANGED <<shared, res, cancelled, gerr, skipped, late, job, try>>

\* Fault: the call returns at the first error, its workers go on.
JoinedEarly(c) ==
    /\ pc[c] = "Wait"
    /\ gerr[c] \/ \A w \in Workers : at[c][w] = "done"
    /\ gdone' = [gdone EXCEPT ![c] = TRUE]
    /\ UNCHANGED <<shared, cancelled, exist, gerr, feeding, goal, todo, skipped, late, workerVars>>

\* g.Wait() returns once every worker has returned; it also cancels gCtx.
Joined(c) ==
    /\ pc[c] = "Wait"
    /\ \A w \in Workers : at[c][w] = "done"
    /\ at' = [at EXCEPT ![c] = [w \in Workers |-> "off"]]
    /\ gdone' = [gdone EXCEPT ![c] = TRUE]
    /\ UNCHANGED <<shared, cancelled, exist, gerr, feeding, goal, todo, skipped, late, job, try>>

\* Fault: no event when the update found nothing to fetch.
WaitOkQuietly(c) ==
    /\ Joined(c) /\ ~gerr[c]
    /\ IF goal[c] = {} THEN Finish(c, "ok") ELSE Goto(c, "SendUpdate") /\ UNCHANGED res

WaitOk(c) == Joined(c) /\ ~gerr[c] /\ Goto(c, "SendUpdate") /\ UNCHANGED res

WaitFails(c) == Joined(c) /\ gerr[c] /\ Finish(c, "error")

\* broker.SendEvent logs its errors and returns nothing: the call succeeds.
SendEvent(c, event) ==
    /\ lastEvent' = event
    /\ dirty' = FALSE
    /\ Finish(c, "ok")
    /\ UNCHANGED <<comics, updating, cancelled, exist, groupVars, workerVars>>

SendUpdate(c) == pc[c] = "SendUpdate" /\ SendEvent(c, "update")

SendDrop(c) == pc[c] = "SendDrop" /\ SendEvent(c, "drop")

TruncateOk(c) ==
    /\ pc[c] = "Drop" /\ ~cancelled[c]
    /\ Become({})
    /\ Goto(c, "SendDrop")
    /\ UNCHANGED <<updating, lastEvent, res, cancelled, exist, groupVars, workerVars>>

\* Fault: the error of db.Drop is ignored.
TruncateFailsUnseen(c) ==
    /\ pc[c] = "Drop"
    /\ \E rows \in {comics, {}} : Become(rows)
    /\ Goto(c, "SendDrop")
    /\ UNCHANGED <<updating, lastEvent, res, cancelled, exist, groupVars, workerVars>>

\* An error leaves open whether the TRUNCATE was carried out.
TruncateFails(c) ==
    /\ pc[c] = "Drop"
    /\ \E rows \in {comics, {}} : Become(rows)
    /\ Finish(c, "error")
    /\ UNCHANGED <<updating, lastEvent, cancelled, exist, groupVars, workerVars>>

\* defer s.updating.Store(false), and the call is over.
Return(c) ==
    /\ pc[c] = "Return"
    /\ updating' = FALSE
    /\ Goto(c, "idle")
    /\ res' = [res EXCEPT ![c] = "none"]
    /\ cancelled' = [cancelled EXCEPT ![c] = FALSE]
    /\ gerr' = [gerr EXCEPT ![c] = FALSE]
    /\ goal' = [goal EXCEPT ![c] = {}]
    /\ skipped' = [skipped EXCEPT ![c] = {}]
    /\ late' = [late EXCEPT ![c] = 0]
    /\ UNCHANGED <<comics, lastEvent, dirty, exist, gdone, feeding, todo, workerVars>>

-----------------------------------------------------------------------------
(* The feeder goroutine.                                                    *)

\* The rendezvous on the unbuffered channel.  The select may choose it even
\* when gCtx is done.
Feed(c, w) ==
    /\ feeding[c] /\ at[c][w] = "recv"
    /\ \E i \in todo[c] :
        /\ \A j \in todo[c] : i <= j
        /\ todo' = [todo EXCEPT ![c] = @ \ {i}]
        /\ job' = [job EXCEPT ![c][w] = i]
    /\ Move(c, w, "fetch")
    /\ UNCHANGED <<shared, callVars, gdone, gerr, feeding, goal, skipped, late, try>>

\* Fault: the loop stops before the last id.
FeederEndsShort(c) ==
    /\ feeding[c]
    /\ Cardinality(todo[c]) <= 1 \/ GDone(c)
    /\ feeding' = [feeding EXCEPT ![c] = FALSE]
    /\ todo' = [todo EXCEPT ![c] = {}]
    /\ UNCHANGED <<shared, callVars, gdone, gerr, goal, skipped, late, workerVars>>

\* Fault: a plain send instead of the select.
FeederEndsBlindly(c) ==
    /\ feeding[c]
    /\ todo[c] = {}
    /\ feeding' = [feeding EXCEPT ![c] = FALSE]
    /\ UNCHANGED <<shared, callVars, gdone, gerr, goal, todo, skipped, late, workerVars>>

\* Fault: close(in) after the loop, not deferred: a feeder that sees gCtx done
\* leaves the channel open.
FeederEndsUnclosed(c) ==
    /\ feeding[c]
    /\ \/ ~GDone(c) /\ todo[c] = {} /\ feeding' = [feeding EXCEPT ![c] = FALSE]
       \/ GDone(c) /\ todo[c] # {} /\ UNCHANGED feeding
    /\ todo' = [todo EXCEPT ![c] = {}]
    /\ UNCHANGED <<shared, callVars, gdone, gerr, goal, skipped, late, workerVars>>

\* The loop is over, or the select sees gCtx done; close(in) is deferred.
FeederEnds(c) ==
    /\ feeding[c]
    /\ todo[c] = {} \/ GDone(c)
    /\ feeding' = [feeding EXCEPT ![c] = FALSE]
    /\ todo' = [todo EXCEPT ![c] = {}]
    /\ UNCHANGED <<shared, callVars, gdone, gerr, goal, skipped, late, workerVars>>

-----------------------------------------------------------------------------
(* A worker goroutine: the range over the channel and processOne.           *)

WorkerExits(c, w) ==
    /\ at[c][w] = "recv" /\ ~feeding[c]
    /\ Move(c, w, "done")
    /\ UNCHANGED <<shared, callVars, groupVars, job, try>>

\* processOne returned: the range continues with the next id.
NextJob(c, w) ==
    /\ Move(c, w, "recv")
    /\ job' = [job EXCEPT ![c][w] = NoJob]
    /\ try' = [try EXCEPT ![c][w] = 0]

GiveUp(c, w) ==
    /\ NextJob(c, w)
    /\ skipped' = [skipped EXCEPT ![c] = @ \cup {job[c][w]}]
    /\ UNCHANGED <<shared, callVars, gdone, gerr, feeding, goal, todo, late>>

\* xkcd.Get answers.  The row will carry the number found in the body, k: the
\* number asked for, or 0 when the body (of any status but 404) has none; the
\* id asked for then stays without a row.
Fetched(c, w) ==
    /\ at[c][w] = "fetch" /\ ~GDone(c)
    /\ \E k \in {job[c][w], 0} :
        /\ job' = [job EXCEPT ![c][w] = k]
        /\ skipped' = [skipped EXCEPT ![c] = IF k = 0 THEN @ \cup {job[c][w]} ELSE @]
    /\ Move(c, w, "norm")
    /\ try' = [try EXCEPT ![c][w] = 0]
    /\ UNCHANGED <<shared, callVars, gdone, gerr, feeding, goal, todo, late>>

\* Fault: one attempt too many.
LastTryLate(c, w) == try[c][w] = MaxAttempts

LastTry(c, w) == try[c][w] = MaxAttempts - 1

\* Any error, a 404 included, is retried while attempts are left.
FetchFails(c, w) ==
    /\ at[c][w] = "fetch" /\ ~LastTry(c, w)
    /\ Move(c, w, "backoff")
    /\ UNCHANGED <<shared, callVars, groupVars, job, try>>

\* Fault: xkcd is asked without the context.
FetchNotFoundAnyway(c, w) ==
    /\ at[c][w] = "fetch" /\ LastTry(c, w)
    /\ Move(c, w, "blank")
    /\ try' = [try EXCEPT ![c][w] = 0]
    /\ UNCHANGED <<shared, callVars, groupVars, job>>

\* The last attempt is answered by 404: a placeholder row is stored.
FetchNotFound(c, w) ==
    /\ at[c][w] = "fetch" /\ LastTry(c, w) /\ ~GDone(c)
    /\ Move(c, w, "blank")
    /\ try' = [try EXCEPT ![c][w] = 0]
    /\ UNCHANGED <<shared, callVars, groupVars, job>>

FetchExhausted(c, w) ==
    /\ at[c][w] = "fetch" /\ LastTry(c, w)
    /\ GiveUp(c, w)

\* With gCtx done and the timer expired the select may take either branch.
BackoffElapsed(c, w) ==
    /\ at[c][w] = "backoff"
    /\ Move(c, w, "fetch")
    /\ try' = [try EXCEPT ![c][w] = @ + 1]
    /\ UNCHANGED <<shared, callVars, groupVars, job>>

BackoffCancelled(c, w) ==
    /\ at[c][w] = "backoff" /\ GDone(c)
    /\ GiveUp(c, w)

Normed(c, w) ==
    /\ at[c][w] = "norm" /\ ~GDone(c)
    /\ Move(c, w, "store")
    /\ UNCHANGED <<shared, callVars, groupVars, job, try>>

\* Fault: a comic whose words cannot be normalised is stored without words.
NormFailsStored(c, w) ==
    /\ at[c][w] = "norm"
    /\ Become(comics \cup {job[c][w]})
    /\ NextJob(c, w)
    /\ skipped' = [skipped EXCEPT ![c] = @ \cup ({job[c][w]} \ {0})]
    /\ UNCHANGED <<updating, lastEvent, callVars, gdone, gerr, feeding, goal, todo, late>>

\* The ids that lose their row: the job, unless it is already a stray 0.
NormFails(c, w) ==
    /\ at[c][w] = "norm"
    /\ NextJob(c, w)
    /\ skipped' = [skipped EXCEPT ![c] = @ \cup ({job[c][w]} \ {0})]
    /\ UNCHANGED <<shared, callVars, gdone, gerr, feeding, goal, todo, late>>

CountLate(c) == late' = IF GDone(c) THEN [late EXCEPT ![c] = @ + 1] ELSE late

\* Fault: an event for every row.
StoredAnnounced(c, w) ==
    /\ at[c][w] \in {"store", "blank"}
    /\ comics' = comics \cup {job[c][w]}
    /\ dirty' = FALSE
    /\ lastEvent' = "update"
    /\ NextJob(c, w)
    /\ CountLate(c)
    /\ UNCHANGED <<updating, callVars, gdone, gerr, feeding, goal, todo, skipped>>

\* INSERT ... ON CONFLICT DO NOTHING, of the comic or of the placeholder.  The
\* statement is executed without the context: gCtx does not stop it.
Stored(c, w) ==
    /\ at[c][w] \in {"store", "blank"}
    /\ Become(comics \cup {job[c][w]})
    /\ NextJob(c, w)
    /\ CountLate(c)
    /\ UNCHANGED <<updating, lastEvent, callVars, gdone, gerr, feeding, goal, todo, skipped>>

\* Add returns an error, which leaves open whether the row is in the table:
\* the worker ends, and the errgroup keeps the error and cancels gCtx.
StoreFails(c, w) ==
    /\ at[c][w] \in {"store", "blank"}
    /\ \E rows \in {comics, comics \cup {job[c][w]}} : Become(rows)
    /\ Move(c, w, "done")
    /\ job' = [job EXCEPT ![c][w] = NoJob]
    /\ gerr' = [gerr EXCEPT ![c] = TRUE]
    /\ gdone' = [gdone EXCEPT ![c] = TRUE]
    /\ CountLate(c)
    /\ UNCHANGED <<updating, lastEvent, callVars, feeding, goal, todo, skipped, try>>

-----------------------------------------------------------------------------
(* The surroundings.                                                        *)

\* The client goes away or its deadline expires.
Cancel(c) ==
    /\ pc[c] \notin {"idle", "busy"} /\ ~cancelled[c]
    /\ cancelled' = [cancelled EXCEPT ![c] = TRUE]
    /\ UNCHANGED <<shared, pc, res, exist, groupVars, workerVars>>

\* The process is killed and restarted: only the table survives.
Crash ==
    /\ updating' = FALSE
    /\ pc' = [c \in Calls |-> "idle"]
    /\ res' = [c \in Calls |-> "none"]
    /\ cancelled' = [c \in Calls |-> FALSE]
    /\ gdone' = [c \in Calls |-> TRUE]
    /\ gerr' = [c \in Calls |-> FALSE]
    /\ feeding' = [c \in Calls |-> FALSE]
    /\ exist' = [c \in Calls |-> {}]
    /\ goal' = [c \in Calls |-> {}]
    /\ todo' = [c \in Calls |-> {}]
    /\ skipped' = [c \in Calls |-> {}]
    /\ late' = [c \in Calls |-> 0]
    /\ at' = [c \in Calls |-> [w \in Workers |-> "off"]]
    /\ job' = [c \in Calls |-> [w \in Workers |-> NoJob]]
    /\ try' = [c \in Calls |-> [w \in Workers |-> 0]]
    /\ UNCHANGED <<comics, lastEvent, dirty>>

-----------------------------------------------------------------------------
\* The steps of a call that has started.
Call(c) ==
    \/ Refused(c) \/ ReadIDs(c) \/ ReadFails(c) \/ ReadLastID(c)
    \/ WaitOk(c) \/ WaitFails(c) \/ SendUpdate(c)
    \/ TruncateOk(c) \/ TruncateFails(c) \/ SendDrop(c) \/ Return(c)

Worker(c, w) ==
    \/ Feed(c, w) \/ WorkerExits(c, w)
    \/ Fetched(c, w) \/ FetchFails(c, w) \/ FetchNotFound(c, w) \/ FetchExhausted(c, w)
    \/ BackoffElapsed(c, w) \/ BackoffCancelled(c, w)
    \/ Normed(c, w) \/ NormFails(c, w) \/ Stored(c, w) \/ StoreFails(c, w)

Next ==
    \/ \E c \in Calls :
        \/ BeginUpdate(c) \/ BeginDrop(c) \/ Refuse(c) \/ Cancel(c)
        \/ Call(c)
        \/ FeederEnds(c)
        \/ \E w \in Workers : Worker(c, w)
    \/ Crash

Spec == Init /\ [][Next]_vars

\* The Go scheduler runs every goroutine that can run, and every call of the
\* database, xkcd, words or the broker returns: each has a result that is
\* always possible.  Nothing makes a client call, cancel or the process crash.
Fairness ==
    \A c \in Calls :
        /\ WF_vars(Call(c))
        /\ WF_vars(FeederEnds(c))
        /\ \A w \in Workers : WF_vars(Worker(c, w))

FairSpec == Spec /\ Fairness
-----------------------------------------------------------------------------
(* Properties.                                                              *)

\* The calls between their CompareAndSwap and their deferred Store(false).
Inside == {c \in Calls : pc[c] \notin {"idle", "busy"}}

\* The flag is a lock: it is set exactly while some call is inside, and no two
\* calls are, whatever mixture of Update and Drop arrives (service.go:46-49,
\* 237-240).  It is also what the Status handler reports as "running".
OneOperation ==
    /\ updating <=> Inside # {}
    /\ \A c, d \in Inside : c = d

\* When Drop hands over its event the table is empty: no worker of an earlier
\* update, even one that failed or was cancelled, stores a row in between
\* (service.go:98-100 joins the workers before the flag is released).  And who
\* knows only the last event can trust it: if nothing changed since a drop event,
\* the table is empty.
DropsTrue ==
    /\ \A c \in Calls : pc[c] = "SendDrop" => comics = {}
    /\ (lastEvent = "drop" /\ ~dirty) => comics = {}

\* A call that reports success leaves nothing unannounced, not even the rows
\* that an earlier failed, cancelled or killed operation left behind
\* (service.go:102 and 247 come after every change to the table).
SuccessIsAnnounced ==
    \A c \in Calls : (pc[c] = "Return" /\ res[c] = "ok") => ~dirty

\* An update whose context stayed alive accounts for every id it set out to
\* fetch: the id has its row, or processOne gave up on it (service.go:69-100).
EveryIdAccounted ==
    \A c \in Calls :
        (pc[c] = "SendUpdate" /\ ~cancelled[c]) => goal[c] \subseteq comics \cup skipped[c]

\* An id that was given up on has no row, so the next update fetches it again:
\* only the 404 of a last attempt freezes an id (service.go:109-119).
SkippedStaysMissing == \A c \in Calls : skipped[c] \cap comics = {}

\* Once gCtx is done (a cancelled call, a failed worker) each worker makes at
\* most one more insertion, the one it was about to make: db.Add ignores the
\* context, but xkcd.Get and words.Norm before it do not (service.go:108, 123, 135).
LateRowsBounded == \A c \in Calls : late[c] <= Cardinality(Workers)

\* Rows change only while the flag is set, also when it is a worker goroutine
\* that changes them, and they never vanish one by one: an update keeps every
\* row it found, a drop removes all.
TableChangesUnderLock ==
    [][comics' # comics => /\ updating
                           /\ comics' = {} \/ comics \subseteq comics']_vars

\* An operation ends: every call returns although the database may fail, xkcd
\* may answer with errors for ever and a worker may leave the range early with
\* the feeder still blocked on the channel.
CallsReturn == \A c \in Calls : (pc[c] # "idle") ~> (pc[c] = "idle")

\* The feeder goroutine, which nobody joins, does not leak: its blocked send
\* is released by gCtx when the workers are gone (service.go:75-79).
FeederStops == \A c \in Calls : feeding[c] ~> ~feeding[c]

-----------------------------------------------------------------------------
(* The service implements Catalog.                                          *)

PhaseOf == [idle |-> "free", busy |-> "free", IDs |-> "filling", LastID |-> "filling",
            Wait |-> "filling", SendUpdate |-> "filled", Drop |-> "emptying",
            SendDrop |-> "emptied", Return |-> "closing"]

Phase == IF Inside = {} THEN "free" ELSE PhaseOf[pc[CHOOSE c \in Inside : TRUE]]

Abstract == INSTANCE Catalog WITH phase <- Phase

\* Seen from outside, the goroutines only ever do what Catalog allows.
ImplementsCatalog == Abstract!CatalogSpec
=============================================================================
