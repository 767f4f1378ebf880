# A verification development for xkcd-searcher

TLA+ models of the services in `src/search-services`, checked with TLC on small
instances, and TLAPS proofs of what matters most for instances of any size.
Paths below are relative to `src/search-services` unless they start with `src/`.

## 1. The system

| Component | State | Operations | Talks to |
|---|---|---|---|
| update core (`update/core/service.go`) | the atomic flag `updating`; per update: the set of existing ids, the channel `in`, the errgroup | `Update`, `Drop`, `Stats`, `Status` | PostgreSQL, xkcd, words, NATS |
| update adapters | connections | `Add` (INSERT ... ON CONFLICT DO NOTHING, without the context), `IDs`, `Drop` (TRUNCATE), `Stats`; `Get`, `LastID`; `SendEvent`; the gRPC error mapping | |
| isearch core (`isearch/core/service.go`) | an atomic pointer to the inverted index | `BuildIndex`, `DropIndex`, `SearchIndex` | PostgreSQL, words |
| isearch ticker (`adapters/initiator`) | a timer (`INDEX_TTL`) | a build at start and at each tick | isearch core |
| isearch subscriber (`adapters/broker`) | a NATS subscription | event `update`: `BuildIndex`; `drop`: `DropIndex` | isearch core |
| search (`search/core`) | none | `Search`: Jaccard score against every comic | PostgreSQL, words |
| words (`words/`) | none | `Norm`: size limit, deadline, stop words, stemming | |
| api (`api/adapters/rest`) | none | one HTTP handler per operation, `PingHandler` fans out | all services |
| api middleware | a semaphore, a token bucket | `Concurrency`, `Rate`, `Auth`, `Metric` | |
| authentication (`api/adapters/aaa`) | the user and the secret | `Login`, `Verify` | |
| processes (`*/main.go`) | main goroutine, goroutine of the stop, timer of words | start, serve, graceful and forced stop | the containers' restart policy |

**Interaction.** The gateway calls the services over gRPC. `update` and
`isearch` share the table `comics`: the first writes it, the second reads it.
After an operation that succeeded, `update` publishes one event on Core NATS,
which delivers at most once and only to whoever is subscribed at that moment.

**What is hard.** Update and Drop compete for one flag. An update is a feeder
goroutine, an unbuffered channel and `XKCD_CONCURRENCY` workers, of which only
the workers are joined; errors of a worker, a cancelled context and retries meet
in the same `select`s. In isearch two goroutines build the index with no lock
between reading the table and storing the pointer. A client that leaves a request
leaves its operation running. Any process may be killed between two steps; only
the table survives. `PROJECT.json` lists the hazards line by line.

**What makes each part correct.**
*update*: one operation at a time, no write outside it; no id lost between
feeder, channel and workers; an id is given up or stored, never both; success is
announced after every change; every call returns and no goroutine leaks.
*isearch*: at rest the index shows the table, or a known cause explains why not,
and the ticker repairs it. *search*: the reply holds the best comics, and the two
services agree on which they are. *words*: all words of a text or an error. *api*:
a status tells the truth, and who reads after a write finds what it left; no write
without a login; no slot or token is lost or handed out twice; a client that waits
gets an answer, from a ping one line per service. *processes*: a signal ends each of
them, and none leaves a call behind.

## 2. The modules

```
Catalog ............ what the update service promises (abstract)
  ^ refined by            ^ extended by           ^ extended by
UpdateService           IndexSync               Gateway
  ^                       isearch + NATS          requests about update
UpdateServiceProofs       ^                       over gRPC, login
  ^                     IndexSyncProofs           ^
UpdateIdsProofs                                 GatewayProofs

ServiceLife ........ the gRPC processes, from start to stop
  ^ extended by         Admission               Searching           Norming
Pinging                   api middlewares, stop   search, isearch,    words, limitWords,
  ^ the fan-out           ^                       their handlers      the way of its errors
PingingProofs           AdmissionProofs           ^                   ^
                                                SearchingProofs     NormingProofs
```

An arrow stands for EXTENDS, but for the refinement, which is INSTANCE. `MCx` extends
`x` for TLC: the symmetry of its runs. The models meet at interfaces and are checked
apart: Gateway and IndexSync share `Catalog`, which the proof of section 4 lets
stand for the update service; Searching takes from IndexSync that the index shows the
rows of some earlier moment; what `Norm` does inside is Norming's, and the others let
it return anything or fail; ServiceLife takes from UpdateService that a handler of
Update or Drop returns.

In every module, operators introduced as "Fault" are what a mistaken version of the
next definition would do; no specification uses them, they serve to check that each
property can fail. Variables marked "history" are read by no guard, but for
`latest` in IndexSync, which only other history variables read.

### UpdateService

One step is what a goroutine does between two points where another can see or
change shared state. `pc[c]` names the next statement of the goroutine serving
call `c`; `feeding[c]`, `todo[c]` are the feeder; `at[c][w]`, `job`, `try` are the
workers.

| Action | Code |
|---|---|
| `BeginUpdate`, `BeginDrop`, `Refuse`, `Refused` | the CompareAndSwap and `ErrAlreadyRunning` |
| `ReadIDs`, `ReadLastID`, `ReadFails` | `db.IDs`, `xkcd.LastID`, start of the goroutines |
| `Feed`, `FeederEnds` | the rendezvous on `in`; end of the loop or `gCtx.Done()`, then `close(in)` |
| `WorkerExits` | the range over the closed channel ends |
| `Fetched`, `FetchFails`, `FetchNotFound`, `FetchExhausted` | the outcomes of `xkcd.Get`, on the last attempt or before |
| `BackoffElapsed`, `BackoffCancelled` | the `select` between attempts |
| `Normed`, `NormFails` | `words.Norm` |
| `Stored`, `StoreFails` | `db.Add` of a comic or of the 404 placeholder; an error leaves open whether the row is there |
| `WaitOk`, `WaitFails` | `g.Wait()` |
| `SendUpdate`, `SendDrop`, `TruncateOk`, `TruncateFails`, `Return` | the events, the TRUNCATE, the deferred `Store(false)` |
| `Cancel`, `Crash` | the call's context ends; the process is killed and restarted |

`dirty`, `goal`, `skipped` and `late` are history variables.

Abstractions. A row is its id (words and URL are left out, so the placeholder and
the comic differ in how they come about and not in the table). `Fetched` stores
the number found in the body: the one asked for, or 0 when the body has none (the
client looks at no status but 404). A database statement takes effect between its
call and its return, never later. The table is the only thing on disk.

### Catalog and IndexSync

`Catalog` has the table, the phase of the operation that owns it, the last event
and whether the table changed since (`dirty`). `IndexSync` extends it: `SendEvent`
is Catalog's `Announce` together with the delivery or the loss of the message;
`ReadTable` and `StoreIndex` are the two halves of `BuildIndex`, executed by the
ticker or the subscriber; `Restart` is a restart of isearch, whose ticker starts
to build before it has subscribed. The index is the set of rows it was built
from. `missed`, `overtaken` and `latest` are history variables.

`MaxPending` is the limit of a NATS subscription (65536 by default in the client);
messages beyond it are dropped. `Reliable` switches off lost messages and failing
builds, to show what goes wrong without them.

### Gateway

A request to update, to drop, for stats or for the status, from the REST handler to
the update service and back. `at[r]` is where it stands: at the middleware `Auth`
(`auth`, writes only), in the gRPC stub before the CompareAndSwap or in its queries
(`call`), in its operation (`serve`), on its way back with a gRPC code (`return`), with
an HTTP status (`answer`). The service is `Catalog`, which knows an operation but not
who asked for it: `holder` is the request served by the call that owns the table,
`outcome` what that call is about to return, `strays` the calls that were given up
before the service began them and that may still begin.

| Definition | Code |
|---|---|
| `ServerCode`, `CoreError`, `HttpStatus` | the three conversions: gRPC server, gateway's client, handler |
| `ServerStatus`, `ClientStatus` | the flag, through the enumerations of the protocol and of the gateway |
| `LogIn`, `LoginAccepts`, `Tick` | `NewLoginHandler` and `AAA.Login`; the clock against the token |
| `Authorised`, `Unauthorised` | the middleware `Auth` with `Verify` |
| `Begin`, `Refuse`, `Unreachable` | the call reaches the flag, or does not |
| `ReadFlag`, `Count`, `CountFails` | `Status`; `Stats`, each of whose two queries sees the table of its moment |
| `Cancel`, `StrayBegins` | the client or the gateway goes; the stub returns, the call runs on or has yet to begin |
| `Work`, `Succeed`, `FailWork`, `Finish`, `Die` | the service, by Catalog's actions |

`alone`, `lastWrite` and `after` are history variables: the write that has met no
other so far, that write once it has been answered by 200, and what a read found in
`lastWrite` when it arrived.

Abstractions. A read may be refused, cancelled or cut off like a write. Of the
tokens only the newest counts (an older one ends sooner); one not signed by the
gateway is refused (the JWT library). The stats keep the tables their queries saw,
not the figures, and leave out the number of comics that xkcd reports. A slot serves
one request after the other; `Depart` clears it.

### ServiceLife and Pinging

The four gRPC processes. `main[s]` and `stopper[s]` are the main goroutine and the one
that waits for the signal; `handler[s][x]` a call under way, `cut` once a forced stop
has closed its connection. Only words is in `Timed`: it forces its stop after
`ShutdownPeriod`, takes `ErrServerStopped` for no error and waits for its stopper
(`AwaitServerDone`); the others return when `Serve` does. `Accepts`, `ServeReturns` and
`StopOver` follow what grpc-go does: the listener closes first, `GracefulStop` returns
when every handler has, `Serve` when either stop is over. A process that ends is
started again by the restart policy.

`Pinging` adds one ping at a time: `pinger[s]` is the goroutine of a service, `results`
the buffered channel, `Close` the goroutine that waits for the others, `Deadline` the
end of the shared context of five seconds, for whatever reason.

### Admission

A request for `/api/search` behind `Concurrency` or for `/api/isearch` behind
`Rate`, and the stop of the gateway. `sema` is the number of elements in the
channel, `tokens` what the limiter holds, below zero when it has promised tokens
to waiting requests.

| Definition | Code |
|---|---|
| `Acquire`, `Unavailable`, `Abandon` | the three cases of the `select` in `Concurrency`; the default case only when no other is ready |
| `Burst` | `rps - rps*25/100` in integers |
| `PassNow`, `Reserve`, `TooMany` | `limiter.Wait`: a token is there, comes in time, or does not |
| `Pass`, `TimesOut`, `GiveUp` | the wait ends with the token, the timeout or the context |
| `Refund` | `Reservation.Cancel` of x/time/rate (external, as the version in go.mod does it) |
| `Serve` | the handler and the deferred receive; 500 stands for every status but 200 |
| `Stop`, `Shutdown`, `Exit`, `Restart` | SIGINT, the goroutine with `server.Shutdown`, the return of `ListenAndServe` and of `main` |
| `Kill` | SIGTERM, which `signal.NotifyContext` is not asked for, SIGKILL or a crash: at any point, without `Shutdown` |

Abstractions. A tick is 1/rps of a second, the time of one token; requests come on
ticks and timers are in time, but when a token and the timeout are due at once the
`select` may take either. `level` is a history variable that rises by one with
each index search that starts and falls by one with each tick, not below 0: it is
the most by which the starts in a span that ends now exceed its ticks. `RateBounded`
bounds it by `SearchRate` and not by `Burst`, so that the formula of the burst is
checked too. Requests in flight when the process ends are `cut` by a stop and `killed`
by anything else; `NoRequestCut` is about the first.

### Searching

One request to either search service, from its handler to its answer, while rows are
inserted and truncated and the index is built and dropped. `text`, chosen at the
start, are the words of each comic; `comics`, `index` the table and the inverted
index. `AskSearch`, `AskIndex`, `AskNothing` are the two handlers, with their default
limit and their 400s. `Search` is one step (one query, then a computation on its
rows). `SearchIndex` is two: `LoadIndex` loads the pointer and ranks, `FetchRows` asks
the table for the rows. `BuildIndex` is one step here: a request sees an index or the
next one, and how an index comes to be old is IndexSync's business; `Insert` and
`Truncate` right after it give every old index there is.

Two sources of chance are kept: `sort.Slice` orders equals as it likes, and a
SELECT without ORDER BY gives rows in any order. Scores are fractions, compared by
their products; the source's floats of integers below 2^26 compare the same. An
id's words do not change (rows are never updated).

### Norming

A text from the caller to its words, and an error from there to an HTTP status.
`Prepare` is `limitWords` for an update and nothing for the words handler and the
searches; `RefuseEmpty` is the look at an empty phrase, `Accept` and `RefuseBig` the
check of the length in bytes; `TakeWord` is one round of the loop in
`NormalizePhrase`, `GiveUp` its look at the context every `Period` words.
`ClientError`, `SearchCode`, `SearchError`, `WordsStatus` and `SearchStatus` are the
conversions an error passes on its way back. Characters matter, so texts are
sequences: `l` and `s` are letters, `w` one of two bytes, then a space and a mark. The
stop words and the stemmer are a library; what stands for them (`<<"s">>` is a stop
word, a plural loses its `s`) has what the loop has to cope with: a word left out, and
two words with one stem.

## 3. The runs

| Run | Instance | What it shows |
|---|---|---|
| `update_safety` | 2 calls, 2 workers, ids 0 to 3, 3 attempts; 380 thousand states | the flag is a lock over every goroutine (`OneOperation`, `TableChangesUnderLock`), events are truthful (`DropsTrue`, `SuccessIsAnnounced`), no id is lost or both given up and stored (`EveryIdAccounted`, `SkippedStaysMissing`), at most one late row per worker (`LateRowsBounded`), and `ImplementsCatalog` |
| `update_live` | 1 call, 2 workers, 3 ids, 2 attempts | `CallsReturn`, `FeederStops` under fairness of the goroutines |
| `index_safety` | 1 comic, 3 events waiting, 1 restart, lossy | `FreshUnlessExcused`: an index at rest shows the table, unless an operation failed without an event, an event or its build was lost, or an old snapshot was stored last; `EventuallyFresh`: the ticker repairs it; `EventsDrain` |
| `index_stale` (violation) | 1 comic, nothing lost | finding: the ticker's build stores an old snapshot over the one the event asked for |
| `gateway_safety` | 2 requests, 1 comic, tokens of 1 tick; 1.4 million states | `StatusTruthful`, `ReadsAfterWrite`, `OnlyLoggedIn` |
| `gateway_busy_drop` (violation) | the same | finding: a drop refused as busy is a 500, not the 409 the handler has a case for |
| `search_safety` | 3 comics, 2 words, limits 0 to 2; 2.7 million states | `SearchReplyBest`, `IndexReplyBest`, `SearchesAgree` |
| `search_order` (violation) | 2 comics, 2 words | finding: the order of `sortByFrequency` does not survive `FetchRows` |
| `admission_safety` | 3 requests, 2 slots, 4 a second (a burst of 3), timeout 3 ticks; 373 thousand states | `SlotsCounted`, `RateBounded`, `PromisesDistinct`, `OkMeansHandled` |
| `admission_cut` (violation) | 2 requests | finding: the process ends while requests are in flight |
| `norm_safety` | texts of up to 6 of 5 characters, limits 4 and 5, a look every 2 words; 731 thousand states | `AllOrNothing`, `NoHalfWord`, `RefusedForBytes`, `LateWordsBounded`, `BlameIsRight` |
| `ping` | words (with the timer) and update, 1 call each; 128 thousand states | `QuietExit`, `EveryServiceReported`, `OkMeansUp`, `StopEnds`, `PingAnswered` |

Every passing run also checks the type invariant of its module, but for
`update_live`. Deadlock is checked everywhere but in `norm_safety`, whose one call ends.

**Why the bounds are enough.** Two calls contend for the flag, a third adds
nothing but another refusal. Two workers contend for the channel, and one may
fail while the other works. Three ids are one more than the workers, so that an
id is still with the feeder when both are busy, and `LateRowsBounded` says more
than that there are only so many ids. Three attempts are the source's number; a
middle attempt is neither first nor last. In `update_live` one call suffices: no
goroutine waits for another call, a refused call included. One id lets an index be
empty or full, hence fresh or stale; three pending messages let an update and a drop
wait in either order behind a third, and a fourth be dropped; section 4 proves the
safety for any number of either. In Gateway two requests suffice for a write that
another meets, a read behind a write, and, as an abandoned call lives on in `strays`
or in the service, for two requests that compete for it; a token of one tick is alive
or over; the proofs hold for any. In Searching three comics can have three scores or share
one, and a limit of 2 cuts between them or in the middle of equals; two words give a
query and a comic with none, one or both in common. In Admission the third request is
refused by a full semaphore, and queues behind two promises in the bucket, one of
which may be given up; a timeout of three ticks lets three promises be open, and four a
second is the least rate whose burst is not the rate itself. In Norming
the limits keep their order (characters, then bytes, then the longest text), so that
texts are cut, refused, or neither; two looks at the context fit in. In Pinging one
service has a timer and one has none, their results come in either order, and a stop
waits for one call as for several.

Calls, requests, workers, words and ids without arithmetic are interchangeable,
hence the symmetry sets of the safety runs. The only temporal properties checked
with them are `TableChangesUnderLock`, `ImplementsCatalog`, `OkMeansHandled` and
`OnlyLoggedIn`: an initial condition at most, and a condition on single steps,
symmetric themselves. The runs with liveness properties use no symmetry.

The limits of depth of a run are those of its constants alone: no run has a state
constraint. `norm_safety` has no deadlock check, as a call that has been answered is
over; everywhere else something can always happen.

**Fairness.** Weak fairness of each goroutine: the Go scheduler runs what can
run, and every external call returns, some result (an error, at least) being
possible in each state. This leaves out a database that hangs: `Add` passes no
context, so an INSERT that never returns blocks the update. In IndexSync, strong
fairness of the ticker's `ReadTable` and of `NextMsg`: the database and NATS do
not fail each time for ever. In ServiceLife the timer of words goes off, and handlers
return: those of update because its calls do (`CallsReturn`), those of a search after
a few queries; of words it is only asked that a handler whose connection is closed
returns, so that its stop rests on the timer. In Pinging five seconds pass and the
gateway's goroutines run; that a service answers, starts or is ever reachable is not
asked. Nothing forces an operation, a cancellation, a signal, a restart or a crash.

**The four violations.**
`index_stale`: the ticker reads the table, an update runs and its event is
handled, then the ticker stores what it read; the index stays old until the next
tick, 24 hours in `src/compose.yaml`. `src/README.md:57` accepts lost messages
but promises an immediate rebuild for those that arrive.

`gateway_busy_drop`: the gRPC server of Drop passes `ErrAlreadyRunning` on as it
is, unlike that of Update; it arrives as `Unknown`, becomes `ErrInternal` and then
500. `api/adapters/rest/api.go:239` has a 409 for it, which
`api/adapters/rest/api_test.go:368` tests with a mock in the client's place.

`search_order`: `sortByFrequency` ranks the ids, and `SearchIndex` then replies in
the order in which `SELECT ... WHERE id IN (...)` gives the rows. The test of the
ranking (`isearch/core/service_test.go:15`) looks at the ids only.

`admission_cut`: `ListenAndServe` returns as soon as `Shutdown` has closed the
listener, not when `Shutdown` returns; `run` and `main` return, and requests in flight
are cut off. `src/README.md:47` promises a graceful shutdown.

What the models show besides, without a run of its own. `Update` returns nil and
publishes its event although ids were skipped, or, with a cancelled context, when
nothing was fetched (the workers skip, the feeder stops, `g.Wait()` returns nil), while
`src/tests/update_test.go:66` expects all comics after a success. What holds is
`EveryIdAccounted` and `SkippedStaysMissing`: no id is missing for another reason, and
the next update tries those again. An update refused because of a drop is answered
"update request has already been sent" and 202, although no update follows;
`StatusTruthful` says only that nothing happened. `FreshUnlessExcused` does not
judge a lost event, a failed build, an overtaken one or a killed update: it says that
nothing else makes an index at rest stale, and `EventuallyFresh` that the ticker repairs
them all. `OkMeansHandled` needs its exception for a stopping gateway: `BaseContext`
hands the context of the signal to every request, so the middlewares take a client that
is still there for one that has gone, return without a word, and net/http sends an
empty 200. A search for a phrase that is too long ends as 500, where the handler of
words says 400: the search services turn `ErrResourceExhausted` into `Unknown`, so
`BlameIsRight` asks this of the words handler alone. A signal that comes before
`Serve` makes update, search and isearch exit with an error (`ErrServerStopped`).
`ReadsAfterWrite` holds only for a write that met no other: after a cancelled request
its call may begin later than the next write ends.

The run `index_safety` also taught why `missed` is not cleared while a drop event waits:
`DropIndex` empties whatever index there is, also one a tick has built after the
drop and after a later update whose event was lost.

## 4. The proofs

Every theorem holds for any values of the constants that satisfy the named
assumptions; none rests on anything else.

`UpdateServiceProofs` and `UpdateIdsProofs` hold for every
`Calls`, every finite non-empty `Workers`, every `MaxId` and every positive
`MaxAttempts` (`WorkersAssumption`: `NewService` refuses a concurrency below one;
`BoundsAssumption`: the constants are numbers).

* `TypeCorrect`. `TypeOK` is not inductive: that `skipped` holds ids and that
  `try` stays in range depends on where a worker stands. `JobsTyped` says so.
* `LockCorrect`. `OneOperation` is not inductive with goroutines about: the
  strengthening `LockInv` adds `WorkersAwaited`, only a call at `g.Wait()` has
  workers running.
* `EventsCorrect`, `DropsCorrect`. `EventInv` on top of `LockInv`: a worker that
  stores a row has its call at `g.Wait()`, so no other call is at its event or return.
  `CallEffects` and `WorkerEffects` reduce the many actions to the few that touch
  the table or the events.
* `TableCorrect`. The action property, from `LockInv` and the same two lemmas.
* `Implementation`. `Spec => ImplementsCatalog`: `PhaseFollows` turns the phase,
  defined with a CHOOSE, into that of the one call inside; then one step per
  action.
* `SkippedCorrect`. `MissingInv`: what the feeder has, what each worker has and what
  was given up are apart from each other and from the table (`Apart`). A worker only
  keeps, takes, skips or stores an id (`WorkerMovesIds`), which leaves four cases.
* `AccountCorrect`. `AccountInv`: in an update that nothing ended early every id is
  somewhere, and the feeder that ends, or the worker that is done, has none left;
  so at `g.Wait()` only the table and `skipped` remain.
* `LateRowsCorrect`. `LateInv`: the rows stored late and the workers at `db.Add`
  together do not exceed the workers, as nobody comes to `db.Add` once `gCtx` is done.
* `CallsNeverStuck`, `CallsNearer`. The two halves of `CallsReturn` and `FeederStops`
  that need no fairness. `CanStep` lists, guard by guard, what the next step of each
  goroutine of a call waits for; `NeverStuck` says that one of them has it. It needs
  `GroupInv`: outside of `g.Wait()` `gCtx` is done, which lets a feeder left behind
  end, and inside no worker has yet to be started. `StepsLeft` counts what a call can
  still do: its own statements, its feeder's end, a full turn of retries
  (`Turn`) for every id with the feeder, and what is left of each worker's turn.
  `AlwaysNearer`: that is a natural number, every step of the call's goroutines lowers
  it, and no other step raises it.

`IndexSyncProofs` holds for any rows, any size of the subscription, any number of
restarts, reliable or not (`BoundsAssumption`, `ReliableAssumption`).

* `TypeCorrect`, `IndexCorrect`. `FreshUnlessExcused` speaks of a system at rest;
  `FreshInv` says what leads there. If the last event to be handled is a drop event,
  the table is empty; if no event waits, the build that read last has seen the table
  as it is; and if no such build is under way, its result is the index.
* `MessagesHeard`, `PausesHeal`. What `EventsDrain` and `EventuallyFresh` rest on
  besides fairness: a message waits only where the subscriber's loop can take it; and
  while no operation runs and isearch is not restarted the `Debt` (messages, a drop to
  carry out, builds that have read an earlier table) never grows, is paid by each
  message and each outdated build, and once paid every build leaves the index equal to
  the table for good. Restarts are apart: each begins the argument again.
* `IndexOnlyWatches`. `Spec => CatalogSpec`, the specification that UpdateService
  implements, so the service that the index follows is no other than that one.

`GatewayProofs` holds for any requests, rows and life of a token
(`NobodyAssumption`, `TTLAssumption`).

* `TypeCorrect`. With `AloneWrites`: what is recorded as the last write was one.
* `AnswersCorrect`. `HolderInv` ties the operation in the service to the one request
  that waits for it, `AnswerInv` what came of it to its code and its status.
* `ReadsCorrect`. A chain of three more: a write that meets no other leaves the
  service idle when it returns (`AloneInv`); until another write arrives nothing is
  under way that could change that (`SettledInv`); so what a read collects meanwhile
  is all from one table (`ReadInv`).
* `LoginRequired`. The action property, from `TokenInv`: the life left and the time
  since the login add up to `TTL`.
* `RequestsRespectCatalog`. `Spec => CatalogSpec`, as for IndexSync: a request can only
  begin an operation that is free to begin (`RequestAsksCatalog`).

`PingingProofs` holds for any services, any of them with a timer, and any calls
(`TimedAssumption`).

* `TypeCorrect`, `ExitsQuietly`. `QuietInv`: a process returns only when its stop is
  over or before it served, and neither has handlers.
* `AllReported`, `OkIsTruthful`. `ReportInv`: a result is in the channel or collected
  exactly from when its goroutine is done, once, and wherever an "ok" stands its
  service has been up; between two pings nothing is left over.
* `StopsNeverStuck`, `StopsForward`. The two halves of `StopEnds`. `SignalInv`: a
  process is signalled only while its stopper is there, and once the timer has gone off
  no handler is left that was not cut; so the stop of words waits for no handler by
  itself. `StopForward`: no call is accepted, no rank rises.
* `PingsNeverStuck`, `PingsForward`. The two halves of `PingAnswered`. `Stage` says how
  far each service is from being collected; it never rises, and the step of a goroutine
  or of the handler with a result lowers one. The last needs `ReportInv`: a result
  that is taken was the only one of its service.

`AdmissionProofs` holds for any finite set of requests
(`RequestsAssumption`), any number of slots, any timeout and any rate of at least one
(`LimitsAssumption`; a rate of zero admits nobody).

* `BurstBounds`. The bucket holds between 1 and `SearchRate` tokens: the integer
  division never takes them all. The lemma `BurstRounded` says how many those are: three
  quarters of the rate, rounded up. The proofs below rest on the two.
* `TypeCorrect`, `SlotsCorrect`. One invariant: `sema` is the number of `Holders`. A
  step leaves both alone (`SlotKept`) or changes both by one request (`SlotTaken`,
  `SlotGiven`); that `sema` does not fall below 0 or rise over the capacity follows.
* `AnswersCorrect`. The action property: of the steps that answer, those with a 200
  are the handler's or need a context that has ended.
* `PromisesCorrect`, `RateCorrect`. `RateBounded`, that is `level <= Burst`, alone is
  not inductive: `level` may be at its bound while tokens are left or promised. `RateInv` adds what may start
  before the next tick: as many requests as there are tokens, and, as promises are
  distinct, at most one of those that wait.

`SearchingProofs` holds for any finite set of comics (`IdsAssumption`), any finite
vocabulary (`VocabularyAssumption`) and any bound on the limit (`LimitAssumption`).

* `ScoreIsJaccard`, `ScoreOrders`: `getScore` never counts the union of the two sets of
  words, yet its quotients are in the order of Jaccard's coefficients.
* `RankedBest`, `FrequencyBest`: what is left of a sorted list when it is cut at the
  limit. The second needs no induction over the list: the comics ahead of the one at
  place `j` are those at the places before it, so there are `j - 1` of them.
* `TypeCorrect`, `SearchCorrect`, `IndexCorrect`, `AgreeCorrect`. `IndexInv`: the index
  is that of some comics at every moment, which makes the lemma apply; `FoundInv`: what
  a request has found, from its ranking to its answer; a table that changes while a
  request waits for its rows leaves both alone (`FoundStays`).

`NormingProofs` holds for any bounds and any period (`LimitsAssumption`).

* `LateWordsCorrect`. `LateInv`: none of the words begun late is one before which the
  loop looks at the context, so there are fewer than `Period`.
* `RefusedCorrect`. A cut description is no longer than the limit of update and has no
  more letters of two bytes than the text (`SizeInv`).
* `BlameCorrect`. `CodeInv` ties the code words ended with to the phrase, and
  `BlameInv` the status to the code, through each conversion on the way.
* `AllOrNothingCorrect`, `WholeWords`, `TypeCorrect`. `WordsInv`: what the loop has
  found is what `Normalised` makes of the words it has taken so far, and at the end of
  the words of the whole phrase. No induction over the words is needed, as the run of
  the loop is the induction: `OneMoreWord` says what one word adds. `Normalised` puts
  the stems in the order in which they first occur; that there is one such order
  (`OneOrder`), and what happens to it when a stem is added (`InOrderAppend`), are
  lemmas. `FieldsOfBeginning` carries `NoHalfWord` from a text to its beginning: a cut
  between two words splits none.

**Only model-checked.** The six liveness properties (`CallsReturn`, `FeederStops`,
`EventuallyFresh`, `EventsDrain`, `StopEnds`, `PingAnswered`). Fairness speaks of
ENABLED, which is out of the prover's reach. What is proved of each is the part without
fairness: that a next step is there, stated with the guards of the actions, and that the
steps lead to the end; that the guards are those of the actions, and the step from
there to "eventually", are for TLC on the small instances. Every other property of a
passing run is a theorem.

## 5. Not modelled

* Late effects in PostgreSQL: a statement carried out after the client that sent it
  has given up. It depends on the driver and the server, which are not in this
  repository; the models let a statement take effect until its call returns.
* A search limit near 2^63, for which `make` panics: limits are small in the model.
* The goroutines of isearch at a stop: `run` does not wait for the ticker and the
  subscriber, which end with the process. `Restart` may come at any step of theirs.
* The number of comics that xkcd reports in the stats: 0 when it cannot be asked, never
  an error, and no property depends on it.
* `Metric` and `NewMetricsHandler` count and print; nothing reads the counters.
* Generated protocol buffers, mocks, configuration structures, dashboards, charts and
  compose files have no logic of their own. Migrations run once before serving; that
  they succeed or end the process is ServiceLife's `Boot` and `BootFails`.
* The stemmer, the stop words, the JWT library, NATS, grpc-go and x/time/rate are
  modelled from how the code uses them, as far as the modules above say.

What could still be added: several pings or gateways at once (nothing but the
services is shared between them), and the composition of IndexSync with Searching in
one module, which today meet in the statement that the index shows the rows of an
earlier moment.
