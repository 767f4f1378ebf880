------------------------------ MODULE Admission ------------------------------
(***************************************************************************)
(* How the gateway admits search requests and how it stops: the semaphore  *)
(* of middleware.Concurrency before /api/search, the token bucket of       *)
(* middleware.Rate before /api/isearch, the context that a departing       *)
(* client or the signal to stop ends under both, and the end of run.       *)
(*                                                                         *)
(* Time goes in ticks of 1/rps second, in which the bucket gains a token;  *)
(* requests come on a tick.                                                *)
(***************************************************************************)
EXTENDS Integers, FiniteSets

CONSTANTS
    Requests,       \* HTTP requests under way at a time
    SearchConcurrency, \* at most this many searches at a time
    SearchRate,     \* at most this many index searches a second
    TimeoutQueue    \* RateTimeoutQueue, in ticks

ASSUME RequestsAssumption == IsFiniteSet(Requests)
ASSUME LimitsAssumption ==
    /\ SearchConcurrency \in Nat
    /\ SearchRate \in Nat \ {0}
    /\ TimeoutQueue \in Nat

VARIABLES
    at,             \* where each request stands
    route,          \* the handler it is for
    gone,           \* its client has gone
    status,         \* HTTP status written, 0 before
    handled,        \* history: the handler itself wrote that status
    sema,           \* elements in the channel of Concurrency
    tokens,         \* of the limiter; negative when tokens are promised
    delay,          \* ticks before a waiting request's token is there
    left,           \* ticks before its timeoutQueue is over
    stopped,        \* the context of run is cancelled
    process,        \* of the gateway
    level           \* history: handlers started beyond one per tick

requestVars == <<at, route, gone, status, handled>>
waitVars == <<delay, left>>
processVars == <<stopped, process>>
vars == <<requestVars, sema, tokens, waitVars, processVars, level>>

\* The handlers behind the two middlewares.
Routes == {"search", "isearch"}

\* Fault: the quarter is forgotten.
BurstWhole == SearchRate

Burst == SearchRate - ((SearchRate * 25) \div 100)

TypeOK ==
    /\ at \in [Requests -> {"idle", "enter", "wait", "serve", "answer", "cut", "killed"}]
    /\ route \in [Requests -> Routes]
    /\ gone \in [Requests -> BOOLEAN] /\ handled \in [Requests -> BOOLEAN]
    /\ status \in [Requests -> {0, 200, 429, 500, 503}]
    /\ sema \in 0..SearchConcurrency
    /\ tokens \in -TimeoutQueue..Burst
    /\ delay \in [Requests -> 0..TimeoutQueue] /\ left \in [Requests -> 0..TimeoutQueue]
    /\ stopped \in BOOLEAN
    /\ process \in {"up", "closing", "exited"}
    /\ level \in Nat

Init ==
    /\ at = [r \in Requests |-> "idle"]
    /\ route = [r \in Requests |-> "search"]
    /\ gone = [r \in Requests |-> FALSE] /\ handled = [r \in Requests |-> FALSE]
    /\ status = [r \in Requests |-> 0]
    /\ sema = 0 /\ tokens = Burst
    /\ delay = [r \in Requests |-> 0] /\ left = [r \in Requests |-> 0]
    /\ stopped = FALSE
    /\ process = "up"
    /\ level = 0

InFlight(r) == at[r] \in {"enter", "wait", "serve"}

\* r.Context() has ended; BaseContext derives it from the context of run.
ContextDone(r) == gone[r] \/ stopped

Goto(r, s) == at' = [at EXCEPT ![r] = s]

\* The middleware answers without the handler.
Reply(r, code) ==
    /\ Goto(r, "answer")
    /\ status' = [status EXCEPT ![r] = code]
    /\ UNCHANGED <<route, gone, handled>>

\* The timer and the timeout of a wait that is over.
WaitOver(r) ==
    /\ delay' = [delay EXCEPT ![r] = 0]
    /\ left' = [left EXCEPT ![r] = 0]

\* next(w, r): the handler begins.
Enter(r) ==
    /\ Goto(r, "serve")
    /\ UNCHANGED <<route, gone, status, handled>>

-----------------------------------------------------------------------------
(* Concurrency: a select of three cases.                                    *)

\* Fault: a counter in place of the channel, which is never full.
AcquireBlindly(r) ==
    /\ at[r] = "enter" /\ route[r] = "search"
    /\ Enter(r)
    /\ sema' = sema + 1
    /\ UNCHANGED <<tokens, waitVars, processVars, level>>

Acquire(r) ==
    /\ at[r] = "enter" /\ route[r] = "search"
    /\ sema < SearchConcurrency
    /\ Enter(r)
    /\ sema' = sema + 1
    /\ UNCHANGED <<tokens, waitVars, processVars, level>>

\* The default case is taken only when no other can be.
Unavailable(r) ==
    /\ at[r] = "enter" /\ route[r] = "search"
    /\ sema = SearchConcurrency /\ ~ContextDone(r)
    /\ Reply(r, 503)
    /\ UNCHANGED <<sema, tokens, waitVars, processVars, level>>

\* return without a word, for which net/http sends 200.
Abandon(r) ==
    /\ at[r] = "enter" /\ route[r] = "search"
    /\ ContextDone(r)
    /\ Reply(r, 200)
    /\ UNCHANGED <<sema, tokens, waitVars, processVars, level>>

-----------------------------------------------------------------------------
(* Rate: limiter.Wait with timeoutQueue.                                    *)

\* Fault: a request that has to wait is not charged for.
ReserveFree(r) ==
    /\ at[r] = "enter" /\ route[r] = "isearch" /\ ~ContextDone(r)
    /\ tokens < 1 /\ 1 - tokens <= TimeoutQueue
    /\ Goto(r, "wait")
    /\ delay' = [delay EXCEPT ![r] = 1 - tokens]
    /\ left' = [left EXCEPT ![r] = TimeoutQueue]
    /\ UNCHANGED <<route, gone, status, handled, sema, tokens, processVars, level>>

\* There is a token now.
PassNow(r) ==
    /\ at[r] = "enter" /\ route[r] = "isearch" /\ ~ContextDone(r)
    /\ tokens >= 1
    /\ Enter(r)
    /\ tokens' = tokens - 1
    /\ level' = level + 1
    /\ UNCHANGED <<sema, waitVars, processVars>>

\* There will be one before the time is over: it is promised to the request.
Reserve(r) ==
    /\ at[r] = "enter" /\ route[r] = "isearch" /\ ~ContextDone(r)
    /\ tokens < 1 /\ 1 - tokens <= TimeoutQueue
    /\ Goto(r, "wait")
    /\ delay' = [delay EXCEPT ![r] = 1 - tokens]
    /\ left' = [left EXCEPT ![r] = TimeoutQueue]
    /\ tokens' = tokens - 1
    /\ UNCHANGED <<route, gone, status, handled, sema, processVars, level>>

TooMany(r) ==
    /\ at[r] = "enter" /\ route[r] = "isearch" /\ ~ContextDone(r)
    /\ 1 - tokens > TimeoutQueue /\ tokens < 1
    /\ Reply(r, 429)
    /\ UNCHANGED <<sema, tokens, waitVars, processVars, level>>

Pass(r) ==
    /\ at[r] = "wait" /\ delay[r] = 0
    /\ Enter(r) /\ WaitOver(r)
    /\ level' = level + 1
    /\ UNCHANGED <<sema, tokens, processVars>>

\* Fault: a timeout is taken for a departed client.
TimesOutSilently(r) ==
    /\ at[r] = "wait" /\ left[r] = 0
    /\ Reply(r, 200) /\ WaitOver(r)
    /\ UNCHANGED <<sema, tokens, processVars, level>>

\* The timer and the timeout are due at once, and select may take the timeout:
\* the token is lost.
TimesOut(r) ==
    /\ at[r] = "wait" /\ left[r] = 0
    /\ Reply(r, 429) /\ WaitOver(r)
    /\ UNCHANGED <<sema, tokens, processVars, level>>

\* Fault: every reservation given up is paid back, whatever was promised after it.
RefundAll(r) == at[r] = "wait"

\* Reservation.Cancel gives a token back unless it is there already or a later
\* one has been promised.
Refund(r) == at[r] = "wait" /\ delay[r] > 0 /\ delay[r] = -tokens

\* The context ended before or during the wait.
GiveUp(r) ==
    /\ at[r] \in {"enter", "wait"} /\ route[r] = "isearch"
    /\ ContextDone(r)
    /\ Reply(r, 200) /\ WaitOver(r)
    /\ tokens' = IF Refund(r) THEN tokens + 1 ELSE tokens
    /\ UNCHANGED <<sema, processVars, level>>

-----------------------------------------------------------------------------
(* The rest of a request.                                                   *)

\* Fault: the slot is given back only when all went well.
ReleaseOnSuccess(r) ==
    /\ at[r] = "serve"
    /\ Goto(r, "answer")
    /\ \E code \in {200, 500} :
        /\ status' = [status EXCEPT ![r] = code]
        /\ sema' = IF route[r] = "search" /\ code = 200 THEN sema - 1 ELSE sema
    /\ handled' = [handled EXCEPT ![r] = TRUE]
    /\ UNCHANGED <<route, gone, tokens, waitVars, processVars, level>>

\* The handler has written its answer (500 stands for any that is not 200), and
\* the deferred function runs.
Serve(r) ==
    /\ at[r] = "serve"
    /\ Goto(r, "answer")
    /\ \E code \in {200, 500} : status' = [status EXCEPT ![r] = code]
    /\ handled' = [handled EXCEPT ![r] = TRUE]
    /\ sema' = IF route[r] = "search" THEN sema - 1 ELSE sema
    /\ UNCHANGED <<route, gone, tokens, waitVars, processVars, level>>

Arrive(r) ==
    /\ at[r] = "idle" /\ process = "up"
    /\ Goto(r, "enter")
    /\ \E h \in Routes : route' = [route EXCEPT ![r] = h]
    /\ UNCHANGED <<gone, status, handled, sema, tokens, waitVars, processVars, level>>

ClientGone(r) ==
    /\ InFlight(r) /\ ~gone[r]
    /\ gone' = [gone EXCEPT ![r] = TRUE]
    /\ UNCHANGED <<at, route, status, handled, sema, tokens, waitVars, processVars, level>>

\* The answer is sent, or the connection is broken; the slot is free again.
Depart(r) ==
    /\ at[r] \in {"answer", "cut", "killed"}
    /\ Goto(r, "idle")
    /\ route' = [route EXCEPT ![r] = "search"]
    /\ gone' = [gone EXCEPT ![r] = FALSE] /\ handled' = [handled EXCEPT ![r] = FALSE]
    /\ status' = [status EXCEPT ![r] = 0]
    /\ UNCHANGED <<sema, tokens, waitVars, processVars, level>>

-----------------------------------------------------------------------------
(* Time and the process.                                                    *)

\* Timers are in time: nobody is left waiting whose token or timeout is due.
Tick ==
    /\ \A r \in Requests : at[r] = "wait" => delay[r] > 0 /\ left[r] > 0
    /\ tokens' = IF tokens < Burst THEN tokens + 1 ELSE tokens
    /\ LET Less(f) == [r \in Requests |-> IF at[r] = "wait" THEN f[r] - 1 ELSE f[r]]
       IN  delay' = Less(delay) /\ left' = Less(left)
    /\ level' = IF level > 0 THEN level - 1 ELSE level
    /\ UNCHANGED <<requestVars, sema, processVars>>

\* SIGINT.
Stop ==
    /\ process = "up" /\ ~stopped
    /\ stopped' = TRUE
    /\ UNCHANGED <<requestVars, sema, tokens, waitVars, process, level>>

\* server.Shutdown closes the listener and waits for the requests in flight.
Shutdown ==
    /\ stopped /\ process = "up"
    /\ process' = "closing"
    /\ UNCHANGED <<requestVars, sema, tokens, waitVars, stopped, level>>

\* The process is gone, and with it the requests in flight, the channel and the
\* limiter: those of the next one are as NewLimiter and make leave them.
End(fate) ==
    /\ process' = "exited"
    /\ at' = [r \in Requests |-> IF InFlight(r) THEN fate ELSE at[r]]
    /\ sema' = 0 /\ tokens' = Burst /\ level' = 0
    /\ delay' = [r \in Requests |-> 0] /\ left' = [r \in Requests |-> 0]
    /\ UNCHANGED <<route, gone, status, handled, stopped>>

\* ListenAndServe returns as soon as Shutdown has closed the listener, not when
\* Shutdown returns; run and main return.
Exit == process = "closing" /\ End("cut")

\* SIGTERM, which NotifyContext is not asked for, SIGKILL or a crash.
Kill == process # "exited" /\ End("killed")

\* Compose or Kubernetes starts it again.
Restart ==
    /\ process = "exited"
    /\ process' = "up" /\ stopped' = FALSE
    /\ UNCHANGED <<requestVars, sema, tokens, waitVars, level>>

-----------------------------------------------------------------------------
Admit(r) ==
    \/ Acquire(r) \/ Unavailable(r) \/ Abandon(r)
    \/ PassNow(r) \/ Reserve(r) \/ TooMany(r)
    \/ Pass(r) \/ TimesOut(r) \/ GiveUp(r)

Request(r) == process # "exited" /\ (Admit(r) \/ Serve(r))

Next ==
    \/ \E r \in Requests : Arrive(r) \/ ClientGone(r) \/ Request(r) \/ Depart(r)
    \/ Tick \/ Stop \/ Shutdown \/ Exit \/ Kill \/ Restart

Spec == Init /\ [][Next]_vars

-----------------------------------------------------------------------------
(* Properties.                                                              *)

\* No slot is lost or made up: the channel holds one element for each search in
\* its handler, however the others left (concurrency.go:8-25).
SlotsCounted ==
    sema = Cardinality({r \in Requests : at[r] = "serve" /\ route[r] = "search"})

\* In any span of n ticks at most n index searches start and three quarters of a
\* second's, rounded up, whatever the integers of burst make of them and also when
\* requests give up and their tokens are promised anew (rate.go:12-29).  level is
\* the most by which the starts of a span that ends now exceed its ticks.
RateBounded == 4 * level < 3 * SearchRate + 4

\* Tokens are promised one at a time: two that wait are due on different ticks,
\* and none later than all that was promised (rate.go:16-26).
PromisesDistinct ==
    \A r, q \in Requests : at[r] = "wait" =>
        /\ delay[r] <= left[r]
        /\ delay[r] <= -tokens
        /\ at[q] = "wait" /\ q # r => delay[r] # delay[q]

\* The step writes the answer of r.
Replied(r) == at[r] # "answer" /\ at'[r] = "answer"

\* Graceful Shutdown (src/README.md:47): a process that is told to stop does not
\* end before the requests in flight are answered.  Those of one that is killed are
\* another matter.
NoRequestCut == \A r \in Requests : at[r] # "cut"

\* A client that reads 200 reads the handler's answer: only one that has gone, or
\* one that is there when the gateway stops, is left without (concurrency.go:13,
\* rate.go:20-27).
OkMeansHandled ==
    [][\A r \in Requests :
        (Replied(r) /\ status'[r] = 200 /\ ~ContextDone(r)) => handled'[r]]_vars
=============================================================================
