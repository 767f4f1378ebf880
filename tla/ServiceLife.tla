----------------------------- MODULE ServiceLife -----------------------------
(***************************************************************************)
(* The life of a gRPC service process (update, search, isearch or words):  *)
(* its adapters are connected, the server serves, a signal makes a second  *)
(* goroutine stop it gracefully, and the main goroutine returns through    *)
(* its deferred closers.  The service words bounds the graceful stop by a  *)
(* timer; the others wait for their handlers as long as it takes.          *)
(***************************************************************************)
CONSTANTS
    Services,       \* the processes
    Timed,          \* those that force their stop (words)
    Rpcs            \* calls a service has under way at a time

ASSUME TimedAssumption == Timed \subseteq Services

VARIABLES
    main,           \* where the main goroutine of each process stands
    stopper,        \* and the goroutine that waits for the signal
    signalled,      \* is the context of signal.NotifyContext done?
    forced,         \* has the timer called s.Stop?
    handler         \* the handler of each call

lifeVars == <<main, stopper, signalled, forced, handler>>

LifeTypeOK ==
    /\ main \in [Services -> {"down", "boot", "listen", "Serve", "serverDone",
                              "return", "returnError"}]
    /\ stopper \in [Services -> {"off", "Done", "GracefulStop", "over"}]
    /\ signalled \in [Services -> BOOLEAN]
    /\ forced \in [Services -> BOOLEAN]
    /\ handler \in [Services -> [Rpcs -> {"none", "runs", "cut"}]]

LifeInit ==
    /\ main = [s \in Services |-> "down"]
    /\ stopper = [s \in Services |-> "off"]
    /\ signalled = [s \in Services |-> FALSE]
    /\ forced = [s \in Services |-> FALSE]
    /\ handler = [s \in Services |-> [x \in Rpcs |-> "none"]]

Goto(s, m) == main' = [main EXCEPT ![s] = m]

\* The first thing either stop does is to close the listener.
Stopping(s) == stopper[s] \in {"GracefulStop", "over"}

Accepts(s) == main[s] = "Serve" /\ ~Stopping(s)

Busy(s) == \E x \in Rpcs : handler[s][x] # "none"

\* The process is gone, and with it its goroutines and connections.
End(s) ==
    /\ Goto(s, "down")
    /\ stopper' = [stopper EXCEPT ![s] = "off"]
    /\ signalled' = [signalled EXCEPT ![s] = FALSE]
    /\ forced' = [forced EXCEPT ![s] = FALSE]
    /\ handler' = [handler EXCEPT ![s] = [x \in Rpcs |-> "none"]]

-----------------------------------------------------------------------------
(* The main goroutine.                                                      *)

\* Started, at first or by the restart policy.
Launch(s) ==
    /\ main[s] = "down"
    /\ Goto(s, "boot")
    /\ UNCHANGED <<stopper, signalled, forced, handler>>

\* Adapters, listener, signal context and the goroutine that waits for it.
Boot(s) ==
    /\ main[s] = "boot"
    /\ Goto(s, "listen")
    /\ stopper' = [stopper EXCEPT ![s] = "Done"]
    /\ UNCHANGED <<signalled, forced, handler>>

\* The database, the migration, NATS or the port is not there: run returns
\* through the closers of what has been connected so far.
BootFails(s) == main[s] = "boot" /\ End(s)

Serve(s) ==
    /\ main[s] = "listen" /\ ~Stopping(s)
    /\ Goto(s, "Serve")
    /\ UNCHANGED <<stopper, signalled, forced, handler>>

\* The signal came first: Serve returns ErrServerStopped, which only words
\* does not take for an error.
ServeTooLate(s) ==
    /\ main[s] = "listen" /\ Stopping(s)
    /\ Goto(s, IF s \in Timed THEN "serverDone" ELSE "returnError")
    /\ UNCHANGED <<stopper, signalled, forced, handler>>

\* Serve returns nil once one of the two stops is over.
ServeReturns(s) ==
    /\ main[s] = "Serve" /\ (stopper[s] = "over" \/ forced[s])
    /\ Goto(s, IF s \in Timed THEN "serverDone" ELSE "return")
    /\ UNCHANGED <<stopper, signalled, forced, handler>>

\* Fault: words returns as soon as Serve has.
AwaitNothing(s) ==
    /\ main[s] = "serverDone"
    /\ Goto(s, "return")
    /\ UNCHANGED <<stopper, signalled, forced, handler>>

\* <-serverDone: a forced stop ends Serve before the graceful one is over.
AwaitServerDone(s) ==
    /\ main[s] = "serverDone" /\ stopper[s] = "over"
    /\ Goto(s, "return")
    /\ UNCHANGED <<stopper, signalled, forced, handler>>

\* The deferred CloseOrLog of the adapters, and the end of main.
Exit(s) == main[s] \in {"return", "returnError"} /\ End(s)

-----------------------------------------------------------------------------
(* The goroutine that stops the server.                                     *)

\* SIGINT, for words also SIGTERM.  A second signal changes nothing.
Signal(s) ==
    /\ stopper[s] = "Done" /\ ~signalled[s]
    /\ signalled' = [signalled EXCEPT ![s] = TRUE]
    /\ UNCHANGED <<main, stopper, forced, handler>>

BeginStop(s) ==
    /\ stopper[s] = "Done" /\ signalled[s]
    /\ stopper' = [stopper EXCEPT ![s] = "GracefulStop"]
    /\ UNCHANGED <<main, signalled, forced, handler>>

\* Fault: the timer is stopped as soon as it is made.
ForceNever(s) == FALSE /\ UNCHANGED lifeVars

\* ShutdownPeriod is over: s.Stop closes the connections, which cancels the
\* contexts of the handlers.
ForceStop(s) ==
    /\ s \in Timed /\ stopper[s] = "GracefulStop" /\ ~forced[s]
    /\ forced' = [forced EXCEPT ![s] = TRUE]
    /\ handler' = [handler EXCEPT ![s] =
                     [x \in Rpcs |-> IF @[x] = "runs" THEN "cut" ELSE @[x]]]
    /\ UNCHANGED <<main, stopper, signalled>>

\* GracefulStop returns when every handler has; words stops its timer.
StopOver(s) ==
    /\ stopper[s] = "GracefulStop" /\ ~Busy(s)
    /\ stopper' = [stopper EXCEPT ![s] = "over"]
    /\ UNCHANGED <<main, signalled, forced, handler>>

-----------------------------------------------------------------------------
(* Calls, and what may happen to a process.                                 *)

Accept(s, x) ==
    /\ Accepts(s) /\ handler[s][x] = "none"
    /\ handler' = [handler EXCEPT ![s][x] = "runs"]
    /\ UNCHANGED <<main, stopper, signalled, forced>>

Handled(s, x) ==
    /\ handler[s][x] # "none"
    /\ handler' = [handler EXCEPT ![s][x] = "none"]
    /\ UNCHANGED <<main, stopper, signalled, forced>>

\* A crash, SIGKILL, a SIGTERM that only words handles, or any signal before
\* NotifyContext.
Kill(s) == main[s] # "down" /\ End(s)

-----------------------------------------------------------------------------
Main(s) ==
    \/ Boot(s) \/ BootFails(s)
    \/ Serve(s) \/ ServeTooLate(s) \/ ServeReturns(s) \/ AwaitServerDone(s)
    \/ Exit(s)

Stopper(s) == BeginStop(s) \/ StopOver(s)

LifeNext ==
    \E s \in Services :
        \/ Launch(s) \/ Signal(s) \/ Kill(s)
        \/ Main(s) \/ Stopper(s) \/ ForceStop(s)
        \/ \E x \in Rpcs : Accept(s, x) \/ Handled(s, x)

\* The goroutines run, the timer goes off, and a handler returns: that of Update
\* and Drop because every call does (UpdateService's CallsReturn), a search after
\* a few queries.  Of words it is only asked that a handler whose context is
\* cancelled returns, as its loop looks at the context.
LifeFairness ==
    \A s \in Services :
        /\ WF_lifeVars(Main(s))
        /\ WF_lifeVars(Stopper(s))
        /\ WF_lifeVars(ForceStop(s))
        /\ \A x \in Rpcs :
              WF_lifeVars((s \in Timed => handler[s][x] = "cut") /\ Handled(s, x))

-----------------------------------------------------------------------------
(* Properties.                                                              *)

\* A process returns from a stop with no handler running, so that no adapter is
\* closed, and no answer lost, under a call: also when words forces its stop and
\* Serve is over before its handlers are (update/main.go:95-104,
\* words/main.go:118-142).
QuietExit ==
    \A s \in Services : main[s] \in {"return", "returnError"} => ~Busy(s)

\* A signal ends the process, whether it comes before, during or after Serve.
\* For words this rests on no client and no handler but on its timer
\* (words/main.go:118-142, update/main.go:95-104).
StopEnds == \A s \in Services : signalled[s] ~> main[s] = "down"
=============================================================================
