------------------------------- MODULE Pinging -------------------------------
(***************************************************************************)
(* GET /api/ping against the lives of the services: the handler starts a   *)
(* goroutine per service, each puts one result into a buffered channel,    *)
(* another closes the channel when all of them have, and the handler       *)
(* collects what comes until then.  The calls of one ping share a context  *)
(* of five seconds.                                                        *)
(***************************************************************************)
EXTENDS ServiceLife, Naturals, Sequences

VARIABLES
    ping,           \* where the handler stands
    pinger,         \* and the goroutine of each service
    expired,        \* is the context over: five seconds, the client, a stop?
    results,        \* the channel
    closed,         \* has it been closed?
    replies,        \* what the handler has collected
    upOnce          \* history: has a service accepted calls during this ping?

pingVars == <<ping, pinger, expired, results, closed, replies>>
vars == <<lifeVars, pingVars, upOnce>>

Outcomes == {"ok", "unavailable"}

TypeOK ==
    /\ LifeTypeOK
    /\ ping \in {"idle", "receive", "answer"}
    /\ pinger \in [Services -> {"off", "call", "done"} \cup Outcomes]
    /\ expired \in BOOLEAN
    /\ results \in Seq(Services \X Outcomes)
    /\ closed \in BOOLEAN
    /\ replies \in [Services -> Outcomes \cup {"missing"}]
    /\ upOnce \in [Services -> BOOLEAN]

Init ==
    /\ LifeInit
    /\ ping = "idle"
    /\ pinger = [s \in Services |-> "off"]
    /\ expired = FALSE
    /\ results = <<>>
    /\ closed = FALSE
    /\ replies = [s \in Services |-> "missing"]
    /\ upOnce = [s \in Services |-> FALSE]

-----------------------------------------------------------------------------
(* A pinger: the call, then the result.                                     *)

Become(s, p) == pinger' = [pinger EXCEPT ![s] = p]

\* The service answers (its Ping returns nil).
Reached(s) ==
    /\ pinger[s] = "call" /\ ~expired /\ Accepts(s)
    /\ Become(s, "ok")
    /\ UNCHANGED <<lifeVars, ping, expired, results, closed, replies, upOnce>>

\* The connection fails, or has failed before and is not tried again yet.
Unreached(s) ==
    /\ pinger[s] = "call"
    /\ Become(s, "unavailable")
    /\ UNCHANGED <<lifeVars, ping, expired, results, closed, replies, upOnce>>

\* Fault: the call is made with a context of its own.
GivesUpNever(s) == FALSE /\ UNCHANGED vars

\* Fault: the error is reported instead of the word for it.
GivesUpByName(s) ==
    /\ pinger[s] = "call" /\ expired
    /\ Become(s, "DeadlineExceeded")
    /\ UNCHANGED <<lifeVars, ping, expired, results, closed, replies, upOnce>>

\* Neither an answer nor an error by the time the context ends.
GivesUp(s) ==
    /\ pinger[s] = "call" /\ expired
    /\ Become(s, "unavailable")
    /\ UNCHANGED <<lifeVars, ping, expired, results, closed, replies, upOnce>>

\* Fault: an error is logged, and the goroutine goes on to the second send.
SendTwice(s) ==
    /\ pinger[s] \in Outcomes
    /\ results' = Append(IF pinger[s] = "ok" THEN results
                            ELSE Append(results, <<s, "unavailable">>), <<s, "ok">>)
    /\ Become(s, "done")
    /\ UNCHANGED <<lifeVars, ping, expired, closed, replies, upOnce>>

\* results <- pingResult, for which there is room, and the end of the goroutine.
Send(s) ==
    /\ pinger[s] \in Outcomes
    /\ results' = Append(results, <<s, pinger[s]>>)
    /\ Become(s, "done")
    /\ UNCHANGED <<lifeVars, ping, expired, closed, replies, upOnce>>

Pinger(s) == GivesUp(s) \/ Send(s)

-----------------------------------------------------------------------------
(* The handler, its context and the goroutine that closes the channel.      *)

Ask ==
    /\ ping = "idle"
    /\ ping' = "receive"
    /\ pinger' = [s \in Services |-> "call"]
    /\ upOnce' = [s \in Services |-> Accepts(s)]
    /\ UNCHANGED <<lifeVars, expired, results, closed, replies>>

Deadline ==
    /\ ping = "receive" /\ ~expired
    /\ expired' = TRUE
    /\ UNCHANGED <<lifeVars, ping, pinger, results, closed, replies, upOnce>>

\* Fault: the goroutines are not counted before they run.
CloseEarly ==
    /\ ping = "receive" /\ ~closed
    /\ \A s \in Services : pinger[s] # "call"
    /\ closed' = TRUE
    /\ UNCHANGED <<lifeVars, ping, pinger, expired, results, replies, upOnce>>

\* wg.Wait, close(results)
Close ==
    /\ ping = "receive" /\ ~closed
    /\ \A s \in Services : pinger[s] = "done"
    /\ closed' = TRUE
    /\ UNCHANGED <<lifeVars, ping, pinger, expired, results, replies, upOnce>>

Receive ==
    /\ ping = "receive" /\ results # <<>>
    /\ LET result == Head(results) IN
         replies' = [replies EXCEPT ![result[1]] = result[2]]
    /\ results' = Tail(results)
    /\ UNCHANGED <<lifeVars, ping, pinger, expired, closed, upOnce>>

\* The range over the channel ends; the answer is 200 whatever it says.
Answer ==
    /\ ping = "receive" /\ closed /\ results = <<>>
    /\ ping' = "answer"
    /\ UNCHANGED <<lifeVars, pinger, expired, results, closed, replies, upOnce>>

Leave ==
    /\ ping = "answer"
    /\ ping' = "idle"
    /\ pinger' = [s \in Services |-> "off"]
    /\ expired' = FALSE
    /\ closed' = FALSE
    /\ replies' = [s \in Services |-> "missing"]
    /\ upOnce' = [s \in Services |-> FALSE]
    /\ UNCHANGED <<lifeVars, results>>

-----------------------------------------------------------------------------
\* A step of the services.
Live ==
    /\ LifeNext
    /\ upOnce' = [s \in Services |-> upOnce[s] \/ (ping = "receive" /\ Accepts(s)')]
    /\ UNCHANGED pingVars

Next ==
    \/ Ask \/ Deadline \/ Close \/ Receive \/ Answer \/ Leave
    \/ \E s \in Services : Reached(s) \/ Unreached(s) \/ Pinger(s)
    \/ Live

Spec == Init /\ [][Next]_vars

\* The goroutines of the gateway run, and five seconds pass.
PingFairness ==
    /\ WF_vars(Deadline) /\ WF_vars(Close) /\ WF_vars(Receive) /\ WF_vars(Answer)
    /\ \A s \in Services : WF_vars(Pinger(s))

FairSpec == Spec /\ LifeFairness /\ PingFairness

-----------------------------------------------------------------------------
(* Properties.                                                              *)

\* Every service is reported once, in whatever order the goroutines end and the
\* handler collects: no second result finds the channel full, none comes when it
\* is closed, and none is missing from the answer (api.go:60-94).
EveryServiceReported ==
    /\ \A i, j \in DOMAIN results : results[i][1] = results[j][1] => i = j
    /\ closed => \A s \in Services : pinger[s] = "done"
    /\ ping = "answer" => \A s \in Services : replies[s] \in Outcomes

\* A service reported ok has accepted calls at some moment of this very ping: one
\* that is down, booting or stopping throughout is never reported ok.
OkMeansUp == \A s \in Services : replies[s] = "ok" => upOnce[s]

\* A ping is answered, however its services hang, die or restart (api.go:63).
PingAnswered == ping = "receive" ~> ping = "answer"
=============================================================================
