---------------------------- MODULE PingingProofs ----------------------------
(***************************************************************************)
(* Theorems about Pinging and the lives of the services, for any services, *)
(* whichever of them force their stop, and any number of calls.            *)
(***************************************************************************)
EXTENDS Pinging, TLAPS

-----------------------------------------------------------------------------
(* Types.                                                                   *)

\* A step of a service keeps the types of the lives.
LEMMA LifeKeepsType ==
    ASSUME LifeTypeOK, LifeNext
    PROVE  LifeTypeOK'
<1>1. PICK s \in Services :
        \/ Launch(s) \/ Signal(s) \/ Kill(s)
        \/ Main(s) \/ Stopper(s) \/ ForceStop(s)
        \/ \E x \in Rpcs : Accept(s, x) \/ Handled(s, x)
  BY DEF LifeNext
<1>2. ASSUME End(s) PROVE LifeTypeOK'
  BY <1>2 DEF End, Goto, LifeTypeOK
<1>3. CASE Launch(s) \/ Signal(s)
  BY <1>3 DEF Launch, Signal, Goto, LifeTypeOK
<1>4. CASE Boot(s) \/ Serve(s) \/ ServeTooLate(s)
  BY <1>4 DEF Boot, Serve, ServeTooLate, Goto, LifeTypeOK
<1>5. CASE ServeReturns(s) \/ AwaitServerDone(s)
  BY <1>5 DEF ServeReturns, AwaitServerDone, Goto, LifeTypeOK
<1>6. CASE BeginStop(s) \/ StopOver(s)
  BY <1>6 DEF BeginStop, StopOver, LifeTypeOK
<1>7. CASE ForceStop(s)
  <2>1. handler' \in [Services -> [Rpcs -> {"none", "runs", "cut"}]]
    BY <1>7, SMTT(30) DEF ForceStop, LifeTypeOK
  <2>2. /\ forced' \in [Services -> BOOLEAN]
        /\ UNCHANGED <<main, stopper, signalled>>
    BY <1>7 DEF ForceStop, LifeTypeOK
  <2> QED
    BY <2>1, <2>2 DEF LifeTypeOK
<1>8. ASSUME NEW x \in Rpcs, Accept(s, x) \/ Handled(s, x) PROVE LifeTypeOK'
  <2>1. handler' \in [Services -> [Rpcs -> {"none", "runs", "cut"}]]
    <3>1. PICK h \in {"none", "runs"} : handler' = [handler EXCEPT ![s][x] = h]
      BY <1>8 DEF Accept, Handled
    <3>2. handler[s] \in [Rpcs -> {"none", "runs", "cut"}]
      BY DEF LifeTypeOK
    <3>3. [handler[s] EXCEPT ![x] = h] \in [Rpcs -> {"none", "runs", "cut"}]
      BY <3>2
    <3> QED
      BY <3>1, <3>3 DEF LifeTypeOK
  <2>2. UNCHANGED <<main, stopper, signalled, forced>>
    BY <1>8 DEF Accept, Handled
  <2> QED
    BY <2>1, <2>2 DEF LifeTypeOK
<1> QED
  BY <1>1, <1>2, <1>3, <1>4, <1>5, <1>6, <1>7, <1>8
     DEF Kill, Main, BootFails, Exit, Stopper

\* A step of the ping keeps the types.
LEMMA PingKeepsType ==
    ASSUME TypeOK,
           \/ Ask \/ Deadline \/ Close \/ Receive \/ Answer \/ Leave
           \/ \E s \in Services : Reached(s) \/ Unreached(s) \/ Pinger(s)
    PROVE  TypeOK'
<1>0. ASSUME UNCHANGED lifeVars PROVE LifeTypeOK'
  BY <1>0 DEF TypeOK, LifeTypeOK, lifeVars
<1> USE <1>0 DEF TypeOK, Outcomes, Become
<1>1. CASE Ask \/ Deadline \/ Close \/ Answer \/ Leave
  <2>1. CASE Ask
    <3>1. upOnce' \in [Services -> BOOLEAN]
      BY <2>1 DEF Ask, Accepts, Stopping
    <3> QED
      BY <2>1, <3>1 DEF Ask
  <2>2. CASE Leave
    BY <2>2 DEF Leave
  <2> QED
    BY <1>1, <2>1, <2>2 DEF Deadline, Close, Answer
<1>2. CASE Receive
  <2>1. Head(results) \in Services \X Outcomes /\ Tail(results) \in Seq(Services \X Outcomes)
    BY <1>2 DEF Receive
  <2> QED
    BY <1>2, <2>1 DEF Receive
<1>3. ASSUME NEW s \in Services, Reached(s) \/ Unreached(s) \/ GivesUp(s) PROVE TypeOK'
  BY <1>3 DEF Reached, Unreached, GivesUp
<1>4. ASSUME NEW s \in Services, Send(s) PROVE TypeOK'
  BY <1>4 DEF Send
<1> QED
  BY <1>1, <1>2, <1>3, <1>4 DEF Pinger

\* Every variable keeps its type, whatever the services and the ping do.
THEOREM TypeCorrect == Spec => []TypeOK
<1>1. Init => TypeOK
  <2>1. LifeInit => LifeTypeOK
    BY DEF LifeInit, LifeTypeOK
  <2>2. <<>> \in Seq(Services \X Outcomes)
    OBVIOUS
  <2> QED
    BY <2>1, <2>2 DEF Init, TypeOK, Outcomes
<1>2. TypeOK /\ [Next]_vars => TypeOK'
  <2>1. ASSUME TypeOK, UNCHANGED vars PROVE TypeOK'
    BY <2>1 DEF vars, pingVars, lifeVars, TypeOK, LifeTypeOK
  <2>2. ASSUME TypeOK, Live PROVE TypeOK'
    <3>1. LifeTypeOK'
      BY <2>2, LifeKeepsType DEF Live, TypeOK
    <3>2. upOnce' \in [Services -> BOOLEAN]
      BY <2>2 DEF Live, TypeOK, Accepts
    <3> QED
      BY <2>2, <3>1, <3>2 DEF Live, TypeOK, pingVars
  <2> QED
    BY <2>1, <2>2, PingKeepsType DEF Next
<1> QED
  BY <1>1, <1>2, PTL DEF Spec

-----------------------------------------------------------------------------
(* The end of a process.                                                    *)

\* A handler runs only in a process that serves; a graceful stop that is over
\* has waited for all of them, and no process returns before that.
QuietInv ==
    \A s \in Services :
        /\ stopper[s] = "over" => ~Busy(s)
        /\ main[s] \in {"down", "boot", "listen", "returnError"} => ~Busy(s)
        /\ main[s] = "return" => stopper[s] = "over"
        /\ forced[s] => s \in Timed

\* A step of one service keeps what is known of all of them.
LEMMA LifeKeepsQuiet ==
    ASSUME LifeTypeOK, QuietInv, LifeNext
    PROVE  QuietInv'
<1>1. PICK s \in Services :
        \/ Launch(s) \/ Signal(s) \/ Kill(s)
        \/ Main(s) \/ Stopper(s) \/ ForceStop(s)
        \/ \E x \in Rpcs : Accept(s, x) \/ Handled(s, x)
  BY DEF LifeNext
<1>2. ASSUME End(s) PROVE QuietInv'
  BY <1>2 DEF End, Goto, LifeTypeOK, QuietInv, Busy
<1>3. CASE Launch(s) \/ Signal(s)
  BY <1>3 DEF Launch, Signal, Goto, LifeTypeOK, QuietInv, Busy
<1>4. CASE Boot(s) \/ Serve(s) \/ ServeTooLate(s)
  BY <1>4 DEF Boot, Serve, ServeTooLate, Stopping, Goto, LifeTypeOK, QuietInv, Busy
<1>5. CASE ServeReturns(s) \/ AwaitServerDone(s)
  BY <1>5 DEF ServeReturns, AwaitServerDone, Goto, LifeTypeOK, QuietInv, Busy
<1>6. CASE BeginStop(s) \/ StopOver(s)
  BY <1>6 DEF BeginStop, StopOver, LifeTypeOK, QuietInv, Busy
<1>7. CASE ForceStop(s)
  BY <1>7 DEF ForceStop, LifeTypeOK, QuietInv, Busy
<1>8. ASSUME NEW x \in Rpcs, Accept(s, x) \/ Handled(s, x) PROVE QuietInv'
  BY <1>8 DEF Accept, Handled, Accepts, Stopping, LifeTypeOK, QuietInv, Busy
<1> QED
  BY <1>1, <1>2, <1>3, <1>4, <1>5, <1>6, <1>7, <1>8
     DEF Kill, Main, BootFails, Exit, Stopper

\* No process returns while a handler runs, for any number of calls and also if
\* its stop is forced (update/main.go:95-104, words/main.go:118-142).
THEOREM ExitsQuietly == Spec => []QuietExit
<1>1. Init => QuietInv
  <2>1. ASSUME Init, NEW s \in Services PROVE ~Busy(s) /\ main[s] = "down" /\ ~forced[s]
    BY <2>1 DEF Init, LifeInit, Busy
  <2>2. ASSUME Init, NEW s \in Services PROVE stopper[s] = "off"
    BY <2>2 DEF Init, LifeInit
  <2> QED
    BY <2>1, <2>2 DEF QuietInv
<1>2. TypeOK /\ QuietInv /\ [Next]_vars => QuietInv'
  <2>1. ASSUME QuietInv, UNCHANGED lifeVars PROVE QuietInv'
    BY <2>1 DEF lifeVars, QuietInv, Busy
  <2>2. ASSUME [Next]_vars, ~Live PROVE UNCHANGED lifeVars
    BY <2>2 DEF Next, vars, lifeVars, Ask, Deadline, Close, Receive, Answer, Leave, Reached, Unreached,
                Pinger, GivesUp, Send
  <2> QED
    BY <2>1, <2>2, LifeKeepsQuiet DEF Live, TypeOK
<1>3. QuietInv => QuietExit
  BY DEF QuietInv, QuietExit
<1> QED
  BY <1>1, <1>2, <1>3, TypeCorrect, PTL DEF Spec

-----------------------------------------------------------------------------
(* What the handler collects.                                               *)

\* Between two pings nothing is left over.
IdleInv ==
    /\ ping = "idle" => /\ results = <<>> /\ ~closed
                        /\ \A s \in Services : pinger[s] = "off" /\ replies[s] = "missing"
    /\ ping = "answer" => closed /\ results = <<>>

\* A result is in the channel or collected exactly from when its goroutine is done.
ChannelInv ==
    /\ \A i, j \in DOMAIN results : results[i][1] = results[j][1] => i = j
    /\ \A i \in DOMAIN results : pinger[results[i][1]] = "done"
    /\ closed => \A s \in Services : pinger[s] = "done"
    /\ \A s \in Services : pinger[s] = "done" =>
          replies[s] \in Outcomes \/ \E i \in DOMAIN results : results[i][1] = s

\* Wherever an ok stands, the service has been up.
OkInv ==
    /\ \A s \in Services : pinger[s] = "ok" \/ replies[s] = "ok" => upOnce[s]
    /\ \A i \in DOMAIN results : results[i][2] = "ok" => upOnce[results[i][1]]
    /\ ping = "receive" => \A s \in Services : Accepts(s) => upOnce[s]

ReportInv == IdleInv /\ ChannelInv /\ OkInv

\* The goroutines keep it: each puts its result into the channel once.
LEMMA PingerKeepsReport ==
    ASSUME TypeOK, ReportInv, NEW s \in Services,
           Reached(s) \/ Unreached(s) \/ Pinger(s)
    PROVE  ReportInv'
<1> USE DEF TypeOK, Become, Outcomes
<1>1. ping = "receive"
  BY DEF Reached, Unreached, Pinger, GivesUp, Send, ReportInv, IdleInv, ChannelInv
<1>2. ASSUME Reached(s) \/ Unreached(s) \/ GivesUp(s) PROVE ReportInv'
  <2>1. IdleInv'
    BY <1>1, <1>2 DEF Reached, Unreached, GivesUp, IdleInv
  <2>2. ChannelInv'
    BY <1>2 DEF Reached, Unreached, GivesUp, ChannelInv, ReportInv
  <2>3. OkInv'
    BY <1>1, <1>2 DEF Reached, Unreached, GivesUp, OkInv, ReportInv, Accepts, Stopping, lifeVars
  <2> QED
    BY <2>1, <2>2, <2>3 DEF ReportInv
<1>3. ASSUME Send(s) PROVE ReportInv'
  <2> DEFINE n == Len(results)
  <2>1. /\ n \in Nat /\ DOMAIN results = 1..n /\ DOMAIN results' = 1..(n + 1)
        /\ \A i \in 1..n : results'[i] = results[i]
        /\ results'[n + 1] = <<s, pinger[s]>>
    BY <1>3 DEF Send
  <2>2. \A i \in 1..n : results[i][1] \in Services /\ results[i][1] # s
    BY <1>3, <2>1 DEF Send, ReportInv, ChannelInv
  <2>3. IdleInv'
    BY <1>1, <1>3 DEF Send, IdleInv
  <2>4. ChannelInv'
    <3>1. (\A i, j \in DOMAIN results : results[i][1] = results[j][1] => i = j)'
      BY <2>1, <2>2 DEF ReportInv, ChannelInv
    <3>2. (\A i \in DOMAIN results : pinger[results[i][1]] = "done")'
      BY <1>3, <2>1, <2>2 DEF ReportInv, ChannelInv, Send
    <3>3. (closed => \A t \in Services : pinger[t] = "done")'
      BY <1>3 DEF ReportInv, ChannelInv, Send
    <3>4. ASSUME NEW t \in Services, pinger'[t] = "done"
          PROVE  replies'[t] \in Outcomes \/ \E i \in DOMAIN results' : results'[i][1] = t
      <4>1. CASE t = s
        BY <2>1, <4>1
      <4>2. CASE t # s
        BY <1>3, <2>1, <3>4, <4>2 DEF ReportInv, ChannelInv, Send
      <4> QED
        BY <4>1, <4>2
    <3> QED
      BY <3>1, <3>2, <3>3, <3>4 DEF ChannelInv
  <2>5. OkInv'
    BY <1>3, <2>1, <2>2 DEF Send, OkInv, ReportInv, Accepts, Stopping, lifeVars
  <2> QED
    BY <2>3, <2>4, <2>5 DEF ReportInv
<1> QED
  BY <1>2, <1>3 DEF Pinger

\* So does the handler, whichever result comes first.
LEMMA HandlerKeepsReport ==
    ASSUME TypeOK, ReportInv,
           Ask \/ Deadline \/ Close \/ Receive \/ Answer \/ Leave
    PROVE  ReportInv'
<1>1. CASE Ask
  <2>1. /\ results = <<>> /\ ~closed /\ \A s \in Services : replies[s] = "missing"
        /\ UNCHANGED <<lifeVars, results, closed, replies>>
        /\ ping' = "receive"
        /\ pinger' = [s \in Services |-> "call"]
        /\ upOnce' = [s \in Services |-> Accepts(s)]
    BY <1>1 DEF Ask, ReportInv, IdleInv
  <2>2. IdleInv' /\ ChannelInv'
    BY <2>1 DEF IdleInv, ChannelInv
  <2>3. \A s \in Services : Accepts(s)' = Accepts(s)
    BY <2>1 DEF Accepts, Stopping, lifeVars
  <2>4. OkInv'
    BY <2>1, <2>3 DEF OkInv
  <2> QED
    BY <2>2, <2>4 DEF ReportInv
<1>2. CASE Deadline \/ Close \/ Answer
  BY <1>2 DEF Deadline, Close, Answer, TypeOK, ReportInv, IdleInv, ChannelInv, OkInv,
              Accepts, Stopping, lifeVars
<1>3. CASE Leave
  BY <1>3 DEF Leave, TypeOK, ReportInv, IdleInv, ChannelInv, OkInv
<1>4. CASE Receive
  <2> DEFINE n == Len(results)
  <2>1. /\ n \in Nat \ {0} /\ DOMAIN results = 1..n /\ DOMAIN results' = 1..(n - 1)
        /\ \A i \in 1..(n - 1) : i + 1 \in 1..n /\ results'[i] = results[i + 1]
        /\ results[1] \in Services \X Outcomes
        /\ Head(results) = results[1]
    BY <1>4 DEF Receive, TypeOK
  <2>2. /\ replies' = [replies EXCEPT ![results[1][1]] = results[1][2]]
        /\ replies \in [Services -> Outcomes \cup {"missing"}]
        /\ results[1][1] \in Services /\ results[1][2] \in Outcomes
        /\ UNCHANGED <<main, stopper, ping, pinger, closed, upOnce>>
        /\ ping = "receive"
    BY <1>4, <2>1 DEF Receive, TypeOK, lifeVars
  <2>3. /\ \A i, j \in 1..n : results[i][1] = results[j][1] => i = j
        /\ \A i \in 1..n : pinger[results[i][1]] = "done"
        /\ \A i \in 1..n : results[i][2] = "ok" => upOnce[results[i][1]]
    BY <2>1 DEF ReportInv, ChannelInv, OkInv
  <2>4. IdleInv'
    BY <2>2 DEF IdleInv
  <2>5. ChannelInv'
    <3>1. (\A i, j \in DOMAIN results : results[i][1] = results[j][1] => i = j)'
      <4>1. ASSUME NEW i \in 1..(n - 1), NEW j \in 1..(n - 1), results'[i][1] = results'[j][1]
            PROVE  i = j
        <5>1. i + 1 \in 1..n /\ j + 1 \in 1..n /\ results[i + 1][1] = results[j + 1][1]
          BY <2>1, <4>1
        <5>2. i + 1 = j + 1
          BY <2>3, <5>1
        <5> QED
          BY <5>2
      <4> QED
        BY <2>1, <4>1
    <3>2. (\A i \in DOMAIN results : pinger[results[i][1]] = "done")'
      BY <2>1, <2>2, <2>3
    <3>3. (closed => \A t \in Services : pinger[t] = "done")'
      BY <2>2 DEF ReportInv, ChannelInv
    <3>4. ASSUME NEW t \in Services, pinger'[t] = "done"
          PROVE  replies'[t] \in Outcomes \/ \E i \in DOMAIN results' : results'[i][1] = t
      <4>1. CASE t = results[1][1]
        BY <2>2, <4>1
      <4>2. CASE t # results[1][1]
        <5>1. CASE replies[t] \in Outcomes
          BY <2>2, <4>2, <5>1
        <5>2. CASE \E i \in DOMAIN results : results[i][1] = t
          <6>1. PICK i \in 1..n : results[i][1] = t
            BY <2>1, <5>2
          <6>2. i - 1 \in 1..(n - 1) /\ results'[i - 1] = results[i]
            BY <2>1, <4>2, <6>1
          <6> QED
            BY <2>1, <6>1, <6>2
        <5> QED
          BY <2>2, <3>4, <5>1, <5>2 DEF ReportInv, ChannelInv
      <4> QED
        BY <4>1, <4>2
    <3> QED
      BY <3>1, <3>2, <3>3, <3>4 DEF ChannelInv
  <2>6. OkInv'
    <3>1. ASSUME NEW t \in Services, pinger'[t] = "ok" \/ replies'[t] = "ok"
          PROVE  upOnce'[t]
      <4>1. CASE t = results[1][1] /\ replies'[t] = "ok"
        <5>1. 1 \in 1..n /\ results[1][2] = "ok"
          BY <2>1, <2>2, <4>1
        <5> QED
          BY <2>2, <2>3, <4>1, <5>1
      <4>2. CASE pinger[t] = "ok" \/ replies[t] = "ok"
        BY <2>2, <4>2 DEF ReportInv, OkInv
      <4> QED
        BY <2>2, <3>1, <4>1, <4>2
    <3>2. (\A i \in DOMAIN results : results[i][2] = "ok" => upOnce[results[i][1]])'
      BY <2>1, <2>2, <2>3
    <3>3. (ping = "receive" => \A t \in Services : Accepts(t) => upOnce[t])'
      BY <2>2 DEF ReportInv, OkInv, Accepts, Stopping
    <3> QED
      BY <3>1, <3>2, <3>3 DEF OkInv
  <2> QED
    BY <2>4, <2>5, <2>6 DEF ReportInv
<1> QED
  BY <1>1, <1>2, <1>3, <1>4

\* What a service does can only add to the services that have been up.
LEMMA LifeKeepsReport ==
    ASSUME TypeOK, ReportInv, Live
    PROVE  ReportInv'
<1>1. /\ UNCHANGED pingVars
      /\ \A s \in Services : upOnce[s] => upOnce'[s]
      /\ ping = "receive" => \A s \in Services : Accepts(s)' => upOnce'[s]
  BY DEF Live, TypeOK
<1>2. IdleInv' /\ ChannelInv'
  BY <1>1 DEF pingVars, ReportInv, IdleInv, ChannelInv
<1>3. \A i \in DOMAIN results : results[i][1] \in Services
  BY DEF TypeOK
<1>4. OkInv'
  BY <1>1, <1>3 DEF pingVars, ReportInv, OkInv
<1> QED
  BY <1>2, <1>4 DEF ReportInv

\* Every reachable state has it.
LEMMA ReportsKept == Spec => []ReportInv
<1>1. Init => ReportInv
  BY DEF Init, LifeInit, ReportInv, IdleInv, ChannelInv, OkInv, Outcomes
<1>2. TypeOK /\ ReportInv /\ [Next]_vars => ReportInv'
  <2>1. ASSUME ReportInv, UNCHANGED vars PROVE ReportInv'
    BY <2>1 DEF vars, pingVars, lifeVars, ReportInv, IdleInv, ChannelInv, OkInv,
                Accepts, Stopping
  <2> QED
    BY <2>1, PingerKeepsReport, HandlerKeepsReport, LifeKeepsReport DEF Next
<1> QED
  BY <1>1, <1>2, TypeCorrect, PTL DEF Spec

\* However many services there are and in whatever order their goroutines end, each
\* is reported once and none is missing from the answer (api.go:60-94).
THEOREM AllReported == Spec => []EveryServiceReported
<1>1. TypeOK /\ ReportInv => EveryServiceReported
  BY DEF TypeOK, ReportInv, IdleInv, ChannelInv, EveryServiceReported
<1> QED
  BY <1>1, TypeCorrect, ReportsKept, PTL

\* No service that has been down, booting or stopping throughout a ping is reported
\* ok by it (api.go:62-81, update/main.go:95-104).
THEOREM OkIsTruthful == Spec => []OkMeansUp
<1>1. ReportInv => OkMeansUp
  BY DEF ReportInv, OkInv, OkMeansUp
<1> QED
  BY <1>1, ReportsKept, PTL

-----------------------------------------------------------------------------
(* Nothing hangs: a stop and a ping can always go on, and only forwards.    *)

\* What the next step towards the end of a signalled process waits for is there.  Of
\* words no handler is asked to return that has not been cut.
StopGoesOn ==
    \A s \in Services : signalled[s] =>
        \/ stopper[s] = "Done"
        \/ stopper[s] = "GracefulStop" /\ (~Busy(s) \/ (s \in Timed /\ ~forced[s]))
        \/ \E x \in Rpcs : handler[s][x] = "cut" \/ (handler[s][x] = "runs" /\ s \notin Timed)
        \/ stopper[s] = "over" /\ main[s] \in {"listen", "Serve", "serverDone"}
        \/ main[s] \in {"return", "returnError"}

MainRank(m) ==
    CASE m = "listen" -> 3
      [] m = "Serve" -> 2
      [] m = "serverDone" -> 1
      [] OTHER -> 0

HandlerRank(h) == CASE h = "runs" -> 2 [] h = "cut" -> 1 [] OTHER -> 0

\* A process that stops accepts no call, does not serve again and forgets neither its
\* signal nor its timer: until it is gone nothing leads back.
StopForward ==
    [][\A s \in Services :
          (Stopping(s) /\ main'[s] # "down") =>
              /\ Stopping(s)' /\ (stopper[s] = "over" => stopper'[s] = "over")
              /\ signalled'[s] /\ (forced[s] => forced'[s])
              /\ MainRank(main'[s]) <= MainRank(main[s])
              /\ \A x \in Rpcs : HandlerRank(handler'[s][x]) <= HandlerRank(handler[s][x])]_vars

\* A process is signalled, and stops, only while both its goroutines are there; once
\* the timer has gone off no handler is left that has not been cut.
SignalInv ==
    \A s \in Services :
        /\ main[s] \in {"down", "boot"} => stopper[s] = "off" /\ ~forced[s]
        /\ signalled[s] => stopper[s] # "off"
        /\ Stopping(s) => signalled[s]
        /\ forced[s] => Stopping(s) /\ \A x \in Rpcs : handler[s][x] # "runs"

\* A step of one service keeps that of all of them.
LEMMA LifeKeepsSignal ==
    ASSUME LifeTypeOK, SignalInv, LifeNext
    PROVE  SignalInv'
<1>1. PICK s \in Services :
        \/ Launch(s) \/ Signal(s) \/ Kill(s)
        \/ Main(s) \/ Stopper(s) \/ ForceStop(s)
        \/ \E x \in Rpcs : Accept(s, x) \/ Handled(s, x)
  BY DEF LifeNext
<1> USE DEF LifeTypeOK, SignalInv, Stopping, Goto
<1>2. ASSUME End(s) PROVE SignalInv'
  BY <1>2 DEF End
<1>3. CASE Launch(s) \/ Signal(s)
  BY <1>3 DEF Launch, Signal
<1>4. CASE Boot(s) \/ Serve(s) \/ ServeTooLate(s)
  BY <1>4 DEF Boot, Serve, ServeTooLate
<1>5. CASE ServeReturns(s) \/ AwaitServerDone(s)
  BY <1>5 DEF ServeReturns, AwaitServerDone
<1>6. CASE BeginStop(s) \/ StopOver(s)
  BY <1>6 DEF BeginStop, StopOver
<1>7. CASE ForceStop(s)
  BY <1>7 DEF ForceStop
<1>8. ASSUME NEW x \in Rpcs, Accept(s, x) \/ Handled(s, x) PROVE SignalInv'
  BY <1>8 DEF Accept, Handled, Accepts
<1> QED
  BY <1>1, <1>2, <1>3, <1>4, <1>5, <1>6, <1>7, <1>8
     DEF Kill, Main, BootFails, Exit, Stopper

\* A step of the ping leaves the services alone.
LEMMA PingLeavesLife ==
    ASSUME [Next]_vars, ~Live
    PROVE  UNCHANGED lifeVars
BY DEF Next, vars, lifeVars, Ask, Deadline, Close, Receive, Answer, Leave, Reached, Unreached,
       Pinger, GivesUp, Send

\* Every reachable state has it.
LEMMA SignalsKept == Spec => []SignalInv
<1>1. Init => SignalInv
  BY DEF Init, LifeInit, SignalInv, Stopping
<1>2. TypeOK /\ SignalInv /\ [Next]_vars => SignalInv'
  <2>1. ASSUME SignalInv, UNCHANGED lifeVars PROVE SignalInv'
    BY <2>1 DEF lifeVars, SignalInv, Stopping
  <2> QED
    BY <2>1, PingLeavesLife, LifeKeepsSignal DEF Live, TypeOK
<1> QED
  BY <1>1, <1>2, TypeCorrect, PTL DEF Spec

\* A signalled process is never stuck, for any number of calls; words not even with
\* handlers that never return by themselves (words/main.go:118-142,
\* update/main.go:95-104).
THEOREM StopsNeverStuck == Spec => []StopGoesOn
<1>1. TypeOK /\ SignalInv => StopGoesOn
  <2> SUFFICES ASSUME TypeOK, SignalInv, NEW s \in Services, signalled[s],
                      stopper[s] # "Done",
                      main[s] \notin {"return", "returnError"},
                      ~(stopper[s] = "over" /\ main[s] \in {"listen", "Serve", "serverDone"})
               PROVE  \/ stopper[s] = "GracefulStop" /\ (~Busy(s) \/ (s \in Timed /\ ~forced[s]))
                      \/ \E x \in Rpcs : handler[s][x] = "cut" \/ (handler[s][x] = "runs" /\ s \notin Timed)
    BY DEF StopGoesOn
  <2>1. stopper[s] = "GracefulStop"
    BY DEF TypeOK, LifeTypeOK, SignalInv
  <2>2. ASSUME NEW x \in Rpcs, handler[s][x] # "none" PROVE handler[s][x] \in {"runs", "cut"}
    BY <2>2 DEF TypeOK, LifeTypeOK
  <2> QED
    BY <2>1, <2>2 DEF Busy, SignalInv
<1> QED
  BY <1>1, TypeCorrect, SignalsKept, PTL

\* A stop that has begun only goes forwards, whatever clients and other services do
\* (words/main.go:118-142, update/main.go:95-104).
THEOREM StopsForward == Spec => StopForward
<1> DEFINE Forward(s) ==
      (Stopping(s) /\ main'[s] # "down") =>
          /\ Stopping(s)' /\ (stopper[s] = "over" => stopper'[s] = "over")
          /\ signalled'[s] /\ (forced[s] => forced'[s])
          /\ MainRank(main'[s]) <= MainRank(main[s])
          /\ \A x \in Rpcs : HandlerRank(handler'[s][x]) <= HandlerRank(handler[s][x])
<1>1. ASSUME TypeOK, SignalInv, LifeNext, NEW s \in Services PROVE Forward(s)
  <2>0. PICK t \in Services :
        \/ Launch(t) \/ Signal(t) \/ Kill(t)
        \/ Main(t) \/ Stopper(t) \/ ForceStop(t)
        \/ \E x \in Rpcs : Accept(t, x) \/ Handled(t, x)
    BY <1>1 DEF LifeNext
  <2> USE <1>1 DEF TypeOK, LifeTypeOK, SignalInv, Stopping, Goto, MainRank, HandlerRank
  <2>1. ASSUME End(t) PROVE Forward(s)
    BY <2>1 DEF End
  <2>2. CASE Launch(t) \/ Signal(t)
    BY <2>2 DEF Launch, Signal
  <2>3. CASE Boot(t) \/ Serve(t) \/ ServeTooLate(t)
    BY <2>3 DEF Boot, Serve, ServeTooLate
  <2>4. CASE ServeReturns(t) \/ AwaitServerDone(t)
    BY <2>4 DEF ServeReturns, AwaitServerDone
  <2>5. CASE BeginStop(t) \/ StopOver(t)
    BY <2>5 DEF BeginStop, StopOver
  <2>6. CASE ForceStop(t)
    BY <2>6 DEF ForceStop
  <2>7. ASSUME NEW x \in Rpcs, Accept(t, x) \/ Handled(t, x) PROVE Forward(s)
    <3>1. /\ UNCHANGED <<main, stopper, signalled, forced>>
          /\ \A y \in Rpcs : handler'[s][y] \in {handler[s][y], "none"} \/ (s = t /\ Accepts(s))
      BY <2>7 DEF Accept, Handled
    <3>2. CASE Stopping(s)
      <4>1. \A y \in Rpcs : HandlerRank(handler'[s][y]) <= HandlerRank(handler[s][y])
        BY <3>1, <3>2 DEF Accepts
      <4> QED
        BY <3>1, <3>2, <4>1
    <3>3. CASE ~Stopping(s)
      BY <3>3
    <3> QED
      BY <3>2, <3>3
  <2> QED
    BY <2>0, <2>1, <2>2, <2>3, <2>4, <2>5, <2>6, <2>7 DEF Kill, Main, BootFails, Exit, Stopper
<1>2. ASSUME SignalInv, UNCHANGED lifeVars, NEW s \in Services PROVE Forward(s)
  BY <1>2 DEF lifeVars, SignalInv, Stopping, MainRank, HandlerRank
<1>3. TypeOK /\ SignalInv /\ [Next]_vars => [\A s \in Services : Forward(s)]_vars
  BY <1>1, <1>2, PingLeavesLife DEF Live
<1> QED
  BY <1>3, TypeCorrect, SignalsKept, PTL DEF Spec, StopForward

\* What the next step of a ping waits for is there: its five seconds, a call, room for
\* a result, the last goroutine, a result or the end of the channel.
PingGoesOn ==
    ping = "receive" =>
        \/ ~expired
        \/ \E s \in Services : pinger[s] \in {"call"} \cup Outcomes
        \/ ~closed /\ \A s \in Services : pinger[s] = "done"
        \/ results # <<>>
        \/ closed /\ results = <<>>

\* How far a service is from being collected.
Stage(s) ==
    CASE pinger[s] = "call" -> 3
      [] pinger[s] \in Outcomes -> 2
      [] pinger[s] = "done" /\ \E i \in DOMAIN results : results[i][1] = s -> 1
      [] OTHER -> 0

\* During a ping no service gets farther from being collected, and each step of a
\* goroutine, and of the handler with a result, brings one nearer: nothing is asked or
\* collected twice.
PingForward ==
    [][(ping = "receive" /\ ping' = "receive") =>
          /\ \A s \in Services : Stage(s)' <= Stage(s)
          /\ (expired => expired') /\ (closed => closed')
          /\ (Receive \/ \E s \in Services : Reached(s) \/ Unreached(s) \/ Pinger(s)) =>
                \E s \in Services : Stage(s)' < Stage(s)]_vars

\* During a ping every goroutine has been started.
PingersStarted == ping = "receive" => \A s \in Services : pinger[s] # "off"

\* A ping always has a next step, whatever its services do (api.go:60-94).
THEOREM PingsNeverStuck == Spec => []PingGoesOn
<1>1. Init => PingersStarted
  BY DEF Init, PingersStarted
<1>2. TypeOK /\ PingersStarted /\ [Next]_vars => PingersStarted'
  <2> SUFFICES ASSUME TypeOK, PingersStarted, [Next]_vars PROVE PingersStarted'
    OBVIOUS
  <2> USE DEF TypeOK, PingersStarted, Become, Outcomes
  <2>1. CASE Ask \/ Leave
    BY <2>1 DEF Ask, Leave
  <2>2. CASE Deadline \/ Close \/ Receive \/ Answer
    BY <2>2 DEF Deadline, Close, Receive, Answer
  <2>3. ASSUME NEW s \in Services, Reached(s) \/ Unreached(s) \/ Pinger(s) PROVE PingersStarted'
    BY <2>3 DEF Reached, Unreached, Pinger, GivesUp, Send
  <2>4. CASE Live \/ UNCHANGED vars
    BY <2>4 DEF Live, vars, pingVars
  <2> QED
    BY <2>1, <2>2, <2>3, <2>4 DEF Next
<1>3. TypeOK /\ PingersStarted => PingGoesOn
  BY DEF TypeOK, PingersStarted, PingGoesOn
<1> QED
  BY <1>1, <1>2, <1>3, TypeCorrect, PTL DEF Spec

\* Every service is at one of four stages.
LEMMA StageTypes ==
    ASSUME NEW s \in Services
    PROVE  Stage(s) \in 0 .. 3
BY DEF Stage

\* However its services hang, die or restart, a ping never goes back (api.go:60-94).
THEOREM PingsForward == Spec => PingForward
<1> DEFINE Step == Receive \/ \E s \in Services : Reached(s) \/ Unreached(s) \/ Pinger(s)
           Forward ==
      (ping = "receive" /\ ping' = "receive") =>
          /\ \A s \in Services : Stage(s)' <= Stage(s)
          /\ (expired => expired') /\ (closed => closed')
          /\ (Receive \/ \E s \in Services : Reached(s) \/ Unreached(s) \/ Pinger(s)) =>
                \E s \in Services : Stage(s)' < Stage(s)
<1>0. \A s \in Services : Stage(s) \in 0 .. 3
  BY StageTypes
<1>1. ASSUME TypeOK, NEW s \in Services, Reached(s) \/ Unreached(s) \/ GivesUp(s) PROVE Forward
  <2>1. /\ pinger[s] = "call" /\ pinger'[s] \in Outcomes
        /\ \A t \in Services \ {s} : pinger'[t] = pinger[t]
        /\ UNCHANGED <<results, expired, closed>>
    BY <1>1 DEF Reached, Unreached, GivesUp, Become, TypeOK, Outcomes
  <2>2. Stage(s)' < Stage(s)
    BY <2>1 DEF Stage, Outcomes
  <2>3. \A t \in Services \ {s} : Stage(t)' = Stage(t)
    BY <2>1 DEF Stage
  <2>4. \A t \in Services : Stage(t)' <= Stage(t)
    <3>1. ASSUME NEW t \in Services PROVE Stage(t)' <= Stage(t)
      <4>1. Stage(t) \in 0 .. 3 /\ Stage(s) \in 0 .. 3 /\ Stage(s)' \in 0 .. 3
        BY StageTypes DEF Stage
      <4> QED
        BY <2>2, <2>3, <4>1
    <3> QED
      BY <3>1
  <2> QED
    BY <2>1, <2>2, <2>4
<1>2. ASSUME TypeOK, NEW s \in Services, Send(s) PROVE Forward
  <2> DEFINE n == Len(results)
  <2>1. /\ n \in Nat /\ DOMAIN results = 1..n /\ DOMAIN results' = 1..(n + 1)
        /\ \A i \in 1..n : results'[i] = results[i]
        /\ results'[n + 1] = <<s, pinger[s]>>
    BY <1>2 DEF Send, TypeOK
  <2>2. /\ pinger[s] \in Outcomes /\ pinger'[s] = "done"
        /\ \A t \in Services \ {s} : pinger'[t] = pinger[t]
        /\ UNCHANGED <<expired, closed>>
    BY <1>2 DEF Send, Become, TypeOK
  <2>3. Stage(s)' < Stage(s)
    <3>1. Stage(s) = 2
      BY <2>2 DEF Stage, Outcomes
    <3>2. Stage(s)' \in 0 .. 1
      BY <2>2 DEF Stage, Outcomes
    <3> QED
      BY <3>1, <3>2
  <2>4. ASSUME NEW t \in Services \ {s} PROVE Stage(t)' = Stage(t)
    <3>1. (\E i \in DOMAIN results' : results'[i][1] = t) <=> (\E i \in DOMAIN results : results[i][1] = t)
      <4> HIDE DEF n
      <4>1. \A i \in 1..(n + 1) : i \in 1..n \/ i = n + 1
        BY <2>1
      <4>2. 1..n \subseteq 1..(n + 1)
        BY <2>1
      <4>3. results'[n + 1][1] # t
        BY <2>1
      <4> QED
        BY <2>1, <4>1, <4>2, <4>3
    <3> QED
      BY <2>2, <3>1 DEF Stage
  <2>5. \A t \in Services : Stage(t)' <= Stage(t)
    <3>1. ASSUME NEW t \in Services PROVE Stage(t)' <= Stage(t)
      <4>1. Stage(t) \in 0 .. 3 /\ Stage(s) \in 0 .. 3 /\ Stage(s)' \in 0 .. 3
        BY StageTypes DEF Stage
      <4> QED
        BY <2>3, <2>4, <4>1
    <3> QED
      BY <3>1
  <2> QED
    BY <2>2, <2>3, <2>5
<1>3. ASSUME TypeOK, ReportInv, Receive PROVE Forward
  <2> DEFINE n == Len(results)
  <2>0. PICK s \in Services : s = results[1][1]
    BY <1>3 DEF Receive, TypeOK
  <2>1. /\ n \in Nat \ {0} /\ DOMAIN results = 1..n /\ DOMAIN results' = 1..(n - 1)
        /\ \A i \in 1..(n - 1) : i + 1 \in 1..n /\ results'[i] = results[i + 1]
        /\ s = results[1][1] /\ 1 \in 1..n
    BY <1>3, <2>0 DEF Receive, TypeOK
  <2>2. UNCHANGED <<pinger, expired, closed>> /\ pinger[s] = "done"
    BY <1>3, <2>1 DEF Receive, ReportInv, ChannelInv
  <2>3. \A i \in 1..(n - 1) : results'[i][1] # s
    <3> SUFFICES ASSUME NEW i \in 1..(n - 1), results'[i][1] = s PROVE FALSE
      OBVIOUS
    <3>1. i + 1 \in 1..n /\ results[i + 1][1] = results[1][1]
      BY <2>1
    <3>2. i + 1 = 1
      BY <1>3, <2>1, <3>1 DEF ReportInv, ChannelInv
    <3> QED
      BY <2>1, <3>2
  <2>4. \A t \in Services : (\E i \in DOMAIN results' : results'[i][1] = t) =>
                              (\E i \in DOMAIN results : results[i][1] = t)
    BY <2>1
  <2> HIDE DEF n
  <2>5. \A t \in Services : Stage(t)' <= Stage(t)
    BY <2>2, <2>4 DEF Stage, Outcomes
  <2>6. Stage(s)' < Stage(s)
    <3>1. Stage(s) = 1
      <4>1. \E i \in DOMAIN results : results[i][1] = s
        BY <2>1
      <4> QED
        BY <2>2, <4>1 DEF Stage, Outcomes
    <3>2. Stage(s)' = 0
      <4>1. pinger'[s] = "done" /\ ~\E i \in DOMAIN results' : results'[i][1] = s
        BY <2>1, <2>2, <2>3
      <4> QED
        BY <4>1 DEF Stage, Outcomes
    <3> QED
      BY <3>1, <3>2
  <2> QED
    BY <2>1, <2>2, <2>5, <2>6
<1>4. ASSUME Deadline \/ Close, ~Step PROVE Forward
  <2>1. UNCHANGED <<pinger, results>> /\ (expired => expired') /\ (closed => closed')
    BY <1>4 DEF Deadline, Close
  <2>2. \A s \in Services : Stage(s)' = Stage(s)
    BY <2>1 DEF Stage
  <2> QED
    BY <1>0, <1>4, <2>1, <2>2
<1>5. ASSUME Live \/ UNCHANGED vars, ~Step PROVE Forward
  <2>1. UNCHANGED <<pinger, results, expired, closed>>
    BY <1>5 DEF Live, vars, pingVars
  <2>2. \A s \in Services : Stage(s)' = Stage(s)
    BY <2>1 DEF Stage
  <2> QED
    BY <1>0, <1>5, <2>1, <2>2
<1>6. ASSUME Ask \/ Answer \/ Leave PROVE Forward
  BY <1>6 DEF Ask, Answer, Leave
<1>7. TypeOK /\ ReportInv /\ [Next]_vars => [Forward]_vars
  BY <1>1, <1>2, <1>3, <1>4, <1>5, <1>6 DEF Next, Pinger
<1> QED
  BY <1>7, TypeCorrect, ReportsKept, PTL DEF Spec, PingForward
=============================================================================
