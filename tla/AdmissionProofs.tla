--------------------------- MODULE AdmissionProofs ---------------------------
(***************************************************************************)
(* The semaphore and the bucket of Admission, for any number of requests   *)
(* and any limits.                                                         *)
(***************************************************************************)
EXTENDS Admission, FiniteSetTheorems, TLAPS

\* Whatever rate is configured, the bucket lets somebody pass at once and no
\* more than a second's requests: the integer division takes at most a quarter
\* (rate.go:13).
THEOREM BurstBounds == Burst \in 1..SearchRate
<1>1. SearchRate \in Nat \ {0}
  BY LimitsAssumption
<1>2. (SearchRate * 25) \div 100 \in 0..(SearchRate - 1)
  BY <1>1
<1>3. QED
  BY <1>1, <1>2 DEF Burst

\* The same in full: what the integers leave are three quarters, rounded up.
LEMMA BurstRounded == Burst \in Int /\ 3 * SearchRate <= 4 * Burst /\ 4 * Burst < 3 * SearchRate + 4
<1> DEFINE q == (SearchRate * 25) \div 100
<1>1. SearchRate \in Nat
  BY LimitsAssumption
<1>2. q \in Int /\ 100 * q <= SearchRate * 25 /\ SearchRate * 25 < 100 * q + 100
  BY <1>1
<1>3. Burst = SearchRate - q
  BY DEF Burst
<1> HIDE DEF q
<1>4. QED
  BY <1>1, <1>2, <1>3

-----------------------------------------------------------------------------
(* The semaphore.                                                           *)

Holders == {r \in Requests : at[r] = "serve" /\ route[r] = "search"}

\* Only a request for isearch waits for a token.
WaitersRate == \A r \in Requests : at[r] = "wait" => route[r] = "isearch"

Inv == TypeOK /\ WaitersRate /\ sema = Cardinality(Holders)

LEMMA HoldersFinite == IsFiniteSet(Holders) /\ Cardinality(Holders) \in Nat
  BY RequestsAssumption, FS_Subset, FS_CardinalityType DEF Holders

LEMMA InitInv == Init => Inv
<1> SUFFICES ASSUME Init PROVE Inv
  OBVIOUS
<1>1. Burst \in 1..SearchRate
  BY BurstBounds
<1>2. TypeOK
  <2>1. sema \in 0..SearchConcurrency /\ tokens \in -TimeoutQueue..Burst
    BY <1>1, LimitsAssumption DEF Init
  <2>2. /\ delay \in [Requests -> 0..TimeoutQueue]
        /\ left \in [Requests -> 0..TimeoutQueue]
    BY LimitsAssumption DEF Init
  <2>3. /\ gone \in [Requests -> BOOLEAN] /\ handled \in [Requests -> BOOLEAN]
        /\ stopped \in BOOLEAN
    BY DEF Init
  <2>4. QED
    BY <2>1, <2>2, <2>3 DEF Init, TypeOK, Routes
<1>3. WaitersRate
  BY DEF Init, WaitersRate
<1>4. Holders = {}
  BY DEF Init, Holders
<1>5. sema = Cardinality(Holders)
  BY <1>4, FS_EmptySet DEF Init
<1>6. QED
  BY <1>2, <1>3, <1>5 DEF Inv

\* A step keeps the invariant when it keeps types and either leaves the semaphore
\* and its holders alone or changes both by one request.
LEMMA SlotKept ==
  ASSUME Inv, TypeOK', WaitersRate', sema' = sema, Holders' = Holders
  PROVE  Inv'
  BY DEF Inv

LEMMA SlotTaken ==
  ASSUME Inv, TypeOK', WaitersRate', sema' = sema + 1,
         NEW r \in Requests, r \notin Holders, Holders' = Holders \cup {r}
  PROVE  Inv'
<1>1. Cardinality(Holders') = Cardinality(Holders) + 1
  BY HoldersFinite, FS_AddElement
<1>2. QED
  BY <1>1 DEF Inv

LEMMA SlotGiven ==
  ASSUME Inv, TypeOK', WaitersRate', sema' = sema - 1,
         NEW r \in Requests, r \in Holders, Holders' = Holders \ {r}
  PROVE  Inv'
<1>1. Cardinality(Holders') = Cardinality(Holders) - 1
  BY HoldersFinite, FS_RemoveElement
<1>2. QED
  BY <1>1 DEF Inv

\* A request that holds a slot: there is one in the channel.
LEMMA HeldSlot ==
  ASSUME Inv, NEW r \in Requests, r \in Holders
  PROVE  sema > 0
<1>1. Cardinality(Holders) # 0
  BY HoldersFinite, FS_EmptySet
<1>2. QED
  BY <1>1, HoldersFinite DEF Inv

-----------------------------------------------------------------------------
LEMMA StepInv == Inv /\ [Next]_vars => Inv'
<1> SUFFICES ASSUME Inv, [Next]_vars PROVE Inv'
  OBVIOUS
<1> USE DEF Inv
<1>b. Burst \in 1..SearchRate /\ SearchRate \in Nat \ {0}
      /\ SearchConcurrency \in Nat /\ TimeoutQueue \in Nat
  BY BurstBounds, LimitsAssumption
<1>1. ASSUME NEW r \in Requests, Acquire(r) PROVE Inv'
  <2>1. TypeOK'
    BY <1>1, <1>b DEF Acquire, Enter, Goto, TypeOK, waitVars, processVars
  <2>2. WaitersRate'
    BY <1>1 DEF Acquire, Enter, Goto, TypeOK, WaitersRate
  <2>3. r \notin Holders /\ Holders' = Holders \cup {r}
    BY <1>1 DEF Acquire, Enter, Goto, TypeOK, Holders
  <2>4. sema' = sema + 1
    BY <1>1 DEF Acquire
  <2>5. QED
    BY <2>1, <2>2, <2>3, <2>4, SlotTaken
<1>2. ASSUME NEW r \in Requests, Unavailable(r) \/ Abandon(r) \/ TooMany(r) PROVE Inv'
  <2>1. TypeOK'
    BY <1>2, <1>b DEF Unavailable, Abandon, TooMany, Reply, Goto, TypeOK, waitVars, processVars
  <2>2. WaitersRate'
    BY <1>2 DEF Unavailable, Abandon, TooMany, Reply, Goto, TypeOK, WaitersRate
  <2>3. sema' = sema /\ Holders' = Holders
    BY <1>2 DEF Unavailable, Abandon, TooMany, Reply, Goto, TypeOK, Holders
  <2>4. QED
    BY <2>1, <2>2, <2>3, SlotKept
<1>3. ASSUME NEW r \in Requests, PassNow(r) \/ Pass(r) PROVE Inv'
  <2>1. TypeOK'
    BY <1>3, <1>b DEF PassNow, Pass, Enter, WaitOver, Goto, TypeOK, waitVars, processVars
  <2>2. WaitersRate'
    BY <1>3 DEF PassNow, Pass, Enter, Goto, TypeOK, WaitersRate
  <2>3. route[r] = "isearch" /\ at[r] # "serve"
    BY <1>3 DEF PassNow, Pass, WaitersRate
  <2>4. sema' = sema /\ Holders' = Holders
    BY <1>3, <2>3 DEF PassNow, Pass, Enter, Goto, TypeOK, Holders
  <2>5. QED
    BY <2>1, <2>2, <2>4, SlotKept
<1>4. ASSUME NEW r \in Requests, Reserve(r) PROVE Inv'
  <2>1. TypeOK'
    BY <1>4, <1>b DEF Reserve, Goto, TypeOK, waitVars, processVars
  <2>2. WaitersRate'
    BY <1>4 DEF Reserve, Goto, TypeOK, WaitersRate
  <2>3. sema' = sema /\ Holders' = Holders
    BY <1>4 DEF Reserve, Goto, TypeOK, Holders
  <2>4. QED
    BY <2>1, <2>2, <2>3, SlotKept
<1>5. ASSUME NEW r \in Requests, TimesOut(r) \/ GiveUp(r) PROVE Inv'
  <2>1. TypeOK'
    <3>1. CASE TimesOut(r)
      BY <3>1, <1>b DEF TimesOut, Reply, WaitOver, Goto, TypeOK, processVars
    <3>2. CASE GiveUp(r)
      <4>1. tokens' \in -TimeoutQueue..Burst
        BY <3>2, <1>b DEF GiveUp, Refund, TypeOK
      <4>2. QED
        BY <3>2, <4>1, <1>b DEF GiveUp, Reply, WaitOver, Goto, TypeOK, processVars
    <3>3. QED
      BY <1>5, <3>1, <3>2
  <2>2. WaitersRate'
    BY <1>5 DEF TimesOut, GiveUp, Reply, Goto, TypeOK, WaitersRate
  <2>3. sema' = sema /\ Holders' = Holders
    BY <1>5 DEF TimesOut, GiveUp, Reply, Goto, TypeOK, Holders
  <2>4. QED
    BY <2>1, <2>2, <2>3, SlotKept
<1>6. ASSUME NEW r \in Requests, Serve(r) PROVE Inv'
  <2>1. route[r] = "search" => r \in Holders /\ sema > 0
    BY <1>6, HeldSlot DEF Serve, Holders
  <2>2. TypeOK'
    BY <1>6, <1>b, <2>1 DEF Serve, Goto, TypeOK, waitVars, processVars
  <2>3. WaitersRate'
    BY <1>6 DEF Serve, Goto, TypeOK, WaitersRate
  <2>4. CASE route[r] = "search"
    <3>1. Holders' = Holders \ {r}
      BY <1>6 DEF Serve, Goto, TypeOK, Holders
    <3>2. sema' = sema - 1
      BY <1>6, <2>4 DEF Serve
    <3>3. QED
      BY <2>1, <2>2, <2>3, <2>4, <3>1, <3>2, SlotGiven
  <2>5. CASE route[r] # "search"
    <3>1. sema' = sema /\ Holders' = Holders
      BY <1>6, <2>5 DEF Serve, Goto, TypeOK, Holders
    <3>2. QED
      BY <2>2, <2>3, <3>1, SlotKept
  <2>6. QED
    BY <2>4, <2>5
<1>7. ASSUME NEW r \in Requests, Arrive(r) \/ ClientGone(r) \/ Depart(r) PROVE Inv'
  <2>1. TypeOK'
    <3>1. CASE Arrive(r)
      BY <3>1, <1>b DEF Arrive, Goto, TypeOK, waitVars, processVars
    <3>2. CASE ClientGone(r)
      BY <3>2, <1>b DEF ClientGone, TypeOK, waitVars, processVars
    <3>3. CASE Depart(r)
      BY <3>3, <1>b DEF Depart, Routes, Goto, TypeOK, waitVars, processVars
    <3>4. QED
      BY <1>7, <3>1, <3>2, <3>3
  <2>2. WaitersRate'
    BY <1>7 DEF Arrive, ClientGone, Depart, Goto, TypeOK, WaitersRate
  <2>3. sema' = sema /\ Holders' = Holders
    BY <1>7 DEF Arrive, ClientGone, Depart, Goto, TypeOK, Holders
  <2>4. QED
    BY <2>1, <2>2, <2>3, SlotKept
<1>8. CASE Tick
  <2>1. \A r \in Requests : /\ delay'[r] \in 0..TimeoutQueue
                            /\ left'[r] \in 0..TimeoutQueue
    BY <1>8, <1>b DEF Tick, TypeOK
  <2>2. delay' \in [Requests -> 0..TimeoutQueue] /\ left' \in [Requests -> 0..TimeoutQueue]
    BY <1>8, <2>1 DEF Tick
  <2>3. TypeOK'
    BY <1>8, <1>b, <2>2 DEF Tick, TypeOK, requestVars, processVars
  <2>4. WaitersRate' /\ sema' = sema /\ Holders' = Holders
    BY <1>8 DEF Tick, WaitersRate, Holders, requestVars
  <2>5. QED
    BY <2>3, <2>4, SlotKept
<1>9. CASE Stop \/ Shutdown \/ Restart
  <2>1. TypeOK'
    <3>1. CASE Stop
      BY <3>1, <1>b DEF Stop, TypeOK, requestVars, waitVars
    <3>2. CASE Shutdown
      BY <3>2, <1>b DEF Shutdown, TypeOK, requestVars, waitVars
    <3>3. CASE Restart
      BY <3>3, <1>b DEF Restart, TypeOK, requestVars, waitVars
    <3>4. QED
      BY <1>9, <3>1, <3>2, <3>3
  <2>2. WaitersRate' /\ sema' = sema /\ Holders' = Holders
    BY <1>9 DEF Stop, Shutdown, Restart, WaitersRate, Holders, requestVars
  <2>3. QED
    BY <2>1, <2>2, SlotKept
<1>10. ASSUME NEW fate \in {"cut", "killed"}, End(fate) PROVE Inv'
  <2>1. TypeOK'
    BY <1>10, <1>b DEF End, TypeOK, InFlight
  <2>2. WaitersRate' /\ Holders' = {}
    BY <1>10 DEF End, WaitersRate, Holders, InFlight, TypeOK
  <2>3. sema' = Cardinality(Holders')
    BY <1>10, <2>2, FS_EmptySet DEF End
  <2>4. QED
    BY <2>1, <2>2, <2>3
<1>11. CASE UNCHANGED vars
  BY <1>11 DEF vars, requestVars, waitVars, processVars, TypeOK, WaitersRate, Holders
<1>12. QED
  BY <1>1, <1>2, <1>3, <1>4, <1>5, <1>6, <1>7, <1>8, <1>9, <1>10, <1>11
     DEF Next, Request, Admit, Exit, Kill

THEOREM Invariance == Spec => []Inv
  BY InitInv, StepInv, PTL DEF Spec

\* Every variable keeps its type, and with it sema and tokens their bounds: no
\* more than SearchConcurrency searches run, and no more tokens are promised than
\* can come within the timeout.
THEOREM TypeCorrect == Spec => []TypeOK
<1>1. Inv => TypeOK
  BY DEF Inv
<1>2. QED
  BY <1>1, Invariance, PTL

\* No slot is lost or made up, for any number of requests and slots.
THEOREM SlotsCorrect == Spec => []SlotsCounted
<1>1. Inv => SlotsCounted
  BY DEF Inv, SlotsCounted, Holders
<1>2. QED
  BY <1>1, Invariance, PTL

-----------------------------------------------------------------------------
(* The answers.                                                             *)

\* What the steps of a request do to the answer of any other: nothing.
LEMMA OthersKeep ==
  ASSUME TypeOK, NEW q \in Requests, NEW s, Goto(q, s), NEW r \in Requests, Replied(r)
  PROVE  r = q
  BY DEF TypeOK, Goto, Replied

LEMMA StepAnswers ==
  ASSUME TypeOK, [Next]_vars, NEW r \in Requests,
         Replied(r), status'[r] = 200, ~ContextDone(r)
  PROVE  handled'[r]
<1>1. ASSUME NEW q \in Requests, Admit(q) PROVE handled'[r]
  <2>1. q = r
    BY <1>1, OthersKeep DEF Admit, Acquire, Unavailable, Abandon, PassNow, Reserve,
       TooMany, Pass, TimesOut, GiveUp, Reply, Enter
  <2>2. CASE Unavailable(r) \/ TooMany(r) \/ TimesOut(r)
    <3>1. status'[r] # 200
      BY <2>2 DEF Unavailable, TooMany, TimesOut, Reply, TypeOK
    <3>2. QED
      BY <3>1
  <2>3. CASE Abandon(r) \/ GiveUp(r)
    BY <2>3 DEF Abandon, GiveUp
  <2>4. CASE Acquire(r) \/ PassNow(r) \/ Reserve(r) \/ Pass(r)
    BY <2>4 DEF Acquire, PassNow, Reserve, Pass, Enter, Goto, Replied, TypeOK
  <2>5. QED
    BY <1>1, <2>1, <2>2, <2>3, <2>4 DEF Admit
<1>2. ASSUME NEW q \in Requests, Serve(q) PROVE handled'[r]
  <2>1. q = r
    BY <1>2, OthersKeep DEF Serve
  <2>2. QED
    BY <1>2, <2>1 DEF Serve, TypeOK
<1>3. ASSUME NEW q \in Requests, Arrive(q) \/ ClientGone(q) \/ Depart(q) PROVE handled'[r]
  BY <1>3 DEF Arrive, ClientGone, Depart, Goto, Replied, TypeOK
<1>4. CASE Tick \/ Stop \/ Shutdown \/ Exit \/ Kill \/ Restart
  BY <1>4 DEF Tick, Stop, Shutdown, Exit, Kill, End, Restart, requestVars, Replied, TypeOK
<1>5. CASE UNCHANGED vars
  BY <1>5 DEF vars, requestVars, Replied
<1>6. QED
  BY <1>1, <1>2, <1>3, <1>4, <1>5 DEF Next, Request

\* No client that waits reads a 200 the handler did not write, unless the gateway
\* is being stopped.
THEOREM AnswersCorrect == Spec => OkMeansHandled
<1>1. TypeOK /\ [Next]_vars =>
        [\A r \in Requests :
          (Replied(r) /\ status'[r] = 200 /\ ~ContextDone(r)) => handled'[r]]_vars
  BY StepAnswers
<1>2. QED
  BY <1>1, TypeCorrect, PTL DEF Spec, OkMeansHandled

-----------------------------------------------------------------------------
(* The token bucket: promises are kept apart, and the rate is bounded.      *)


Waits(r) == at[r] = "wait"

\* RateBounded is not inductive.  What may start now without a tick in between is
\* a request that finds a token, or the one that waits for no more ticks.
RateInv ==
    /\ PromisesDistinct
    /\ level <= Burst
    /\ tokens >= 0 => level + tokens <= Burst
    /\ \A r \in Requests : (Waits(r) /\ delay[r] = 0) => level < Burst

\* What TypeOK and LimitsAssumption say of the numbers.
Numbers ==
    /\ Burst \in Nat /\ Burst >= 1 /\ TimeoutQueue \in Nat
    /\ tokens \in Int /\ tokens <= Burst /\ level \in Nat
    /\ \A r \in Requests : delay[r] \in Nat /\ left[r] \in Nat

LEMMA NumbersHold ==
  ASSUME TypeOK
  PROVE  Numbers
<1>1. Burst \in Nat /\ Burst >= 1
  BY BurstBounds, LimitsAssumption
<1>2. QED
  BY <1>1, LimitsAssumption DEF TypeOK, Numbers

\* A step after which no more requests wait than before, with their timers as they
\* were, and which leaves the bucket alone.
LEMMA BucketKept ==
  ASSUME TypeOK, RateInv,
         tokens' = tokens, level' = level,
         \A r \in Requests : Waits(r)' => Waits(r) /\ delay'[r] = delay[r] /\ left'[r] = left[r]
  PROVE  RateInv'
  BY NumbersHold DEF RateInv, PromisesDistinct, Waits, Numbers, Burst

LEMMA StepRate ==
  ASSUME TypeOK, RateInv, [Next]_vars
  PROVE  RateInv'
<1> USE DEF Waits
<1>n. Numbers
  BY NumbersHold
<1>1. ASSUME NEW r \in Requests,
             Acquire(r) \/ Unavailable(r) \/ Abandon(r) \/ TooMany(r) \/ Serve(r)
               \/ Arrive(r) \/ ClientGone(r) \/ Depart(r)
      PROVE  RateInv'
  <2>1. tokens' = tokens /\ level' = level /\ delay' = delay /\ left' = left
    BY <1>1 DEF Acquire, Unavailable, Abandon, TooMany, Serve, Arrive, ClientGone,
       Depart, waitVars
  <2>2. \A q \in Requests : at'[q] = "wait" => at[q] = "wait"
    BY <1>1 DEF Acquire, Unavailable, Abandon, TooMany, Serve, Arrive, ClientGone,
       Depart, Enter, Reply, Goto, TypeOK
  <2>3. QED
    BY <2>1, <2>2, BucketKept
<1>2. ASSUME NEW r \in Requests, TimesOut(r)
      PROVE  RateInv'
  <2>1. tokens' = tokens /\ level' = level
    BY <1>2 DEF TimesOut
  <2>2. \A q \in Requests : at'[q] = "wait" =>
          at[q] = "wait" /\ delay'[q] = delay[q] /\ left'[q] = left[q]
    BY <1>2 DEF TimesOut, Reply, WaitOver, Goto, TypeOK
  <2>3. QED
    BY <2>1, <2>2, BucketKept
<1>3. ASSUME NEW r \in Requests, PassNow(r)
      PROVE  RateInv'
  <2>1. /\ tokens >= 1 /\ tokens' = tokens - 1 /\ level' = level + 1
        /\ delay' = delay /\ left' = left
    BY <1>3 DEF PassNow, waitVars
  <2>2. \A q \in Requests : at[q] # "wait"
    BY <1>n, <2>1 DEF RateInv, PromisesDistinct, Numbers
  <2>3. \A q \in Requests : at'[q] # "wait"
    BY <1>3, <2>2 DEF PassNow, Enter, Goto, TypeOK
  <2>4. level' <= Burst /\ level' + tokens' <= Burst
    BY <1>n, <2>1 DEF RateInv, Numbers
  <2>5. QED
    BY <2>3, <2>4 DEF RateInv, PromisesDistinct, Burst
<1>4. ASSUME NEW r \in Requests, Reserve(r)
      PROVE  RateInv'
  <2>1. /\ tokens < 1 /\ 1 - tokens <= TimeoutQueue /\ at[r] = "enter"
        /\ tokens' = tokens - 1 /\ level' = level
    BY <1>4 DEF Reserve
  <2>2. at'[r] = "wait" /\ delay'[r] = 1 - tokens /\ left'[r] = TimeoutQueue
    BY <1>4 DEF Reserve, Goto, TypeOK
  <2>3. \A q \in Requests : q # r =>
          at'[q] = at[q] /\ delay'[q] = delay[q] /\ left'[q] = left[q]
    BY <1>4 DEF Reserve, Goto, TypeOK
  <2>4. PromisesDistinct'
    BY <1>n, <2>1, <2>2, <2>3 DEF RateInv, PromisesDistinct, Numbers
  <2>5. level' <= Burst /\ tokens' < 0
    BY <1>n, <2>1 DEF RateInv, Numbers
  <2>6. \A q \in Requests : (at'[q] = "wait" /\ delay'[q] = 0) => level' < Burst
    BY <1>n, <2>1, <2>2, <2>3 DEF RateInv, Numbers
  <2>7. QED
    BY <1>n, <2>1, <2>4, <2>5, <2>6 DEF RateInv, Numbers, Burst
<1>5. ASSUME NEW r \in Requests, Pass(r)
      PROVE  RateInv'
  <2>1. at[r] = "wait" /\ delay[r] = 0 /\ tokens' = tokens /\ level' = level + 1
    BY <1>5 DEF Pass
  <2>2. \A q \in Requests : at'[q] = "wait" =>
          q # r /\ at[q] = "wait" /\ delay'[q] = delay[q] /\ left'[q] = left[q]
    BY <1>5 DEF Pass, Enter, WaitOver, Goto, TypeOK
  <2>3. tokens <= 0 /\ level < Burst
    BY <1>n, <2>1 DEF RateInv, PromisesDistinct, Numbers
  <2>4. PromisesDistinct'
    BY <2>1, <2>2 DEF RateInv, PromisesDistinct
  <2>5. \A q \in Requests : at'[q] = "wait" => delay'[q] # 0
    BY <2>1, <2>2 DEF RateInv, PromisesDistinct
  <2>6. level' <= Burst /\ (tokens' >= 0 => level' + tokens' <= Burst)
    BY <1>n, <2>1, <2>3 DEF Numbers
  <2>7. QED
    BY <2>4, <2>5, <2>6 DEF RateInv, Burst
<1>6. ASSUME NEW r \in Requests, GiveUp(r)
      PROVE  RateInv'
  <2>1. \A q \in Requests : at'[q] = "wait" =>
          q # r /\ at[q] = "wait" /\ delay'[q] = delay[q] /\ left'[q] = left[q]
    BY <1>6 DEF GiveUp, Reply, WaitOver, Goto, TypeOK
  <2>2. level' = level
    BY <1>6 DEF GiveUp
  <2>3. CASE Refund(r)
    <3>1. tokens' = tokens + 1 /\ at[r] = "wait" /\ delay[r] > 0 /\ delay[r] = -tokens
      BY <1>6, <2>3 DEF GiveUp, Refund
    <3>2. \A q \in Requests : at'[q] = "wait" => delay'[q] <= -tokens'
      BY <1>n, <2>1, <3>1 DEF RateInv, PromisesDistinct, Numbers
    <3>3. PromisesDistinct'
      BY <2>1, <3>2 DEF RateInv, PromisesDistinct
    <3>4. level' <= Burst /\ (tokens' >= 0 => level' + tokens' <= Burst)
      BY <1>n, <2>2, <3>1 DEF RateInv, Numbers
    <3>5. QED
      BY <2>1, <2>2, <3>3, <3>4 DEF RateInv, Burst
  <2>4. CASE ~Refund(r)
    <3>1. tokens' = tokens
      BY <1>6, <2>4 DEF GiveUp
    <3>2. QED
      BY <2>1, <2>2, <3>1, BucketKept
  <2>5. QED
    BY <2>3, <2>4
<1>7. CASE Tick
  <2>1. \A q \in Requests : at[q] = "wait" =>
          /\ delay[q] > 0 /\ left[q] > 0
          /\ delay'[q] = delay[q] - 1 /\ left'[q] = left[q] - 1
    BY <1>7 DEF Tick
  <2>2. /\ tokens' = IF tokens < Burst THEN tokens + 1 ELSE tokens
        /\ level' = IF level > 0 THEN level - 1 ELSE level
        /\ at' = at
    BY <1>7 DEF Tick, requestVars
  <2>3. \A q \in Requests : at[q] = "wait" => tokens < 0 /\ tokens' = tokens + 1
    BY <1>n, <2>1, <2>2 DEF RateInv, PromisesDistinct, Numbers
  <2>4. PromisesDistinct'
    BY <1>n, <2>1, <2>2, <2>3 DEF RateInv, PromisesDistinct, Numbers
  <2>5. level' <= Burst /\ (tokens' >= 0 => level' + tokens' <= Burst) /\ level' < Burst
    BY <1>n, <2>2 DEF RateInv, Numbers
  <2>6. QED
    BY <2>4, <2>5 DEF RateInv, Burst
<1>8. CASE Exit \/ Kill
  <2>1. tokens' = Burst /\ level' = 0 /\ \A q \in Requests : at'[q] # "wait"
    BY <1>8 DEF Exit, Kill, End, InFlight
  <2>2. QED
    BY <1>n, <2>1 DEF RateInv, PromisesDistinct, Numbers, Burst
<1>9. CASE Stop \/ Shutdown \/ Restart \/ UNCHANGED vars
  <2>1. tokens' = tokens /\ level' = level /\ delay' = delay /\ left' = left /\ at' = at
    BY <1>9 DEF Stop, Shutdown, Restart, vars, requestVars, waitVars
  <2>2. QED
    BY <2>1, BucketKept
<1>10. QED
  BY <1>1, <1>2, <1>3, <1>4, <1>5, <1>6, <1>7, <1>8, <1>9 DEF Next, Request, Admit

LEMMA InitRate == Init => RateInv
  BY BurstBounds, LimitsAssumption
     DEF Init, RateInv, PromisesDistinct, Waits, Burst

LEMMA RateInvariance == Spec => []RateInv
  BY InitRate, StepRate, TypeCorrect, PTL DEF Spec

\* In a span of n ticks at most n index searches start and three quarters of a
\* second's, whatever rate and timeout are configured and however many requests
\* come, wait or give up.
THEOREM RateCorrect == Spec => []RateBounded
<1>1. TypeOK /\ RateInv => RateBounded
  BY BurstRounded, LimitsAssumption DEF TypeOK, RateInv, RateBounded
<1>2. QED
  BY <1>1, RateInvariance, TypeCorrect, PTL

\* No two waiting requests hold the same promise, and none waits beyond its timeout.
THEOREM PromisesCorrect == Spec => []PromisesDistinct
<1>1. RateInv => PromisesDistinct
  BY DEF RateInv
<1>2. QED
  BY <1>1, RateInvariance, PTL
=============================================================================
