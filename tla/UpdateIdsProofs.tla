--------------------------- MODULE UpdateIdsProofs ---------------------------
(***************************************************************************)
(* Where the ids of an update go: from the goal through todo and the       *)
(* workers' jobs to a row or to skipped, for any calls, workers and ids;   *)
(* and that every operation can always go on and has only so far to go.    *)
(***************************************************************************)
EXTENDS UpdateServiceProofs, FiniteSetTheorems, WellFoundedInduction

-----------------------------------------------------------------------------
(* What a step does to the ids.                                             *)

\* A worker without an id has no job.
JobsIdle ==
    \A c \in Calls, w \in Workers :
        at[c][w] \in {"off", "recv", "done"} => job[c][w] = NoJob

\* A step of one call, or of its goroutines, leaves the others alone.
Untouched(d) ==
    /\ pc'[d] = pc[d] /\ exist'[d] = exist[d] /\ cancelled'[d] = cancelled[d]
    /\ gdone'[d] = gdone[d] /\ gerr'[d] = gerr[d] /\ feeding'[d] = feeding[d]
    /\ goal'[d] = goal[d] /\ todo'[d] = todo[d] /\ skipped'[d] = skipped[d]
    /\ late'[d] = late[d] /\ at'[d] = at[d] /\ job'[d] = job[d] /\ try'[d] = try[d]

CallStep(c) ==
    BeginUpdate(c) \/ BeginDrop(c) \/ Refuse(c) \/ Cancel(c) \/ Call(c) \/ FeederEnds(c)

LEMMA CallLeavesOthers ==
    ASSUME TypeOK, NEW c \in Calls, CallStep(c), NEW d \in Calls \ {c}
    PROVE  Untouched(d)
<1> USE DEF TypeOK, Untouched, Goto, Finish, shared, callVars, groupVars, workerVars
<1>1. CASE BeginUpdate(c) \/ BeginDrop(c) \/ Refuse(c) \/ Refused(c)
  BY <1>1 DEF BeginUpdate, BeginDrop, Acquire, Refuse, Refused
<1>2. CASE Cancel(c) \/ FeederEnds(c)
  BY <1>2 DEF Cancel, FeederEnds
<1>3. CASE ReadIDs(c) \/ ReadFails(c)
  BY <1>3 DEF ReadIDs, ReadFails
<1>4. CASE ReadLastID(c)
  BY <1>4 DEF ReadLastID
<1>5. CASE WaitOk(c) \/ WaitFails(c)
  BY <1>5 DEF WaitOk, WaitFails, Joined
<1>6. CASE SendUpdate(c) \/ SendDrop(c) \/ TruncateOk(c) \/ TruncateFails(c)
  BY <1>6 DEF SendUpdate, SendDrop, SendEvent, TruncateOk, TruncateFails
<1>7. CASE Return(c)
  BY <1>7 DEF Return
<1> QED
  BY <1>1, <1>2, <1>3, <1>4, <1>5, <1>6, <1>7 DEF CallStep, Call

\* The four things a step of worker w of call c can do with an id.
Keeps(c, w) ==
    /\ UNCHANGED <<comics, todo, skipped>>
    /\ job'[c][w] = job[c][w]
    /\ at[c][w] \in {"off", "recv", "done"} <=> at'[c][w] \in {"off", "recv", "done"}

Takes(c, w) ==
    /\ UNCHANGED <<comics, skipped>>
    /\ feeding[c] /\ at[c][w] = "recv" /\ at'[c][w] = "fetch"
    /\ job'[c][w] \in todo[c]
    /\ todo'[c] = todo[c] \ {job'[c][w]}

Skips(c, w) ==
    /\ UNCHANGED <<comics, todo>>
    /\ at[c][w] \in {"fetch", "backoff", "norm"}
    /\ skipped'[c] = skipped[c] \cup ({job[c][w]} \ {0})
    /\ \/ at'[c][w] = "recv" /\ job'[c][w] = NoJob
       \/ at'[c][w] = "norm" /\ job'[c][w] = 0

Stores(c, w) ==
    /\ UNCHANGED <<todo, skipped>>
    /\ at[c][w] \in {"store", "blank"} /\ job'[c][w] = NoJob
    /\ \/ at'[c][w] = "recv" /\ comics' = comics \cup {job[c][w]}
       \/ at'[c][w] = "done" /\ gerr'[c] /\ comics' \in {comics, comics \cup {job[c][w]}}

\* What the worker leaves alone.
Beside(c, w) ==
    /\ UNCHANGED <<pc, exist, cancelled, feeding, goal>>
    /\ \A d \in Calls \ {c} : Untouched(d)
    /\ \A v \in Workers \ {w} :
          at'[c][v] = at[c][v] /\ job'[c][v] = job[c][v] /\ try'[c][v] = try[c][v]
    /\ gerr[c] => gerr'[c]
    /\ gdone'[c] # gdone[c] => gerr'[c]
    /\ at'[c][w] = "done" => ~feeding[c] \/ gerr'[c]

LEMMA WorkerMovesIds ==
    ASSUME TypeInv, JobsIdle, NEW c \in Calls, NEW w \in Workers, Worker(c, w)
    PROVE  /\ Keeps(c, w) \/ Takes(c, w) \/ Skips(c, w) \/ Stores(c, w)
           /\ Beside(c, w)
<1> USE DEF TypeInv, TypeOK, JobsTyped, JobsIdle, Move, Become, NextJob, GiveUp,
            shared, callVars, groupVars, workerVars, Untouched, Beside
<1>1. CASE Feed(c, w)
  BY <1>1 DEF Feed, Takes
<1>2. CASE WorkerExits(c, w)
  BY <1>2 DEF WorkerExits, Keeps
<1>3. CASE Fetched(c, w)
  <2>1. PICK k \in {job[c][w], 0} :
          /\ job' = [job EXCEPT ![c][w] = k]
          /\ skipped' = [skipped EXCEPT ![c] = IF k = 0 THEN @ \cup {job[c][w]} ELSE @]
    BY <1>3 DEF Fetched
  <2>2. job[c][w] \in Ids /\ 0 \notin Ids
    BY <1>3 DEF Fetched, Ids
  <2>3. CASE k = 0
    BY <1>3, <2>1, <2>2, <2>3 DEF Fetched, Skips
  <2>4. CASE k # 0
    BY <1>3, <2>1, <2>2, <2>4 DEF Fetched, Keeps
  <2> QED
    BY <2>3, <2>4
<1>4. CASE FetchFails(c, w) \/ FetchNotFound(c, w) \/ BackoffElapsed(c, w) \/ Normed(c, w)
  BY <1>4 DEF FetchFails, FetchNotFound, BackoffElapsed, Normed, Keeps
<1>5. CASE FetchExhausted(c, w) \/ BackoffCancelled(c, w)
  <2>1. job[c][w] \in Ids /\ 0 \notin Ids
    BY <1>5 DEF FetchExhausted, BackoffCancelled, Ids
  <2> QED
    BY <1>5, <2>1 DEF FetchExhausted, BackoffCancelled, Skips
<1>6. CASE NormFails(c, w)
  BY <1>6 DEF NormFails, Skips
<1>7. CASE Stored(c, w)
  BY <1>7 DEF Stored, CountLate, Stores
<1>8. CASE StoreFails(c, w)
  BY <1>8 DEF StoreFails, CountLate, Stores
<1> QED
  BY <1>1, <1>2, <1>3, <1>4, <1>5, <1>6, <1>7, <1>8 DEF Worker

\* The invariant about idle workers is kept by each of these.
LEMMA JobsIdleKept ==
    ASSUME LockInv, JobsIdle, [Next]_vars
    PROVE  JobsIdle'
<1> USE DEF LockInv, TypeInv, TypeOK, JobsIdle
<1>1. ASSUME NEW c \in Calls, CallStep(c) PROVE JobsIdle'
  <2>1. \A d \in Calls \ {c} : at'[d] = at[d] /\ job'[d] = job[d]
    BY <1>1, CallLeavesOthers DEF Untouched
  <2>2. ASSUME NEW w \in Workers, at'[c][w] \in {"off", "recv", "done"}
        PROVE  job'[c][w] = NoJob
    <3>1. CASE ReadLastID(c)
      BY <3>1 DEF ReadLastID, WorkersAwaited
    <3>2. CASE WaitOk(c) \/ WaitFails(c)
      BY <3>2 DEF WaitOk, WaitFails, Joined
    <3>3. CASE ~ReadLastID(c) /\ ~WaitOk(c) /\ ~WaitFails(c)
      <4>1. UNCHANGED <<at, job>>
        BY <1>1, <3>3 DEF CallStep, Call, BeginUpdate, BeginDrop, Acquire, Refuse, Cancel, FeederEnds,
             Refused, ReadIDs, ReadFails, SendUpdate, SendDrop, SendEvent, TruncateOk,
             TruncateFails, Return, workerVars
      <4> QED
        BY <2>2, <4>1
    <3> QED
      BY <3>1, <3>2, <3>3
  <2> HIDE DEF LockInv, TypeInv, TypeOK
  <2>3. ASSUME NEW d \in Calls, NEW w \in Workers, at'[d][w] \in {"off", "recv", "done"}
        PROVE  job'[d][w] = NoJob
    <3>1. CASE d = c
      BY <2>2, <2>3, <3>1
    <3>2. CASE d # c
      BY <2>1, <2>3, <3>2
    <3> QED
      BY <3>1, <3>2
  <2> QED
    BY <2>3
<1>2. ASSUME NEW c \in Calls, NEW w \in Workers, Worker(c, w) PROVE JobsIdle'
  <2>1. Beside(c, w) /\ (at'[c][w] \in {"off", "recv", "done"} => job'[c][w] = NoJob)
    <3> HIDE DEF LockInv, TypeInv, TypeOK
    <3>1. TypeInv /\ JobsIdle
      BY DEF LockInv
    <3>2. /\ Keeps(c, w) \/ Takes(c, w) \/ Skips(c, w) \/ Stores(c, w)
          /\ Beside(c, w)
      <4> HIDE DEF JobsIdle
      <4> QED
        BY <1>2, <3>1, WorkerMovesIds
    <3> QED
      BY <3>2 DEF Keeps, Takes, Skips, Stores
  <2>2. ASSUME NEW d \in Calls, NEW v \in Workers, at'[d][v] \in {"off", "recv", "done"}
        PROVE  job'[d][v] = NoJob
    <3>1. CASE d = c /\ v = w
      BY <2>1, <2>2, <3>1
    <3>2. CASE d # c \/ v # w
      BY <2>1, <2>2, <3>2 DEF Beside, Untouched
    <3> QED
      BY <3>1, <3>2
  <2> QED
    BY <2>2
<1>3. CASE Crash
  BY <1>3 DEF Crash
<1>4. CASE UNCHANGED vars
  BY <1>4 DEF vars, workerVars
<1> QED
  BY <1>1, <1>2, <1>3, <1>4 DEF Next, CallStep

-----------------------------------------------------------------------------
(* What was given up on is missing.                                         *)

\* In an update, an id is in at most one place: in todo, with one worker, in a
\* row or in skipped.
Apart(c) ==
    /\ todo[c] \cap (comics \cup skipped[c]) = {}
    /\ \A w \in Workers : job[c][w] \in Ids => job[c][w] \notin comics \cup skipped[c] \cup todo[c]
    /\ \A v, w \in Workers : v # w /\ job[c][w] \in Ids => job[c][v] # job[c][w]

MissingOf(c) ==
    /\ pc[c] \notin {"Wait", "SendUpdate", "Return"} => skipped[c] = {}
    /\ pc[c] = "LastID" => exist[c] = comics
    /\ pc[c] = "Wait" => Apart(c)
    /\ skipped[c] \cap comics = {}

\* A step of the call itself.
LEMMA CallKeepsMissing ==
    ASSUME LockInv, JobsIdle, NEW c \in Calls, MissingOf(c), CallStep(c)
    PROVE  MissingOf(c)'
<1> USE DEF LockInv, TypeInv, TypeOK, MissingOf, Goto, Finish, shared, callVars, groupVars, workerVars
<1>1. CASE BeginUpdate(c) \/ BeginDrop(c) \/ Refuse(c) \/ Refused(c)
  BY <1>1 DEF BeginUpdate, BeginDrop, Acquire, Refuse, Refused
<1>2. CASE Cancel(c) \/ FeederEnds(c)
  BY <1>2 DEF Cancel, FeederEnds, Apart
<1>3. CASE ReadIDs(c) \/ ReadFails(c)
  BY <1>3 DEF ReadIDs, ReadFails
<1>4. CASE ReadLastID(c)
  <2>1. \A w \in Workers : job'[c][w] = NoJob
    BY <1>4 DEF ReadLastID, WorkersAwaited, JobsIdle
  <2>2. NoJob \notin Ids
    BY BoundsAssumption DEF NoJob, Ids
  <2>3. todo'[c] \cap comics = {} /\ skipped'[c] = {} /\ comics' = comics
    BY <1>4 DEF ReadLastID
  <2> QED
    BY <1>4, <2>1, <2>2, <2>3 DEF ReadLastID, Apart
<1>5. CASE WaitOk(c) \/ WaitFails(c)
  BY <1>5 DEF WaitOk, WaitFails, Joined
<1>6. CASE SendUpdate(c) \/ SendDrop(c) \/ TruncateOk(c) \/ TruncateFails(c)
  BY <1>6 DEF SendUpdate, SendDrop, SendEvent, TruncateOk, TruncateFails, Become
<1>7. CASE Return(c)
  BY <1>7 DEF Return
<1> QED
  BY <1>1, <1>2, <1>3, <1>4, <1>5, <1>6, <1>7 DEF CallStep, Call

\* A step of one of its workers.
LEMMA WorkerKeepsMissing ==
    ASSUME LockInv, JobsIdle, NEW c \in Calls, MissingOf(c), NEW w \in Workers, Worker(c, w)
    PROVE  MissingOf(c)'
<1>1. pc[c] = "Wait" /\ pc'[c] = "Wait" /\ Beside(c, w)
  BY WorkerEffects, WorkerMovesIds DEF LockInv
<1>2. /\ Apart(c) /\ skipped[c] \cap comics = {}
      /\ todo[c] \subseteq Ids /\ skipped[c] \subseteq Ids
      /\ 0 \notin Ids /\ NoJob \notin Ids
      /\ \A v \in Workers \ {w} : job'[c][v] = job[c][v]
  BY <1>1, BoundsAssumption DEF MissingOf, LockInv, TypeInv, TypeOK, Beside, Ids, NoJob
<1>3. CASE Keeps(c, w)
  BY <1>1, <1>2, <1>3 DEF Keeps, MissingOf, Apart
<1>4. CASE Takes(c, w)
  BY <1>1, <1>2, <1>4 DEF Takes, MissingOf, Apart
<1>5. CASE Skips(c, w)
  <2>1. job[c][w] \in Ids \cup {0}
    BY <1>5 DEF Skips, LockInv, TypeInv, JobsTyped, Keys
  <2> QED
    BY <1>1, <1>2, <1>5, <2>1 DEF Skips, MissingOf, Apart
<1>6. CASE Stores(c, w)
  <2>1. job[c][w] \in Ids \cup {0}
    BY <1>6 DEF Stores, LockInv, TypeInv, JobsTyped, Keys
  <2> QED
    BY <1>1, <1>2, <1>6, <2>1 DEF Stores, MissingOf, Apart
<1> QED
  BY <1>3, <1>4, <1>5, <1>6, WorkerMovesIds DEF LockInv

\* The rows of the table change under one call only, and no other update counts
\* on them meanwhile.
LEMMA OthersKeepMissing ==
    ASSUME LockInv, NEW c \in Calls, NEW d \in Calls \ {c}, MissingOf(d), Untouched(d),
           comics' = comics \/ c \in Inside
    PROVE  MissingOf(d)'
<1>1. CASE comics' = comics
  BY <1>1 DEF Untouched, MissingOf, Apart
<1>2. CASE c \in Inside
  <2>1. pc[d] \in {"idle", "busy"}
    BY <1>2, OthersOutside
  <2> QED
    BY <2>1 DEF Untouched, MissingOf
<1> QED
  BY <1>1, <1>2

MissingInv == JobsIdle /\ \A c \in Calls : MissingOf(c)

LEMMA NextKeepsMissing ==
    ASSUME LockInv, MissingInv, [Next]_vars
    PROVE  MissingInv'
<1> USE DEF MissingInv
<1>1. JobsIdle'
  BY JobsIdleKept
<1>2. ASSUME NEW c \in Calls, CallStep(c), NEW d \in Calls PROVE MissingOf(d)'
  <2>1. comics' = comics \/ c \in Inside
    BY <1>2, CallEffects DEF QuietStep, SendUpdate, SendDrop, TruncateOk, TruncateFails, Inside,
                             CallStep, LockInv, TypeInv
  <2> QED
    BY <1>2, <2>1, CallKeepsMissing, OthersKeepMissing, CallLeavesOthers DEF LockInv, TypeInv
<1>3. ASSUME NEW c \in Calls, NEW w \in Workers, Worker(c, w), NEW d \in Calls PROVE MissingOf(d)'
  <2>1. c \in Inside /\ Beside(c, w)
    BY <1>3, WorkerEffects, WorkerMovesIds DEF Inside, LockInv
  <2> QED
    BY <1>3, <2>1, WorkerKeepsMissing, OthersKeepMissing DEF Beside
<1>4. ASSUME Crash, NEW d \in Calls PROVE MissingOf(d)'
  BY <1>4 DEF Crash, MissingOf
<1>5. ASSUME UNCHANGED vars, NEW d \in Calls PROVE MissingOf(d)'
  BY <1>5 DEF vars, shared, callVars, groupVars, workerVars, MissingOf, Apart
<1> QED
  BY <1>1, <1>2, <1>3, <1>4, <1>5 DEF Next, CallStep

LEMMA MissingInvInductive ==
    /\ Init => LockInv /\ MissingInv
    /\ LockInv /\ MissingInv /\ [Next]_vars => LockInv' /\ MissingInv'
<1>1. Init => MissingInv
  BY DEF Init, MissingInv, JobsIdle, MissingOf
<1> QED
  BY <1>1, NextKeepsMissing, LockInvInductive

\* An id that was given up on has no row, whichever worker had it and whatever the
\* others store meanwhile: no id is in two places at once (service.go:69-119).
THEOREM SkippedCorrect == Spec => []SkippedStaysMissing
<1>1. MissingInv => SkippedStaysMissing
  BY DEF MissingInv, MissingOf, SkippedStaysMissing
<1> QED
  BY <1>1, MissingInvInductive, PTL DEF Spec

-----------------------------------------------------------------------------
(* What was set out for is accounted for.                                   *)

\* In an update that nothing has ended early, every id is somewhere; and once the
\* feeder is gone, or the workers are, no id is left with it.
Somewhere(c) ==
    \A i \in goal[c] : \/ i \in comics \cup skipped[c] \cup todo[c]
                       \/ \E w \in Workers : job[c][w] = i

AccountOf(c) ==
    /\ ~feeding[c] => todo[c] = {}
    /\ pc[c] = "Wait" =>
          /\ gdone[c] => gerr[c]
          /\ \A w \in Workers : at[c][w] = "done" => ~feeding[c] \/ gerr[c]
          /\ ~cancelled[c] /\ ~gerr[c] => Somewhere(c)
    /\ (pc[c] = "SendUpdate" /\ ~cancelled[c]) => goal[c] \subseteq comics \cup skipped[c]

\* A step of the call itself; the errgroup is joined with nothing left over.
LEMMA CallKeepsAccount ==
    ASSUME LockInv, JobsIdle, NEW c \in Calls, AccountOf(c), CallStep(c)
    PROVE  AccountOf(c)'
<1> USE DEF LockInv, TypeInv, TypeOK, AccountOf, Goto, Finish, shared, callVars, groupVars, workerVars
<1>1. CASE BeginUpdate(c) \/ BeginDrop(c) \/ Refuse(c) \/ Refused(c)
  BY <1>1 DEF BeginUpdate, BeginDrop, Acquire, Refuse, Refused
<1>2. CASE Cancel(c)
  BY <1>2 DEF Cancel
<1>3. CASE FeederEnds(c)
  BY <1>3 DEF FeederEnds, GDone, Somewhere
<1>4. CASE ReadIDs(c) \/ ReadFails(c)
  BY <1>4 DEF ReadIDs, ReadFails
<1>5. CASE ReadLastID(c)
  BY <1>5 DEF ReadLastID, Somewhere
<1>6. CASE WaitOk(c)
  <2>1. /\ pc[c] = "Wait" /\ ~gerr[c] /\ \A w \in Workers : at[c][w] = "done"
        /\ pc'[c] = "SendUpdate" /\ UNCHANGED <<comics, cancelled, feeding, goal, todo, skipped>>
    BY <1>6 DEF WaitOk, Joined
  <2>2. todo[c] = {}
    BY <2>1, WorkersAssumption
  <2>3. \A i \in goal[c], w \in Workers : job[c][w] # i
    <3>1. goal[c] \subseteq Ids /\ NoJob \notin Ids
      BY BoundsAssumption DEF Ids, NoJob
    <3> QED
      BY <2>1, <3>1 DEF JobsIdle
  <2> QED
    BY <2>1, <2>2, <2>3 DEF Somewhere
<1>7. CASE WaitFails(c)
  BY <1>7 DEF WaitFails, Joined
<1>8. CASE SendUpdate(c) \/ SendDrop(c) \/ TruncateOk(c) \/ TruncateFails(c)
  BY <1>8 DEF SendUpdate, SendDrop, SendEvent, TruncateOk, TruncateFails
<1>9. CASE Return(c)
  BY <1>9 DEF Return
<1> QED
  BY <1>1, <1>2, <1>3, <1>4, <1>5, <1>6, <1>7, <1>8, <1>9 DEF CallStep, Call

\* A step of one of its workers: the id it lets go of is in a row or in skipped.
LEMMA WorkerKeepsAccount ==
    ASSUME LockInv, JobsIdle, NEW c \in Calls, AccountOf(c), NEW w \in Workers, Worker(c, w)
    PROVE  AccountOf(c)'
<1>1. pc[c] = "Wait" /\ pc'[c] = "Wait" /\ Beside(c, w)
  BY WorkerEffects, WorkerMovesIds DEF LockInv
<1>2. /\ gerr \in [Calls -> BOOLEAN] /\ goal[c] \subseteq Ids
      /\ 0 \notin Ids /\ NoJob \notin Ids
      /\ \A v \in Workers \ {w} : job'[c][v] = job[c][v] /\ at'[c][v] = at[c][v]
      /\ goal'[c] = goal[c] /\ feeding'[c] = feeding[c] /\ cancelled'[c] = cancelled[c]
  BY <1>1, BoundsAssumption DEF LockInv, TypeInv, TypeOK, Beside, Ids, NoJob
<1>3. /\ (~feeding[c] => todo[c] = {})'
      /\ (gdone[c] => gerr[c])'
      /\ (\A v \in Workers : at[c][v] = "done" => ~feeding[c] \/ gerr[c])'
  <2>1. ~feeding[c] => todo'[c] = {}
    BY <1>1, WorkerMovesIds DEF LockInv, AccountOf, Keeps, Takes, Skips, Stores
  <2> QED
    BY <1>1, <1>2, <2>1 DEF AccountOf, Beside
<1>4. ASSUME ~cancelled'[c], ~gerr'[c] PROVE Somewhere(c)'
  <2>1. Somewhere(c)
    BY <1>1, <1>2, <1>4 DEF AccountOf, Beside
  <2>2. CASE Keeps(c, w)
    BY <1>2, <2>1, <2>2 DEF Keeps, Somewhere
  <2>3. CASE Takes(c, w)
    <3>1. job[c][w] = NoJob
      BY <2>3 DEF Takes, JobsIdle
    <3> QED
      BY <1>2, <2>1, <2>3, <3>1 DEF Takes, Somewhere
  <2>4. CASE Skips(c, w)
    BY <1>2, <2>1, <2>4 DEF Skips, Somewhere
  <2>5. CASE Stores(c, w)
    BY <1>2, <1>4, <2>1, <2>5 DEF Stores, Somewhere
  <2> QED
    BY <2>2, <2>3, <2>4, <2>5, WorkerMovesIds DEF LockInv
<1> QED
  BY <1>1, <1>3, <1>4 DEF AccountOf

LEMMA OthersKeepAccount ==
    ASSUME LockInv, NEW c \in Calls, NEW d \in Calls \ {c}, AccountOf(d), Untouched(d),
           comics' = comics \/ c \in Inside
    PROVE  AccountOf(d)'
<1>1. CASE comics' = comics
  BY <1>1 DEF Untouched, AccountOf, Somewhere
<1>2. CASE c \in Inside
  <2>1. pc[d] \in {"idle", "busy"}
    BY <1>2, OthersOutside
  <2> QED
    BY <2>1 DEF Untouched, AccountOf
<1> QED
  BY <1>1, <1>2

AccountInv == \A c \in Calls : AccountOf(c)

LEMMA NextKeepsAccount ==
    ASSUME LockInv, JobsIdle, AccountInv, [Next]_vars
    PROVE  AccountInv'
<1> USE DEF AccountInv
<1>1. ASSUME NEW c \in Calls, CallStep(c), NEW d \in Calls PROVE AccountOf(d)'
  <2>1. comics' = comics \/ c \in Inside
    BY <1>1, CallEffects DEF QuietStep, SendUpdate, SendDrop, TruncateOk, TruncateFails, Inside,
                             CallStep, LockInv, TypeInv
  <2> QED
    BY <1>1, <2>1, CallKeepsAccount, OthersKeepAccount, CallLeavesOthers DEF LockInv, TypeInv
<1>2. ASSUME NEW c \in Calls, NEW w \in Workers, Worker(c, w), NEW d \in Calls PROVE AccountOf(d)'
  <2>1. c \in Inside /\ Beside(c, w)
    BY <1>2, WorkerEffects, WorkerMovesIds DEF Inside, LockInv
  <2> QED
    BY <1>2, <2>1, WorkerKeepsAccount, OthersKeepAccount DEF Beside
<1>3. ASSUME Crash, NEW d \in Calls PROVE AccountOf(d)'
  BY <1>3 DEF Crash, AccountOf
<1>4. ASSUME UNCHANGED vars, NEW d \in Calls PROVE AccountOf(d)'
  BY <1>4 DEF vars, shared, callVars, groupVars, workerVars, AccountOf, Somewhere
<1> QED
  BY <1>1, <1>2, <1>3, <1>4 DEF Next, CallStep

\* When an update whose context stayed alive hands over its event, every id it set
\* out for has a row or was given up on: the feeder and the workers lose none, for
\* any number of them (service.go:69-100).
THEOREM AccountCorrect == Spec => []EveryIdAccounted
<1>1. Init => AccountInv
  BY DEF Init, AccountInv, AccountOf
<1>2. AccountInv => EveryIdAccounted
  BY DEF AccountInv, AccountOf, EveryIdAccounted
<1>3. LockInv /\ MissingInv /\ AccountInv /\ [Next]_vars => AccountInv'
  BY NextKeepsAccount DEF MissingInv
<1> QED
  BY <1>1, <1>2, <1>3, MissingInvInductive, PTL DEF Spec

-----------------------------------------------------------------------------
(* What comes late is bounded.                                              *)

Storing(c) == {w \in Workers : at[c][w] \in {"store", "blank"}}

\* Before gCtx is done nothing is late; from then on whoever is late was storing,
\* and nobody else can come to store.
LateOf(c) ==
    /\ pc[c] \notin {"Wait", "SendUpdate", "Return"} => late[c] = 0
    /\ pc[c] = "Wait" => IF GDone(c) THEN late[c] + Cardinality(Storing(c)) <= Cardinality(Workers)
                                     ELSE late[c] = 0
    /\ late[c] <= Cardinality(Workers)

\* Of a finite set, part by part.
LEMMA StoringBounded ==
    ASSUME NEW c \in Calls
    PROVE  /\ IsFiniteSet(Storing(c)) /\ Cardinality(Storing(c)) \in Nat
           /\ Cardinality(Workers) \in Nat
           /\ Cardinality(Storing(c)) <= Cardinality(Workers)
<1>1. Storing(c) \subseteq Workers
  BY DEF Storing
<1> QED
  BY <1>1, WorkersAssumption, FS_Subset, FS_CardinalityType

LEMMA CallKeepsLate ==
    ASSUME LockInv, NEW c \in Calls, LateOf(c), CallStep(c)
    PROVE  LateOf(c)'
<1> USE StoringBounded DEF LockInv, TypeInv, TypeOK, LateOf, GDone, Goto, Finish,
        shared, callVars, groupVars, workerVars
<1>1. CASE BeginUpdate(c) \/ BeginDrop(c) \/ Refuse(c) \/ Refused(c)
  BY <1>1 DEF BeginUpdate, BeginDrop, Acquire, Refuse, Refused
<1>2. CASE Cancel(c) \/ FeederEnds(c)
  <2>1. Storing(c)' = Storing(c) /\ UNCHANGED <<pc, late, gdone>> /\ (GDone(c) => GDone(c)')
    BY <1>2 DEF Cancel, FeederEnds, Storing
  <2> HIDE DEF LockInv, GDone
  <2>2. late[c] \in Nat
    BY DEF LockInv
  <2> QED
    BY <2>1, <2>2
<1>3. CASE ReadIDs(c) \/ ReadFails(c)
  BY <1>3 DEF ReadIDs, ReadFails
<1>4. CASE ReadLastID(c)
  BY <1>4 DEF ReadLastID
<1>5. CASE WaitOk(c) \/ WaitFails(c)
  BY <1>5 DEF WaitOk, WaitFails, Joined
<1>6. CASE SendUpdate(c) \/ SendDrop(c) \/ TruncateOk(c) \/ TruncateFails(c)
  BY <1>6 DEF SendUpdate, SendDrop, SendEvent, TruncateOk, TruncateFails
<1>7. CASE Return(c)
  BY <1>7 DEF Return
<1> QED
  BY <1>1, <1>2, <1>3, <1>4, <1>5, <1>6, <1>7 DEF CallStep, Call

\* A worker either leaves late alone, and once gCtx is done does not come to
\* store, or it stores and is no longer storing.
LEMMA WorkerCounts ==
    ASSUME LockInv, NEW c \in Calls, NEW w \in Workers, Worker(c, w)
    PROVE  \/ /\ late' = late /\ UNCHANGED <<gdone, cancelled>>
              /\ GDone(c) => Storing(c)' = Storing(c)
           \/ /\ w \in Storing(c) /\ Storing(c)' = Storing(c) \ {w}
              /\ late'[c] = IF GDone(c) THEN late[c] + 1 ELSE late[c]
              /\ GDone(c) => GDone(c)'
<1> USE DEF LockInv, TypeInv, TypeOK, Move, GDone, Storing, NextJob, GiveUp,
        shared, callVars, groupVars, workerVars
<1>1. CASE Feed(c, w) \/ WorkerExits(c, w)
  BY <1>1 DEF Feed, WorkerExits
<1>2. CASE Fetched(c, w) \/ FetchFails(c, w) \/ FetchNotFound(c, w) \/ FetchExhausted(c, w)
  BY <1>2 DEF Fetched, FetchFails, FetchNotFound, FetchExhausted
<1>3. CASE BackoffElapsed(c, w) \/ BackoffCancelled(c, w)
  BY <1>3 DEF BackoffElapsed, BackoffCancelled
<1>4. CASE Normed(c, w) \/ NormFails(c, w)
  BY <1>4 DEF Normed, NormFails
<1>5. CASE Stored(c, w) \/ StoreFails(c, w)
  BY <1>5 DEF Stored, StoreFails, CountLate
<1> QED
  BY <1>1, <1>2, <1>3, <1>4, <1>5 DEF Worker

LEMMA WorkerKeepsLate ==
    ASSUME LockInv, NEW c \in Calls, LateOf(c), NEW w \in Workers, Worker(c, w)
    PROVE  LateOf(c)'
<1>1. pc[c] = "Wait" /\ pc'[c] = "Wait"
  BY WorkerEffects
<1>2. /\ late[c] \in Nat /\ late[c] <= Cardinality(Workers)
      /\ IF GDone(c) THEN late[c] + Cardinality(Storing(c)) <= Cardinality(Workers)
                     ELSE late[c] = 0
  BY <1>1 DEF LateOf, LockInv, TypeInv, TypeOK
<1>3. /\ IsFiniteSet(Storing(c)) /\ Cardinality(Storing(c)) \in Nat
      /\ Cardinality(Workers) \in Nat
      /\ Cardinality(Storing(c)) <= Cardinality(Workers)
  BY StoringBounded
<1>4. CASE /\ late' = late /\ UNCHANGED <<gdone, cancelled>>
           /\ GDone(c) => Storing(c)' = Storing(c)
  <2>1. GDone(c)' = GDone(c)
    BY <1>4 DEF GDone
  <2> QED
    BY <1>1, <1>2, <1>4, <2>1 DEF LateOf
<1>5. CASE /\ w \in Storing(c) /\ Storing(c)' = Storing(c) \ {w}
           /\ late'[c] = IF GDone(c) THEN late[c] + 1 ELSE late[c]
           /\ GDone(c) => GDone(c)'
  <2>1. Cardinality(Storing(c)') = Cardinality(Storing(c)) - 1
    BY <1>3, <1>5, FS_RemoveElement
  <2> DEFINE n == Cardinality(Storing(c)) m == Cardinality(Workers) l == late[c]
  <2>2. CASE GDone(c)
    <3>1. l + n <= m /\ late'[c] = l + 1 /\ Cardinality(Storing(c)') = n - 1 /\ GDone(c)'
      BY <1>2, <1>5, <2>1, <2>2
    <3>2. n - 1 \in Nat
      BY <1>5, <2>1, <1>3, FS_RemoveElement, FS_CardinalityType
    <3>3. (l + 1) + (n - 1) <= m /\ l + 1 <= m
      BY ONLY <1>2, <1>3, <3>1, <3>2
    <3> QED
      BY <1>1, <3>1, <3>3 DEF LateOf
  <2>3. CASE ~GDone(c)
    <3>1. late'[c] = 0 /\ 0 + Cardinality(Storing(c)') <= m /\ 0 <= m
      BY <1>2, <1>3, <1>5, <2>1, <2>3
    <3> QED
      BY <1>1, <3>1 DEF LateOf
  <2> QED
    BY <2>2, <2>3
<1> QED
  BY <1>4, <1>5, WorkerCounts

LateInv == \A c \in Calls : LateOf(c)

LEMMA NextKeepsLate ==
    ASSUME LockInv, JobsIdle, LateInv, [Next]_vars
    PROVE  LateInv'
<1> USE DEF LateInv
<1>1. ASSUME NEW d \in Calls, LateOf(d), Untouched(d) PROVE LateOf(d)'
  BY <1>1 DEF Untouched, LateOf, GDone, Storing
<1>2. ASSUME NEW c \in Calls, CallStep(c), NEW d \in Calls PROVE LateOf(d)'
  BY <1>1, <1>2, CallKeepsLate, CallLeavesOthers DEF LockInv, TypeInv
<1>3. ASSUME NEW c \in Calls, NEW w \in Workers, Worker(c, w), NEW d \in Calls PROVE LateOf(d)'
  <2>1. Beside(c, w)
    BY <1>3, WorkerMovesIds DEF LockInv
  <2> QED
    BY <1>1, <1>3, <2>1, WorkerKeepsLate DEF Beside
<1>4. ASSUME Crash, NEW d \in Calls PROVE LateOf(d)'
  BY <1>4, StoringBounded DEF Crash, LateOf
<1>5. ASSUME UNCHANGED vars, NEW d \in Calls PROVE LateOf(d)'
  BY <1>5 DEF vars, callVars, groupVars, workerVars, LateOf, GDone, Storing
<1> QED
  BY <1>2, <1>3, <1>4, <1>5 DEF Next, CallStep

\* Once an update is cancelled or a worker has failed, at most one row for each
\* worker is still stored, however many workers there are (service.go:108, 123, 135).
THEOREM LateRowsCorrect == Spec => []LateRowsBounded
<1>1. Init => LateInv
  BY StoringBounded DEF Init, LateInv, LateOf
<1>2. LateInv => LateRowsBounded
  BY DEF LateInv, LateOf, LateRowsBounded
<1>3. LockInv /\ MissingInv /\ LateInv /\ [Next]_vars => LateInv'
  BY NextKeepsLate DEF MissingInv
<1> QED
  BY <1>1, <1>2, <1>3, MissingInvInductive, PTL DEF Spec

-----------------------------------------------------------------------------
(* An operation can always go on, and not for ever.                         *)

\* The goroutines of the call: the one that serves it, its feeder, its workers.
OwnStep(c) == Call(c) \/ FeederEnds(c) \/ \E w \in Workers : Worker(c, w)

\* One of them can go on: what its next step waits for is there.
CanStep(c) ==
    \/ pc[c] \in {"busy", "IDs", "LastID", "SendUpdate", "Drop", "SendDrop", "Return"}
    \/ pc[c] = "Wait" /\ \A w \in Workers : at[c][w] = "done"
    \/ feeding[c] /\ (todo[c] = {} \/ GDone(c))
    \/ \E w \in Workers :
          \/ at[c][w] \in {"fetch", "backoff", "norm", "store", "blank"}
          \/ at[c][w] = "recv" /\ ~feeding[c]
          \/ at[c][w] = "recv" /\ feeding[c] /\ \E i \in todo[c] : \A j \in todo[c] : i <= j

\* No call ever hangs, nor does a feeder that outlives its call: not with a worker
\* gone and the feeder at its send, not with the channel closed, not after a cancel
\* (service.go:66-100).
NeverStuck == \A c \in Calls : (pc[c] # "idle" \/ feeding[c]) => CanStep(c)

\* How many more steps a worker can take with the id it has.
Turn == 2 * MaxAttempts + 2

StepsAt(state, attempt) ==
    CASE state \in {"off", "done"} -> 0
      [] state = "recv" -> 1
      [] state \in {"store", "blank"} -> 2
      [] state = "norm" -> 3
      [] state = "fetch" -> Turn - 2 * attempt
      [] state = "backoff" -> Turn - 1 - 2 * attempt

Ahead(c) == [w \in Workers |-> StepsAt(at[c][w], try[c][w])]

\* So many of each worker, one by one.
Each(ahead) == {s \in Workers \X (1 .. Turn) : s[2] <= ahead[s[1]]}

\* How many more the call itself can take, those of workers that are not yet started
\* included.
CallSteps(state) ==
    CASE state = "idle" -> 0
      [] state \in {"busy", "Return"} -> 1
      [] state \in {"SendUpdate", "SendDrop"} -> 2
      [] state \in {"Wait", "Drop"} -> 3
      [] state = "LastID" -> 5 + Turn * MaxId + Cardinality(Workers)
      [] state = "IDs" -> 6 + Turn * MaxId + Cardinality(Workers)

StepsLeft(c) ==
    CallSteps(pc[c]) + (IF feeding[c] THEN 1 ELSE 0)
        + Turn * Cardinality(todo[c]) + Cardinality(Each(Ahead(c)))

\* Each step of its own brings a call nearer to its end, and nothing takes it away from
\* there, neither its client nor another call: it ends within StepsLeft steps.
AlwaysNearer ==
    [][\A c \in Calls :
          /\ StepsLeft(c) \in Nat
          /\ OwnStep(c) => StepsLeft(c)' < StepsLeft(c)
          /\ (pc[c] # "idle" \/ feeding[c]) => StepsLeft(c)' <= StepsLeft(c)]_vars

-----------------------------------------------------------------------------
\* Outside of g.Wait() the errgroup's context is done; inside every worker runs or
\* has run.
GroupOf(c) ==
    /\ pc[c] # "Wait" => gdone[c]
    /\ pc[c] = "Wait" => \A w \in Workers : at[c][w] # "off"

GroupInv == \A c \in Calls : GroupOf(c)

\* Every step keeps that.
LEMMA NextKeepsGroup ==
    ASSUME LockInv, JobsIdle, GroupInv, [Next]_vars
    PROVE  GroupInv'
<1> USE DEF GroupInv
<1>1. ASSUME NEW d \in Calls, GroupOf(d), Untouched(d) PROVE GroupOf(d)'
  BY <1>1 DEF Untouched, GroupOf
<1>2. ASSUME NEW c \in Calls, CallStep(c) PROVE GroupOf(c)'
  <2> USE DEF LockInv, TypeInv, TypeOK, GroupOf, Goto, Finish, shared, callVars, groupVars, workerVars
  <2>1. CASE BeginUpdate(c) \/ BeginDrop(c) \/ Refuse(c) \/ Refused(c)
    BY <2>1 DEF BeginUpdate, BeginDrop, Acquire, Refuse, Refused
  <2>2. CASE Cancel(c) \/ FeederEnds(c)
    BY <2>2 DEF Cancel, FeederEnds
  <2>3. CASE ReadIDs(c) \/ ReadFails(c)
    BY <2>3 DEF ReadIDs, ReadFails
  <2>4. CASE ReadLastID(c)
    BY <2>4 DEF ReadLastID
  <2>5. CASE WaitOk(c) \/ WaitFails(c)
    BY <2>5 DEF WaitOk, WaitFails, Joined
  <2>6. CASE SendUpdate(c) \/ SendDrop(c) \/ TruncateOk(c) \/ TruncateFails(c)
    BY <2>6 DEF SendUpdate, SendDrop, SendEvent, TruncateOk, TruncateFails
  <2>7. CASE Return(c)
    BY <2>7 DEF Return
  <2> QED
    BY <1>2, <2>1, <2>2, <2>3, <2>4, <2>5, <2>6, <2>7 DEF CallStep, Call
<1>3. ASSUME NEW c \in Calls, NEW w \in Workers, Worker(c, w) PROVE GroupOf(c)'
  <2>1. pc[c] = "Wait" /\ pc'[c] = "Wait" /\ Beside(c, w)
    BY <1>3, WorkerEffects, WorkerMovesIds DEF LockInv
  <2>2. at'[c][w] # "off"
    BY <1>3 DEF Worker, Feed, WorkerExits, Fetched, FetchFails, FetchNotFound, FetchExhausted,
                BackoffElapsed, BackoffCancelled, Normed, NormFails, Stored, StoreFails, GiveUp,
                NextJob, Move, LockInv, TypeInv, TypeOK
  <2> QED
    BY <2>1, <2>2 DEF GroupOf, Beside
<1>4. ASSUME NEW c \in Calls, CallStep(c), NEW d \in Calls PROVE GroupOf(d)'
  BY <1>1, <1>2, <1>4, CallLeavesOthers DEF LockInv, TypeInv
<1>5. ASSUME NEW c \in Calls, NEW w \in Workers, Worker(c, w), NEW d \in Calls PROVE GroupOf(d)'
  <2>1. Beside(c, w)
    BY <1>5, WorkerMovesIds DEF LockInv
  <2> QED
    BY <1>1, <1>3, <1>5, <2>1 DEF Beside
<1>6. ASSUME Crash, NEW d \in Calls PROVE GroupOf(d)'
  BY <1>6 DEF Crash, GroupOf
<1>7. ASSUME UNCHANGED vars, NEW d \in Calls PROVE GroupOf(d)'
  BY <1>7 DEF vars, callVars, groupVars, workerVars, GroupOf
<1> QED
  BY <1>4, <1>5, <1>6, <1>7 DEF Next, CallStep

\* Of ids that are left there is a smallest, the one the feeder sends.
LEMMA SmallestId ==
    ASSUME NEW S \in SUBSET Ids, S # {}
    PROVE  \E i \in S : \A j \in S : i <= j
<1>1. S \subseteq Nat
  BY DEF Ids
<1>2. PICK i \in S : \A j \in S : ~(<<j, i>> \in OpToRel(<, Nat))
  BY <1>1, NatLessThanWellFounded, WFMin, Zenon
<1>3. \A j \in S : ~(j < i)
  BY <1>1, <1>2 DEF OpToRel
<1> QED
  BY <1>1, <1>3

\* One goroutine of a call that is under way can always go on, so no call waits for
\* ever, and none for another one, for any number of workers (service.go:66-100).
THEOREM CallsNeverStuck == Spec => []NeverStuck
<1>1. Init => GroupInv
  BY DEF Init, GroupInv, GroupOf
<1>2. LockInv /\ GroupInv => NeverStuck
  <2> SUFFICES ASSUME LockInv, GroupInv, NEW c \in Calls, pc[c] # "idle" \/ feeding[c], ~CanStep(c)
               PROVE  FALSE
    BY DEF NeverStuck
  <2>1. pc[c] \in CallStates /\ todo[c] \in SUBSET Ids /\ \A w \in Workers : at[c][w] \in WorkerStates
    BY DEF LockInv, TypeInv, TypeOK
  <2>2. GroupOf(c)
    BY DEF GroupInv
  <2>3. pc[c] = "Wait"
    BY <2>1, <2>2 DEF CanStep, GroupOf, GDone, CallStates
  <2>4. PICK w \in Workers : at[c][w] # "done"
    BY <2>3 DEF CanStep
  <2>5. at[c][w] = "recv"
    BY <2>1, <2>2, <2>3, <2>4 DEF CanStep, GroupOf, WorkerStates
  <2>6. feeding[c] /\ todo[c] # {}
    BY <2>5 DEF CanStep
  <2> QED
    BY <2>1, <2>5, <2>6, SmallestId DEF CanStep
<1>3. LockInv /\ MissingInv /\ GroupInv /\ [Next]_vars => GroupInv'
  BY NextKeepsGroup DEF MissingInv
<1> QED
  BY <1>1, <1>2, <1>3, MissingInvInductive, PTL DEF Spec

-----------------------------------------------------------------------------
\* Ids can be counted.
LEMMA IdsCounted ==
    ASSUME NEW S \in SUBSET Ids
    PROVE  IsFiniteSet(S) /\ Cardinality(S) \in Nat /\ Cardinality(S) <= MaxId
<1>1. MaxId \in Nat
  BY BoundsAssumption
<1>2. IsFiniteSet(1 .. MaxId) /\ Cardinality(1 .. MaxId) = MaxId
  BY <1>1, FS_Interval
<1>3. IsFiniteSet(S) /\ Cardinality(S) <= MaxId
  BY <1>2, FS_Subset DEF Ids
<1> QED
  BY <1>3, FS_CardinalityType

\* A worker has at most a turn to go.
LEMMA StepsAtTypes ==
    ASSUME NEW s \in WorkerStates, NEW t \in 0 .. MaxAttempts - 1
    PROVE  StepsAt(s, t) \in 0 .. Turn
<1>1. t \in Nat /\ t <= MaxAttempts - 1 /\ MaxAttempts \in Nat
  BY BoundsAssumption
<1> QED
  BY <1>1 DEF StepsAt, WorkerStates, Turn

Ranks == [Workers -> 0 .. Turn]

\* What is counted can be counted.
LEMMA EachFinite ==
    ASSUME NEW r \in Ranks
    PROVE  IsFiniteSet(Each(r)) /\ Cardinality(Each(r)) \in Nat /\ Turn \in Nat
<1>1. Turn \in Nat
  BY BoundsAssumption DEF Turn
<1>2. IsFiniteSet(1 .. Turn)
  BY <1>1, FS_Interval
<1>3. IsFiniteSet(Workers \X (1 .. Turn))
  BY <1>2, WorkersAssumption, FS_Product
<1>4. Each(r) \in SUBSET (Workers \X (1 .. Turn))
  BY DEF Each
<1>5. IsFiniteSet(Each(r))
  BY <1>3, <1>4, FS_Subset
<1> QED
  BY <1>1, <1>5, FS_CardinalityType

\* What goes down for one worker alone goes down.
LEMMA OneNearer ==
    ASSUME NEW r \in Ranks, NEW q \in Ranks, NEW w \in Workers, q[w] < r[w],
           \A v \in Workers \ {w} : q[v] = r[v]
    PROVE  Cardinality(Each(q)) < Cardinality(Each(r))
<1>1. Turn \in Nat /\ IsFiniteSet(Each(q)) /\ IsFiniteSet(Each(r))
      /\ Cardinality(Each(q)) \in Nat /\ Cardinality(Each(r)) \in Nat
  BY EachFinite
<1>2. \A v \in Workers : q[v] \in Nat /\ r[v] \in Nat /\ r[v] <= Turn /\ q[v] <= r[v]
  <2>1. \A v \in Workers : q[v] \in 0 .. Turn /\ r[v] \in 0 .. Turn
    BY DEF Ranks
  <2> QED
    BY <1>1, <2>1
<1>3. Each(q) \subseteq Each(r)
  <2> SUFFICES ASSUME NEW v \in Workers, NEW k \in 1 .. Turn, k <= q[v] PROVE k <= r[v]
    BY DEF Each
  <2> QED
    BY <1>1, <1>2
<1>4. <<w, r[w]>> \in Each(r) /\ <<w, r[w]>> \notin Each(q)
  <2>1. r[w] \in 1 .. Turn /\ ~(r[w] <= q[w])
    BY <1>1, <1>2
  <2> QED
    BY <1>1, <1>2, <2>1 DEF Each
<1> QED
  BY <1>1, <1>3, <1>4, FS_Subset

\* What goes up for one worker alone goes up by less than a turn, if it was at 1.
LEMMA OneFarther ==
    ASSUME NEW r \in Ranks, NEW q \in Ranks, NEW w \in Workers, r[w] = 1,
           \A v \in Workers \ {w} : q[v] = r[v]
    PROVE  Cardinality(Each(q)) <= Cardinality(Each(r)) + Turn - 1
<1> DEFINE N == {w} \X (2 .. Turn)
<1>1. Turn \in Nat /\ Turn >= 2 /\ IsFiniteSet(Each(q)) /\ IsFiniteSet(Each(r))
      /\ Cardinality(Each(q)) \in Nat /\ Cardinality(Each(r)) \in Nat
  BY EachFinite, BoundsAssumption DEF Turn
<1>2. IsFiniteSet(N) /\ Cardinality(N) = Turn - 1
  <2>1. IsFiniteSet({w}) /\ Cardinality({w}) = 1
    BY FS_Singleton
  <2>2. IsFiniteSet(2 .. Turn) /\ Cardinality(2 .. Turn) = Turn - 1
    <3>1. 2 \in Int /\ Turn \in Int /\ ~(2 > Turn)
      BY <1>1
    <3>2. IsFiniteSet(2 .. Turn) /\ Cardinality(2 .. Turn) = Turn - 2 + 1
      BY <3>1, FS_Interval
    <3> QED
      BY <3>1, <3>2
  <2>3. IsFiniteSet(N) /\ Cardinality(N) = Cardinality({w}) * Cardinality(2 .. Turn)
    BY <2>1, <2>2, FS_Product
  <2> QED
    BY <1>1, <2>1, <2>2, <2>3
<1>3. Each(q) \subseteq Each(r) \cup N
  <2> SUFFICES ASSUME NEW v \in Workers, NEW k \in 1 .. Turn, k <= q[v]
               PROVE  <<v, k>> \in Each(r) \cup N
    BY DEF Each
  <2>1. CASE v # w
    BY <2>1 DEF Each
  <2>2. CASE v = w /\ k = 1
    BY <1>1, <2>2 DEF Each
  <2>3. CASE v = w /\ k # 1
    <3>1. k \in 2 .. Turn
      BY <1>1, <2>3
    <3> QED
      BY <2>3, <3>1
  <2> QED
    BY <2>1, <2>2, <2>3
<1> HIDE DEF N
<1>4. /\ IsFiniteSet(Each(r) \cup N)
      /\ Cardinality(Each(r) \cup N) = Cardinality(Each(r)) + Cardinality(N) - Cardinality(Each(r) \cap N)
  BY <1>1, <1>2, FS_Union
<1>5. Cardinality(Each(r) \cap N) \in Nat
  <2>1. (Each(r) \cap N) \in SUBSET Each(r)
    OBVIOUS
  <2> QED
    BY <1>1, <2>1, FS_Subset, FS_CardinalityType
<1>6. Cardinality(Each(q)) <= Cardinality(Each(r) \cup N)
  <2>1. Each(q) \in SUBSET (Each(r) \cup N)
    BY <1>3
  <2> QED
    BY <1>4, <2>1, FS_Subset
<1> QED
  BY <1>1, <1>2, <1>4, <1>5, <1>6

\* What StepsLeft adds up to is a number.
LEMMA StepsNatural ==
    ASSUME NEW p \in CallStates, NEW b \in BOOLEAN, NEW S \in SUBSET Ids, NEW r \in Ranks
    PROVE  CallSteps(p) + (IF b THEN 1 ELSE 0) + Turn * Cardinality(S) + Cardinality(Each(r)) \in Nat
<1> DEFINE m == Cardinality(S)
           n == Cardinality(Each(r))
           u == Turn * MaxId
           W == Cardinality(Workers)
           k == CallSteps(p)
           t == Turn * m
<1>1. Turn \in Nat /\ MaxId \in Nat /\ W \in Nat /\ m \in Nat /\ n \in Nat
  BY BoundsAssumption, WorkersAssumption, FS_CardinalityType, IdsCounted, EachFinite
<1>2. \A i, j \in Nat : i * j \in Nat
  OBVIOUS
<1>3. u \in Nat /\ t \in Nat
  BY <1>1, <1>2
<1>4. k \in Nat
  <2> HIDE DEF u, W
  <2>1. 5 + u + W \in Nat /\ 6 + u + W \in Nat
    BY <1>1, <1>3
  <2> QED
    BY <2>1 DEF CallSteps, CallStates, u, W
<1> HIDE DEF m, n, t, k
<1> QED
  BY <1>1, <1>3, <1>4 DEF m, n, t, k

\* The parts of StepsLeft are numbers.
LEMMA StepsTypes ==
    ASSUME TypeInv, NEW c \in Calls
    PROVE  /\ Turn \in Nat /\ Turn = 2 * MaxAttempts + 2 /\ MaxId \in Nat /\ Cardinality(Workers) \in Nat
           /\ Ahead(c) \in Ranks
           /\ Cardinality(Each(Ahead(c))) \in Nat
           /\ IsFiniteSet(todo[c]) /\ Cardinality(todo[c]) \in Nat /\ Cardinality(todo[c]) <= MaxId
           /\ Turn * Cardinality(todo[c]) \in Nat
           /\ Turn * MaxId \in Nat
           /\ CallSteps(pc[c]) \in Nat
<1>1. Turn \in Nat /\ Turn = 2 * MaxAttempts + 2 /\ MaxId \in Nat /\ Cardinality(Workers) \in Nat
  BY BoundsAssumption, WorkersAssumption, FS_CardinalityType DEF Turn
<1>3. Ahead(c) \in Ranks
  BY StepsAtTypes DEF Ahead, Ranks, TypeInv, TypeOK
<1>4. IsFiniteSet(todo[c]) /\ Cardinality(todo[c]) \in Nat /\ Cardinality(todo[c]) <= MaxId
  BY IdsCounted DEF TypeInv, TypeOK
<1>5. \A n \in Nat : Turn * n \in Nat
  BY <1>1
<1>6. pc[c] \in CallStates
  BY DEF TypeInv, TypeOK
<1>7. CallSteps(pc[c]) \in Nat
  <2> DEFINE n == Turn * MaxId
             m == Cardinality(Workers)
  <2>1. n \in Nat /\ m \in Nat
    BY <1>1, <1>5
  <2> HIDE DEF n, m
  <2>2. 5 + n + m \in Nat /\ 6 + n + m \in Nat
    BY <2>1
  <2> QED
    BY <1>6, <2>2 DEF CallSteps, CallStates, n, m
<1> QED
  BY <1>1, <1>3, <1>4, <1>5, <1>7, EachFinite

\* A step of a worker: it is nearer to the end of its turn, or begins one with an id of
\* the feeder.
LEMMA WorkerNearer ==
    ASSUME LockInv, JobsIdle, NEW c \in Calls, NEW w \in Workers, Worker(c, w), TypeInv'
    PROVE  StepsLeft(c)' < StepsLeft(c)
<1> DEFINE r == Ahead(c)
           q == Ahead(c)'
<1>1. Beside(c, w) /\ pc'[c] = pc[c] /\ feeding'[c] = feeding[c]
  BY WorkerMovesIds DEF LockInv, Beside
<1>2. TypeInv
  BY DEF LockInv
<1>3. r \in Ranks /\ q \in Ranks
  <2>1. Ahead(c) \in Ranks
    BY <1>2, StepsTypes
  <2>2. Ahead(c)' \in Ranks
    BY StepsAtTypes DEF Ahead, Ranks, TypeInv, TypeOK
  <2> QED
    BY <2>1, <2>2
<1>4. \A v \in Workers \ {w} : q[v] = r[v]
  BY <1>1 DEF Beside, Ahead
<1>5. /\ Turn \in Nat /\ Turn = 2 * MaxAttempts + 2 /\ MaxAttempts \in Nat /\ MaxAttempts >= 1
      /\ try[c][w] \in Nat /\ try[c][w] <= MaxAttempts - 1
      /\ r[w] = StepsAt(at[c][w], try[c][w]) /\ q[w] = StepsAt(at'[c][w], try'[c][w])
  <2>1. try[c][w] \in 0 .. MaxAttempts - 1
    BY <1>2 DEF TypeInv, TypeOK
  <2>2. try[c][w] \in Nat /\ try[c][w] <= MaxAttempts - 1 /\ MaxAttempts \in Nat /\ MaxAttempts >= 1
    BY <2>1, BoundsAssumption
  <2>3. Turn \in Nat /\ Turn = 2 * MaxAttempts + 2
    BY BoundsAssumption DEF Turn
  <2> QED
    BY <2>2, <2>3 DEF Ahead
<1>6. CASE Feed(c, w)
  <2>1. PICK i \in todo[c] : todo' = [todo EXCEPT ![c] = @ \ {i}]
    BY <1>6 DEF Feed
  <2>2. at[c][w] = "recv" /\ todo'[c] = todo[c] \ {i}
    BY <1>2, <1>6, <2>1 DEF Feed, TypeInv, TypeOK
  <2>3. r[w] = 1
    BY <1>5, <2>2 DEF StepsAt
  <2> HIDE DEF r, q
  <2>4. Cardinality(Each(q)) <= Cardinality(Each(r)) + Turn - 1
    BY <1>3, <1>4, <2>3, OneFarther
  <2> DEFINE n == Cardinality(todo[c])
  <2>5. n \in Nat /\ Cardinality(todo'[c]) = n - 1
    <3>1. IsFiniteSet(todo[c]) /\ n \in Nat
      BY <1>2, IdsCounted DEF TypeInv, TypeOK
    <3>2. Cardinality(todo[c] \ {i}) = n - 1
      BY <2>1, <3>1, FS_RemoveElement
    <3> QED
      BY <2>2, <3>1, <3>2
  <2> HIDE DEF n
  <2>6. Turn * (n - 1) = Turn * n - Turn /\ Turn * n \in Nat
    BY <1>5, <2>5
  <2>7. Cardinality(Each(q)) \in Nat /\ Cardinality(Each(r)) \in Nat /\ CallSteps(pc[c]) \in Nat
    BY <1>2, <1>3, StepsTypes, EachFinite
  <2> QED
    BY <1>1, <1>5, <2>4, <2>5, <2>6, <2>7 DEF StepsLeft, n, r, q
<1>7. CASE ~Feed(c, w)
  <2>1. todo'[c] = todo[c]
    BY <1>1, <1>7 DEF Worker, WorkerExits, Fetched, FetchFails, FetchNotFound, FetchExhausted,
                BackoffElapsed, BackoffCancelled, Normed, NormFails, Stored, StoreFails, GiveUp, groupVars
  <2>2. q[w] < r[w]
    <3> USE <1>2, <1>5 DEF TypeInv, TypeOK, Move, NextJob, GiveUp, StepsAt, workerVars
    <3> HIDE DEF r, q
    <3>1. CASE WorkerExits(c, w)
      BY <3>1 DEF WorkerExits
    <3>2. CASE Fetched(c, w) \/ FetchNotFound(c, w)
      BY <3>2 DEF Fetched, FetchNotFound
    <3>3. CASE FetchFails(c, w)
      BY <3>3 DEF FetchFails
    <3>4. CASE FetchExhausted(c, w)
      BY <3>4 DEF FetchExhausted
    <3>5. CASE BackoffElapsed(c, w)
      BY <3>5 DEF BackoffElapsed
    <3>6. CASE BackoffCancelled(c, w)
      BY <3>6 DEF BackoffCancelled
    <3>7. CASE Normed(c, w) \/ NormFails(c, w)
      BY <3>7 DEF Normed, NormFails
    <3>8. CASE Stored(c, w) \/ StoreFails(c, w)
      BY <3>8 DEF Stored, StoreFails
    <3> QED
      BY <1>7, <3>1, <3>2, <3>3, <3>4, <3>5, <3>6, <3>7, <3>8 DEF Worker
  <2> HIDE DEF r, q
  <2>3. Cardinality(Each(q)) < Cardinality(Each(r))
    BY <1>3, <1>4, <2>2, OneNearer
  <2>4. Cardinality(Each(q)) \in Nat /\ Cardinality(Each(r)) \in Nat /\ CallSteps(pc[c]) \in Nat
        /\ Turn * Cardinality(todo[c]) \in Nat
    BY <1>2, <1>3, StepsTypes, EachFinite
  <2> QED
    BY <1>1, <2>1, <2>3, <2>4 DEF StepsLeft, r, q
<1> QED
  BY <1>6, <1>7

\* Workers that are off, or that are done, have no step left; those that were started
\* have one each.
LEMMA WorkersAtRest ==
    ASSUME NEW r \in Ranks
    PROVE  /\ (\A w \in Workers : r[w] = 0) => Cardinality(Each(r)) = 0
           /\ (\A w \in Workers : r[w] = 1) => Cardinality(Each(r)) = Cardinality(Workers)
<1>1. Turn \in Nat /\ Turn >= 1
  BY BoundsAssumption DEF Turn
<1>2. ASSUME \A w \in Workers : r[w] = 0 PROVE Cardinality(Each(r)) = 0
  <2>1. Each(r) = {}
    BY <1>1, <1>2 DEF Each
  <2> QED
    BY <2>1, FS_EmptySet
<1>3. ASSUME \A w \in Workers : r[w] = 1 PROVE Cardinality(Each(r)) = Cardinality(Workers)
  <2>1. Each(r) = Workers \X {1}
    <3>1. ASSUME NEW w \in Workers, NEW k \in 1 .. Turn PROVE k <= r[w] <=> k = 1
      BY <1>1, <1>3
    <3>2. 1 \in 1 .. Turn
      BY <1>1
    <3> QED
      BY <3>1, <3>2 DEF Each
  <2>2. IsFiniteSet({1}) /\ Cardinality({1}) = 1
    BY FS_Singleton
  <2>3. Cardinality(Workers \X {1}) = Cardinality(Workers) * 1
    BY <2>2, WorkersAssumption, FS_Product
  <2>4. Cardinality(Workers) \in Nat
    BY WorkersAssumption, FS_CardinalityType
  <2> QED
    BY <2>1, <2>3, <2>4
<1> QED
  BY <1>2, <1>3

\* A step of the call itself.
LEMMA CallNearer ==
    ASSUME LockInv, NEW c \in Calls, Call(c), TypeInv'
    PROVE  StepsLeft(c)' < StepsLeft(c)
<1> DEFINE T == Turn * MaxId
           W == Cardinality(Workers)
           f == IF feeding[c] THEN 1 ELSE 0
           t == Turn * Cardinality(todo[c])
           n == Cardinality(Each(Ahead(c)))
<1>1. TypeInv
  BY DEF LockInv
<1>2. /\ T \in Nat /\ W \in Nat /\ f \in Nat /\ t \in Nat /\ n \in Nat
      /\ Turn \in Nat /\ Ahead(c) \in Ranks
      /\ pc[c] \in CallStates /\ feeding \in [Calls -> BOOLEAN]
      /\ StepsLeft(c) = CallSteps(pc[c]) + f + t + n
  BY <1>1, StepsTypes DEF StepsLeft, TypeInv, TypeOK
<1> HIDE DEF T, W
<1>3. /\ CallSteps("idle") = 0 /\ CallSteps("busy") = 1 /\ CallSteps("Return") = 1
      /\ CallSteps("SendUpdate") = 2 /\ CallSteps("SendDrop") = 2
      /\ CallSteps("Wait") = 3 /\ CallSteps("Drop") = 3
      /\ CallSteps("LastID") = 5 + T + W /\ CallSteps("IDs") = 6 + T + W
  BY DEF CallSteps, T, W
<1>4. CASE ReadLastID(c)
  <2>1. /\ pc[c] = "LastID" /\ pc'[c] = "Wait" /\ feeding'[c]
        /\ \A w \in Workers : at'[c][w] = "recv"
    BY <1>1, <1>4 DEF ReadLastID, Goto, TypeInv, TypeOK
  <2>2. Ahead(c)' \in Ranks /\ \A w \in Workers : Ahead(c)'[w] = 1
    <3>1. Ahead(c)' \in Ranks
      BY StepsAtTypes DEF Ahead, Ranks, TypeInv, TypeOK
    <3> QED
      BY <2>1, <3>1 DEF Ahead, StepsAt
  <2>3. Cardinality(Each(Ahead(c)')) = W
    BY <2>2, WorkersAtRest DEF W
  <2>4. Cardinality(todo'[c]) \in Nat /\ Cardinality(todo'[c]) <= MaxId /\ MaxId \in Nat
    BY IdsCounted, BoundsAssumption DEF TypeInv, TypeOK
  <2> DEFINE m == Cardinality(todo'[c])
             u == Turn * m
  <2>5. u \in Nat /\ u <= T
    <3> HIDE DEF m
    <3> QED
      BY <1>2, <2>4 DEF T, m
  <2>6. StepsLeft(c)' = 3 + 1 + u + W
    BY <1>3, <2>1, <2>3 DEF StepsLeft
  <2> HIDE DEF u, f, t, n
  <2> QED
    BY <1>2, <1>3, <2>1, <2>5, <2>6
<1>5. CASE WaitOk(c) \/ WaitFails(c)
  <2>1. /\ pc[c] = "Wait" /\ pc'[c] \in {"SendUpdate", "Return"} /\ feeding'[c] = feeding[c]
        /\ todo'[c] = todo[c]
        /\ \A w \in Workers : at[c][w] = "done" /\ at'[c][w] = "off"
    BY <1>1, <1>5 DEF WaitOk, WaitFails, Joined, Finish, Goto, TypeInv, TypeOK
  <2>2. Ahead(c)' = Ahead(c)
    BY <2>1 DEF Ahead, StepsAt
  <2>3. StepsLeft(c)' = CallSteps(pc'[c]) + f + t + n
    BY <2>1, <2>2 DEF StepsLeft
  <2> HIDE DEF f, t, n
  <2> QED
    BY <1>2, <1>3, <2>1, <2>3
<1>6. CASE ~ReadLastID(c) /\ ~WaitOk(c) /\ ~WaitFails(c)
  <2>1. /\ feeding'[c] = feeding[c] /\ todo'[c] = todo[c] /\ at'[c] = at[c] /\ try'[c] = try[c]
        /\ \/ pc[c] = "busy" /\ pc'[c] = "idle"
           \/ pc[c] = "IDs" /\ pc'[c] \in {"LastID", "Return"}
           \/ pc[c] = "LastID" /\ pc'[c] = "Return"
           \/ pc[c] = "SendUpdate" /\ pc'[c] = "Return"
           \/ pc[c] = "Drop" /\ pc'[c] \in {"SendDrop", "Return"}
           \/ pc[c] = "SendDrop" /\ pc'[c] = "Return"
           \/ pc[c] = "Return" /\ pc'[c] = "idle"
    BY <1>1, <1>6 DEF Call, Refused, ReadIDs, ReadFails, SendUpdate, SendDrop, SendEvent, TruncateOk,
                      TruncateFails, Return, Finish, Goto, groupVars, workerVars, TypeInv, TypeOK
  <2>2. Ahead(c)' = Ahead(c)
    BY <2>1 DEF Ahead
  <2>3. StepsLeft(c)' = CallSteps(pc'[c]) + f + t + n
    BY <2>1, <2>2 DEF StepsLeft
  <2> HIDE DEF f, t, n
  <2> QED
    BY <1>2, <1>3, <2>1, <2>3
<1> QED
  BY <1>4, <1>5, <1>6

\* The end of the feeder.
LEMMA FeederNearer ==
    ASSUME LockInv, NEW c \in Calls, FeederEnds(c)
    PROVE  StepsLeft(c)' < StepsLeft(c)
<1>1. TypeInv
  BY DEF LockInv
<1>2. /\ feeding[c] /\ ~feeding'[c] /\ todo'[c] = {} /\ Ahead(c)' = Ahead(c) /\ pc'[c] = pc[c]
  BY <1>1 DEF FeederEnds, TypeInv, TypeOK, callVars, workerVars, Ahead
<1>3. Cardinality({}) = 0
  BY FS_EmptySet
<1> DEFINE n == Cardinality(Each(Ahead(c)))
           t == Turn * Cardinality(todo[c])
<1>4. n \in Nat /\ t \in Nat /\ CallSteps(pc[c]) \in Nat /\ Turn \in Nat
  BY <1>1, StepsTypes
<1>5. StepsLeft(c) = CallSteps(pc[c]) + 1 + t + n
  BY <1>2 DEF StepsLeft
<1>6. StepsLeft(c)' = CallSteps(pc[c]) + 0 + Turn * 0 + n
  BY <1>2, <1>3 DEF StepsLeft
<1> HIDE DEF n, t
<1> QED
  BY <1>4, <1>5, <1>6

\* Whatever the others do: from where it is an operation takes at most StepsLeft more
\* steps of its own, retries and failures included (service.go:45-105, 107-147, 236-250).
THEOREM CallsNearer == Spec => AlwaysNearer
<1> DEFINE Nearer(c) == /\ StepsLeft(c) \in Nat
                        /\ OwnStep(c) => StepsLeft(c)' < StepsLeft(c)
                        /\ (pc[c] # "idle" \/ feeding[c]) => StepsLeft(c)' <= StepsLeft(c)
<1>1. ASSUME LockInv, JobsIdle, [Next]_vars, TypeInv', NEW c \in Calls PROVE Nearer(c)
  <2>1. StepsLeft(c) \in Nat /\ StepsLeft(c)' \in Nat
    <3>1. StepsLeft(c) \in Nat
      <4>1. pc[c] \in CallStates /\ feeding[c] \in BOOLEAN /\ todo[c] \in SUBSET Ids
        BY <1>1 DEF LockInv, TypeInv, TypeOK
      <4>2. Ahead(c) \in Ranks
        BY <1>1, StepsTypes DEF LockInv
      <4> QED
        BY <4>1, <4>2, StepsNatural DEF StepsLeft
    <3>2. StepsLeft(c)' \in Nat
      <4>1. pc'[c] \in CallStates /\ feeding'[c] \in BOOLEAN /\ todo'[c] \in SUBSET Ids
        BY <1>1 DEF TypeInv, TypeOK
      <4>2. Ahead(c)' \in Ranks
        BY <1>1, StepsAtTypes DEF Ahead, Ranks, TypeInv, TypeOK
      <4>3. StepsLeft(c)' = CallSteps(pc'[c]) + (IF feeding'[c] THEN 1 ELSE 0)
                              + Turn * Cardinality(todo'[c]) + Cardinality(Each(Ahead(c)'))
        BY DEF StepsLeft
      <4> DEFINE a == Ahead(c)'
      <4> HIDE DEF a
      <4>4. CallSteps(pc'[c]) + (IF feeding'[c] THEN 1 ELSE 0)
              + Turn * Cardinality(todo'[c]) + Cardinality(Each(a)) \in Nat
        BY <4>1, <4>2, StepsNatural DEF a
      <4> QED
        BY <4>3, <4>4 DEF a
    <3> QED
      BY <3>1, <3>2
  <2>2. OwnStep(c) => StepsLeft(c)' < StepsLeft(c)
    BY <1>1, CallNearer, FeederNearer, WorkerNearer DEF OwnStep
  <2>3. ASSUME Untouched(c) PROVE StepsLeft(c)' = StepsLeft(c)
    BY <2>3 DEF Untouched, StepsLeft, Ahead
  <2>4. ASSUME NEW d \in Calls \ {c}, CallStep(d) \/ \E w \in Workers : Worker(d, w)
        PROVE  StepsLeft(c)' = StepsLeft(c)
    BY <1>1, <2>3, <2>4, CallLeavesOthers, WorkerMovesIds DEF Beside, LockInv, TypeInv
  <2>5. ASSUME CallStep(c), ~OwnStep(c), pc[c] # "idle" \/ feeding[c]
        PROVE  StepsLeft(c)' = StepsLeft(c)
    <3>1. Cancel(c)
      BY <2>5 DEF CallStep, OwnStep, BeginUpdate, BeginDrop, Acquire, Refuse
    <3> QED
      BY <3>1 DEF Cancel, StepsLeft, Ahead, groupVars, workerVars
  <2>6. ASSUME Crash PROVE StepsLeft(c)' <= StepsLeft(c)
    <3>1. /\ pc'[c] = "idle" /\ ~feeding'[c] /\ todo'[c] = {}
          /\ \A w \in Workers : at'[c][w] = "off"
      BY <2>6 DEF Crash
    <3>2. Ahead(c)' \in Ranks /\ \A w \in Workers : Ahead(c)'[w] = 0
      <4>1. Ahead(c)' \in Ranks
        BY <1>1, StepsAtTypes DEF Ahead, Ranks, TypeInv, TypeOK
      <4> QED
        BY <3>1, <4>1 DEF Ahead, StepsAt
    <3>3. Cardinality(Each(Ahead(c)')) = 0 /\ Cardinality({}) = 0 /\ Turn \in Nat
      BY <3>2, WorkersAtRest, FS_EmptySet, BoundsAssumption DEF Turn
    <3>4. CallSteps("idle") = 0
      BY DEF CallSteps
    <3>5. StepsLeft(c)' = 0 + 0 + Turn * 0 + 0
      BY <3>1, <3>3, <3>4 DEF StepsLeft
    <3> QED
      BY <2>1, <3>3, <3>5
  <2>7. ASSUME UNCHANGED vars PROVE StepsLeft(c)' = StepsLeft(c)
    BY <2>7 DEF vars, callVars, groupVars, workerVars, StepsLeft, Ahead
  <2>8. ASSUME pc[c] # "idle" \/ feeding[c] PROVE StepsLeft(c)' <= StepsLeft(c)
    <3>1. CASE OwnStep(c)
      <4>1. StepsLeft(c)' < StepsLeft(c)
        BY <2>2, <3>1
      <4> QED
        BY <2>1, <4>1
    <3>2. CASE Crash
      BY <2>6, <3>2
    <3>3. CASE ~OwnStep(c) /\ ~Crash
      <4>1. StepsLeft(c)' = StepsLeft(c)
        BY <1>1, <2>4, <2>5, <2>7, <2>8, <3>3 DEF Next, CallStep, OwnStep
      <4> QED
        BY <2>1, <4>1
    <3> QED
      BY <3>1, <3>2, <3>3
  <2> QED
    BY <2>1, <2>2, <2>8
<1>2. LockInv /\ MissingInv /\ LockInv' /\ [Next]_vars => [\A c \in Calls : Nearer(c)]_vars
  BY <1>1 DEF MissingInv, LockInv
<1> QED
  BY <1>2, MissingInvInductive, PTL DEF Spec, AlwaysNearer
=============================================================================
