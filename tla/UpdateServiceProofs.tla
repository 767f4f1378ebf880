------------------------- MODULE UpdateServiceProofs -------------------------
(***************************************************************************)
(* Theorems about UpdateService, for any calls, workers, ids and attempts, *)
(* and that it implements Catalog: every step of a goroutine is a step of  *)
(* the operation that owns the table, or changes nothing Catalog shows.    *)
(***************************************************************************)
EXTENDS UpdateService, TLAPS

-----------------------------------------------------------------------------
(* Type correctness.                                                        *)

\* TypeOK alone is not inductive: that a given up id is an id, that a stored
\* row has a key, and that attempts stay in range, depends on where the worker
\* stands.
JobsTyped ==
    \A c \in Calls, w \in Workers :
        /\ at[c][w] \in {"fetch", "backoff"} => job[c][w] \in Ids
        /\ at[c][w] \in {"norm", "store", "blank"} => job[c][w] \in Keys
        /\ at[c][w] = "backoff" => try[c][w] # MaxAttempts - 1

TypeInv == TypeOK /\ JobsTyped

\* Every step of a call, of its feeder or of its client keeps the types.
LEMMA CallKeepsTypes ==
    ASSUME TypeInv, NEW c \in Calls,
           BeginUpdate(c) \/ BeginDrop(c) \/ Refuse(c) \/ Cancel(c) \/ Call(c) \/ FeederEnds(c)
    PROVE  TypeInv'
<1> USE DEF TypeInv, TypeOK, JobsTyped, CallStates, WorkerStates, Goto, Finish, Become,
            shared, callVars, groupVars, workerVars
<1>1. CASE BeginUpdate(c)
  BY <1>1 DEF BeginUpdate, Acquire
<1>2. CASE BeginDrop(c)
  BY <1>2 DEF BeginDrop, Acquire
<1>3. CASE Refuse(c)
  BY <1>3 DEF Refuse
<1>4. CASE Cancel(c)
  BY <1>4 DEF Cancel
<1>5. CASE Refused(c)
  BY <1>5 DEF Refused
<1>6. CASE ReadIDs(c)
  BY <1>6 DEF ReadIDs
<1>7. CASE ReadFails(c)
  BY <1>7 DEF ReadFails
<1>8. CASE ReadLastID(c)
  BY <1>8, BoundsAssumption DEF ReadLastID, Ids
<1>9. CASE WaitOk(c)
  BY <1>9 DEF WaitOk, Joined
<1>10. CASE WaitFails(c)
  BY <1>10 DEF WaitFails, Joined
<1>11. CASE SendUpdate(c)
  BY <1>11 DEF SendUpdate, SendEvent
<1>12. CASE TruncateOk(c)
  BY <1>12 DEF TruncateOk
<1>13. CASE TruncateFails(c)
  BY <1>13 DEF TruncateFails
<1>14. CASE SendDrop(c)
  BY <1>14 DEF SendDrop, SendEvent
<1>15. CASE Return(c)
  BY <1>15 DEF Return
<1>16. CASE FeederEnds(c)
  BY <1>16 DEF FeederEnds
<1> QED
  BY <1>1, <1>2, <1>3, <1>4, <1>5, <1>6, <1>7, <1>8, <1>9, <1>10, <1>11, <1>12,
     <1>13, <1>14, <1>15, <1>16 DEF Call

\* Every step of a worker keeps the types.
LEMMA WorkerKeepsTypes ==
    ASSUME TypeInv, NEW c \in Calls, NEW w \in Workers, Worker(c, w)
    PROVE  TypeInv'
<1> USE DEF TypeInv, TypeOK, JobsTyped, CallStates, WorkerStates, Move, Become, NextJob,
            shared, callVars, groupVars, workerVars
<1>1. CASE Feed(c, w)
  BY <1>1 DEF Feed, Keys
<1>2. CASE WorkerExits(c, w)
  BY <1>2 DEF WorkerExits
<1>3. CASE Fetched(c, w)
  <2>1. PICK k \in {job[c][w], 0} :
          /\ job' = [job EXCEPT ![c][w] = k]
          /\ skipped' = [skipped EXCEPT ![c] = IF k = 0 THEN @ \cup {job[c][w]} ELSE @]
    BY <1>3 DEF Fetched
  <2>2. job[c][w] \in Ids /\ k \in Keys
    BY <1>3 DEF Fetched, Keys
  <2>3. /\ job' \in [Calls -> [Workers -> Keys \cup {NoJob}]]
        /\ skipped' \in [Calls -> SUBSET Ids]
    BY <2>1, <2>2
  <2>4. JobsTyped'
    BY <1>3, <2>1, <2>2 DEF Fetched
  <2> QED
    BY <1>3, <2>3, <2>4, BoundsAssumption DEF Fetched
<1>4. CASE FetchFails(c, w)
  BY <1>4 DEF FetchFails, LastTry
<1>5. CASE FetchNotFound(c, w)
  BY <1>5, BoundsAssumption DEF FetchNotFound, Keys
<1>6. CASE FetchExhausted(c, w)
  BY <1>6, BoundsAssumption DEF FetchExhausted, GiveUp
<1>7. CASE BackoffElapsed(c, w)
  <2>1. try[c][w] \in 0 .. MaxAttempts - 1 /\ try[c][w] # MaxAttempts - 1
    BY <1>7 DEF BackoffElapsed
  <2>2. try[c][w] + 1 \in 0 .. MaxAttempts - 1
    BY ONLY <2>1, BoundsAssumption
  <2> QED
    BY <1>7, <2>2 DEF BackoffElapsed
<1>8. CASE BackoffCancelled(c, w)
  BY <1>8, BoundsAssumption DEF BackoffCancelled, GiveUp
<1>9. CASE Normed(c, w)
  BY <1>9 DEF Normed
<1>10. CASE NormFails(c, w)
  BY <1>10, BoundsAssumption DEF NormFails, Keys, Ids, NoJob
<1>11. CASE Stored(c, w)
  BY <1>11, BoundsAssumption DEF Stored, CountLate
<1>12. CASE StoreFails(c, w)
  BY <1>12 DEF StoreFails, CountLate
<1> QED
  BY <1>1, <1>2, <1>3, <1>4, <1>5, <1>6, <1>7, <1>8, <1>9, <1>10, <1>11, <1>12 DEF Worker

\* The types and the workers' jobs are an inductive invariant.
LEMMA TypeInvInductive ==
    /\ Init => TypeInv
    /\ TypeInv /\ [Next]_vars => TypeInv'
<1>1. ASSUME Init PROVE TypeInv
  <2>1. 0 \in 0 .. MaxAttempts - 1
    BY BoundsAssumption
  <2>2. JobsTyped
    BY <1>1 DEF Init, JobsTyped
  <2> QED
    BY <1>1, <2>1, <2>2 DEF Init, TypeInv, TypeOK, CallStates, WorkerStates
<1>2. ASSUME TypeInv, Crash PROVE TypeInv'
  <2>1. 0 \in 0 .. MaxAttempts - 1
    BY BoundsAssumption
  <2>2. JobsTyped'
    BY <1>2 DEF Crash, JobsTyped
  <2> QED
    BY <1>2, <2>1, <2>2 DEF Crash, TypeInv, TypeOK, CallStates, WorkerStates
<1>3. ASSUME TypeInv, UNCHANGED vars PROVE TypeInv'
  BY <1>3 DEF vars, shared, callVars, groupVars, workerVars, TypeInv, TypeOK, JobsTyped
<1> QED
  BY <1>1, <1>2, <1>3, CallKeepsTypes, WorkerKeepsTypes DEF Next

\* Every variable keeps the type that TypeOK gives it (service.go, all of it).
THEOREM TypeCorrect == Spec => []TypeOK
<1>1. TypeInv => TypeOK
  BY DEF TypeInv
<1> QED
  BY <1>1, TypeInvInductive, PTL DEF Spec

-----------------------------------------------------------------------------
(* The flag is a lock over the goroutines.                                  *)

\* What makes it one: only a call that waits for its errgroup has workers
\* running, so whoever releases the flag leaves no goroutine behind that could
\* write to the table.
WorkersAwaited ==
    \A c \in Calls : pc[c] # "Wait" => \A w \in Workers : at[c][w] = "off"

LockInv == TypeInv /\ OneOperation /\ WorkersAwaited

\* The steps of a call that neither take nor release the flag, and neither
\* start nor join workers, move it between two statements inside.
LEMMA CallKeepsLock ==
    ASSUME LockInv, NEW c \in Calls,
           BeginUpdate(c) \/ BeginDrop(c) \/ Refuse(c) \/ Cancel(c) \/ Call(c) \/ FeederEnds(c)
    PROVE  OneOperation' /\ WorkersAwaited'
<1> USE DEF LockInv, TypeInv, TypeOK, OneOperation, Inside, WorkersAwaited, Goto, Finish,
            shared, callVars, groupVars, workerVars
<1>1. CASE BeginUpdate(c)
  BY <1>1 DEF BeginUpdate, Acquire
<1>2. CASE BeginDrop(c)
  BY <1>2 DEF BeginDrop, Acquire
<1>3. CASE Refuse(c)
  BY <1>3 DEF Refuse
<1>4. CASE Cancel(c)
  BY <1>4 DEF Cancel
<1>5. CASE Refused(c)
  BY <1>5 DEF Refused
<1>6. CASE ReadIDs(c)
  BY <1>6 DEF ReadIDs
<1>7. CASE ReadFails(c)
  BY <1>7 DEF ReadFails
<1>8. CASE ReadLastID(c)
  BY <1>8 DEF ReadLastID
<1>9. CASE WaitOk(c)
  BY <1>9 DEF WaitOk, Joined
<1>10. CASE WaitFails(c)
  BY <1>10 DEF WaitFails, Joined
<1>11. CASE SendUpdate(c)
  BY <1>11 DEF SendUpdate, SendEvent
<1>12. CASE TruncateOk(c)
  BY <1>12 DEF TruncateOk
<1>13. CASE TruncateFails(c)
  BY <1>13 DEF TruncateFails
<1>14. CASE SendDrop(c)
  BY <1>14 DEF SendDrop, SendEvent
<1>15. CASE Return(c)
  <2>1. \A d \in Calls : pc[d] \notin {"idle", "busy"} => d = c
    BY <1>15 DEF Return
  <2>2. \A d \in Calls : pc'[d] \in {"idle", "busy"}
    BY <1>15, <2>1 DEF Return
  <2> QED
    BY <1>15, <2>2 DEF Return
<1>16. CASE FeederEnds(c)
  BY <1>16 DEF FeederEnds
<1> QED
  BY <1>1, <1>2, <1>3, <1>4, <1>5, <1>6, <1>7, <1>8, <1>9, <1>10, <1>11, <1>12,
     <1>13, <1>14, <1>15, <1>16 DEF Call

\* A worker step touches neither the flag nor the calls, and the worker was
\* running already.
LEMMA WorkerKeepsLock ==
    ASSUME LockInv, NEW c \in Calls, NEW w \in Workers, Worker(c, w)
    PROVE  OneOperation' /\ WorkersAwaited'
<1>1. UNCHANGED <<updating, pc>>
  BY DEF Worker, Feed, WorkerExits, Fetched, FetchFails, FetchNotFound, FetchExhausted,
         BackoffElapsed, BackoffCancelled, Normed, NormFails, Stored, StoreFails, GiveUp,
         shared, callVars
<1>2. at[c][w] # "off" /\ \E s \in WorkerStates : Move(c, w, s)
  BY DEF Worker, Feed, WorkerExits, Fetched, FetchFails, FetchNotFound, FetchExhausted,
         BackoffElapsed, BackoffCancelled, Normed, NormFails, Stored, StoreFails, GiveUp,
         NextJob, WorkerStates
<1>3. pc[c] = "Wait"
  BY <1>2 DEF LockInv, WorkersAwaited
<1>4. OneOperation'
  BY <1>1 DEF LockInv, OneOperation, Inside
<1>5. WorkersAwaited'
  BY <1>1, <1>2, <1>3 DEF LockInv, WorkersAwaited, Move, TypeInv, TypeOK
<1> QED
  BY <1>4, <1>5

\* The lock invariant is inductive.
LEMMA LockInvInductive ==
    /\ Init => LockInv
    /\ LockInv /\ [Next]_vars => LockInv'
<1>1. Init => OneOperation /\ WorkersAwaited
  BY DEF Init, OneOperation, Inside, WorkersAwaited
<1>2. ASSUME LockInv, Crash PROVE OneOperation' /\ WorkersAwaited'
  BY <1>2 DEF Crash, OneOperation, Inside, WorkersAwaited
<1>3. ASSUME LockInv, UNCHANGED vars PROVE OneOperation' /\ WorkersAwaited'
  BY <1>3 DEF vars, shared, callVars, workerVars, LockInv, OneOperation, Inside, WorkersAwaited
<1>4. ASSUME LockInv, Next PROVE OneOperation' /\ WorkersAwaited'
  BY <1>2, <1>4, CallKeepsLock, WorkerKeepsLock DEF Next
<1> QED
  BY <1>1, <1>3, <1>4, TypeInvInductive DEF LockInv

\* At most one Update or Drop is inside, and the flag is set exactly while one
\* is: for any number of calls and workers (service.go:46-49, 237-240).
THEOREM LockCorrect == Spec => []OneOperation
<1>1. LockInv => OneOperation
  BY DEF LockInv
<1> QED
  BY <1>1, LockInvInductive, PTL DEF Spec

-----------------------------------------------------------------------------
(* The table and the events.                                                *)

\* A step that leaves the table and the events alone, and brings no call to
\* the event of a drop or to the return of a success.
QuietStep ==
    /\ UNCHANGED <<comics, dirty, lastEvent>>
    /\ \A d \in Calls : pc'[d] = "SendDrop" => pc[d] = "SendDrop"
    /\ \A d \in Calls :
        (pc'[d] = "Return" /\ res'[d] = "ok") => (pc[d] = "Return" /\ res[d] = "ok")

\* All but four steps of a call are quiet.
LEMMA CallEffects ==
    ASSUME TypeOK, NEW c \in Calls,
           BeginUpdate(c) \/ BeginDrop(c) \/ Refuse(c) \/ Cancel(c) \/ Call(c) \/ FeederEnds(c)
    PROVE  QuietStep \/ SendUpdate(c) \/ SendDrop(c) \/ TruncateOk(c) \/ TruncateFails(c)
<1> USE DEF TypeOK, QuietStep, Goto, Finish, shared, callVars
<1>1. CASE BeginUpdate(c) \/ BeginDrop(c)
  BY <1>1 DEF BeginUpdate, BeginDrop, Acquire
<1>2. CASE Refuse(c) \/ Refused(c) \/ Cancel(c) \/ FeederEnds(c)
  BY <1>2 DEF Refuse, Refused, Cancel, FeederEnds
<1>3. CASE ReadIDs(c) \/ ReadFails(c) \/ ReadLastID(c)
  BY <1>3 DEF ReadIDs, ReadFails, ReadLastID
<1>4. CASE WaitOk(c) \/ WaitFails(c)
  BY <1>4 DEF WaitOk, WaitFails, Joined
<1>5. CASE Return(c)
  BY <1>5 DEF Return
<1> QED
  BY <1>1, <1>2, <1>3, <1>4, <1>5 DEF Call

\* A worker only adds rows, and only while its call waits for it.
LEMMA WorkerEffects ==
    ASSUME LockInv, NEW c \in Calls, NEW w \in Workers, Worker(c, w)
    PROVE  /\ UNCHANGED <<pc, res, updating, lastEvent>>
           /\ pc[c] = "Wait"
           /\ comics \subseteq comics'
           /\ dirty' = (dirty \/ comics' # comics)
<1>1. UNCHANGED <<pc, res, updating, lastEvent>>
  BY DEF Worker, Feed, WorkerExits, Fetched, FetchFails, FetchNotFound, FetchExhausted,
         BackoffElapsed, BackoffCancelled, Normed, NormFails, Stored, StoreFails, GiveUp,
         shared, callVars
<1>2. at[c][w] # "off"
  BY DEF Worker, Feed, WorkerExits, Fetched, FetchFails, FetchNotFound, FetchExhausted,
         BackoffElapsed, BackoffCancelled, Normed, NormFails, Stored, StoreFails
<1>3. pc[c] = "Wait"
  BY <1>2 DEF LockInv, WorkersAwaited
<1>4. CASE Stored(c, w) \/ StoreFails(c, w)
  BY <1>1, <1>3, <1>4 DEF Stored, StoreFails, Become
<1>5. CASE ~(Stored(c, w) \/ StoreFails(c, w))
  <2>1. UNCHANGED shared
    BY <1>5 DEF Worker, Feed, WorkerExits, Fetched, FetchFails, FetchNotFound,
                FetchExhausted, BackoffElapsed, BackoffCancelled, Normed, NormFails, GiveUp
  <2> QED
    BY <1>1, <1>3, <2>1 DEF shared, LockInv, TypeInv, TypeOK
<1> QED
  BY <1>4, <1>5

\* While a call is inside, every other is outside.
LEMMA OthersOutside ==
    ASSUME LockInv, NEW c \in Inside
    PROVE  \A d \in Calls \ {c} : pc[d] \in {"idle", "busy"}
BY DEF LockInv, OneOperation, Inside

\* What the events tell, as one invariant on top of the lock.
EventInv == DropsTrue /\ SuccessIsAnnounced

\* Every step keeps the events truthful.
LEMMA NextKeepsEvents ==
    ASSUME LockInv, EventInv, Next
    PROVE  EventInv'
<1> USE DEF EventInv, DropsTrue, SuccessIsAnnounced
<1>1. CASE QuietStep
  BY <1>1 DEF QuietStep
<1>2. CASE Crash
  BY <1>2 DEF Crash
<1>3. ASSUME NEW c \in Calls, SendUpdate(c) \/ SendDrop(c) PROVE EventInv'
  BY <1>3 DEF SendUpdate, SendDrop, SendEvent, Finish, Goto, LockInv, TypeInv, TypeOK,
              OneOperation, Inside
<1>4. ASSUME NEW c \in Calls, TruncateOk(c) PROVE EventInv'
  <2>1. \A d \in Calls \ {c} : pc'[d] \in {"idle", "busy"}
    BY <1>4, OthersOutside DEF TruncateOk, Goto, Inside, LockInv, TypeInv, TypeOK
  <2>2. comics' = {} /\ pc'[c] = "SendDrop"
    BY <1>4 DEF TruncateOk, Become, Goto, LockInv, TypeInv, TypeOK
  <2> QED
    BY <2>1, <2>2
<1>5. ASSUME NEW c \in Calls, TruncateFails(c) PROVE EventInv'
  <2>1. \A d \in Calls \ {c} : pc'[d] \in {"idle", "busy"}
    BY <1>5, OthersOutside DEF TruncateFails, Finish, Goto, Inside, LockInv, TypeInv, TypeOK
  <2>2. pc'[c] = "Return" /\ res'[c] = "error"
    BY <1>5 DEF TruncateFails, Finish, Goto, LockInv, TypeInv, TypeOK
  <2>3. ((lastEvent = "drop" /\ ~dirty) => comics = {})'
    BY <1>5 DEF TruncateFails, Become, LockInv, TypeInv, TypeOK
  <2> QED
    BY <2>1, <2>2, <2>3
<1>6. ASSUME NEW c \in Calls, NEW w \in Workers, Worker(c, w) PROVE EventInv'
  <2>1. \A d \in Calls : pc[d] \notin {"SendDrop", "Return"}
    BY <1>6, WorkerEffects DEF LockInv, OneOperation, Inside
  <2>2. ((lastEvent = "drop" /\ ~dirty) => comics = {})'
    BY <1>6, WorkerEffects DEF LockInv, TypeInv, TypeOK
  <2> QED
    BY <1>6, <2>1, <2>2, WorkerEffects
<1> QED
  BY <1>1, <1>2, <1>3, <1>4, <1>5, <1>6, CallEffects DEF Next, LockInv, TypeInv

\* What is known of the events holds in every reachable state.
LEMMA EventInvInductive == Spec => []EventInv
<1>1. Init => EventInv
  BY DEF Init, EventInv, DropsTrue, SuccessIsAnnounced
<1>2. LockInv /\ EventInv /\ [Next]_vars => EventInv'
  <2>1. ASSUME EventInv, UNCHANGED vars PROVE EventInv'
    BY <2>1 DEF vars, shared, callVars, EventInv, DropsTrue, SuccessIsAnnounced
  <2> QED
    BY <2>1, NextKeepsEvents
<1> QED
  BY <1>1, <1>2, LockInvInductive, PTL DEF Spec

\* A call that succeeds leaves no change of the table unannounced
\* (service.go:98-102, 242-247).
THEOREM EventsCorrect == Spec => []SuccessIsAnnounced
<1>1. EventInv => SuccessIsAnnounced
  BY DEF EventInv
<1> QED
  BY <1>1, EventInvInductive, PTL

\* A drop event means an empty table: no goroutine of an earlier update writes
\* after the TRUNCATE (service.go:226-257).
THEOREM DropsCorrect == Spec => []DropsTrue
<1>1. EventInv => DropsTrue
  BY DEF EventInv
<1> QED
  BY <1>1, EventInvInductive, PTL

\* Rows change only while the flag is set, also when a worker changes them; an
\* update only adds rows and a drop removes all at once (service.go:45-105).
THEOREM TableCorrect == Spec => TableChangesUnderLock
<1> DEFINE Guarded == comics' # comics => /\ updating
                                          /\ comics' = {} \/ comics \subseteq comics'
<1>1. ASSUME LockInv, [Next]_vars PROVE [Guarded]_vars
  <2>1. CASE QuietStep \/ Crash \/ UNCHANGED vars
    BY <2>1 DEF QuietStep, Crash, vars, shared
  <2>2. ASSUME NEW c \in Calls, SendUpdate(c) \/ SendDrop(c) \/ TruncateOk(c) \/ TruncateFails(c)
        PROVE  Guarded
    BY <1>1, <2>2 DEF SendUpdate, SendDrop, SendEvent, TruncateOk, TruncateFails, Become,
                      LockInv, OneOperation, Inside
  <2>3. ASSUME NEW c \in Calls, NEW w \in Workers, Worker(c, w) PROVE Guarded
    BY <1>1, <2>3, WorkerEffects DEF LockInv, OneOperation, Inside
  <2> QED
    BY <1>1, <2>1, <2>2, <2>3, CallEffects DEF Next, LockInv, TypeInv
<1> QED
  BY <1>1, LockInvInductive, PTL DEF Spec, TableChangesUnderLock


-----------------------------------------------------------------------------
(* UpdateService implements Catalog.                                        *)


\* The phase is that of the one call inside, before and after a step.
LEMMA PhaseFollows ==
    ASSUME OneOperation, OneOperation'
    PROVE  /\ Inside = {} => Phase = "free"
           /\ \A c \in Inside : Phase = PhaseOf[pc[c]]
           /\ Inside' = {} => Phase' = "free"
           /\ \A c \in Inside' : Phase' = PhaseOf[pc'[c]]
<1>1. ASSUME NEW c \in Inside PROVE Phase = PhaseOf[pc[c]]
  <2>1. (CHOOSE d \in Inside : TRUE) = c
    BY <1>1 DEF OneOperation
  <2> QED
    BY <1>1, <2>1 DEF Phase
<1>2. ASSUME NEW c \in Inside' PROVE Phase' = PhaseOf[pc'[c]]
  <2>1. (CHOOSE d \in Inside' : TRUE) = c
    BY <1>2 DEF OneOperation
  <2> QED
    BY <1>2, <2>1 DEF Phase
<1> QED
  BY <1>1, <1>2 DEF Phase

\* A call that moves from one statement inside to another takes the phase along.
LEMMA PhaseMoves ==
    ASSUME LockInv, LockInv', NEW c \in Calls, NEW s \in CallStates \ {"idle", "busy"},
           pc[c] \notin {"idle", "busy"}, Goto(c, s)
    PROVE  Phase = PhaseOf[pc[c]] /\ Phase' = PhaseOf[s]
<1>1. c \in Inside
  BY DEF Inside
<1>2. pc'[c] = s
  BY DEF Goto, LockInv, TypeInv, TypeOK
<1>3. c \in Inside'
  BY <1>2 DEF Inside
<1> QED
  BY <1>1, <1>2, <1>3, PhaseFollows DEF LockInv

\* A step that leaves the calls where they are leaves the phase.
LEMMA PhaseStays ==
    ASSUME UNCHANGED pc
    PROVE  UNCHANGED Phase
BY DEF Phase, Inside

Visible == <<comics, Phase, lastEvent, dirty>>

\* The steps of a call.
LEMMA CallImplements ==
    ASSUME LockInv, LockInv', NEW c \in Calls,
           BeginUpdate(c) \/ BeginDrop(c) \/ Refuse(c) \/ Cancel(c) \/ Call(c) \/ FeederEnds(c)
    PROVE  Abstract!CatalogNext \/ UNCHANGED Visible
<1> USE DEF Visible, shared, CallStates, PhaseOf, Finish
<1>1. CASE BeginUpdate(c) \/ BeginDrop(c)
  <2>1. Phase = "free"
    BY <1>1, PhaseFollows DEF BeginUpdate, BeginDrop, Acquire, LockInv, OneOperation
  <2>2. CASE BeginUpdate(c)
    <3>1. pc'[c] = "IDs" /\ c \in Inside'
      BY <2>2 DEF BeginUpdate, Acquire, Goto, Inside, LockInv, TypeInv, TypeOK
    <3>2. Abstract!BeginUpdate
      BY <2>1, <2>2, <3>1, PhaseFollows DEF BeginUpdate, Acquire, LockInv, Abstract!BeginUpdate
    <3> QED
      BY <3>2 DEF Abstract!CatalogNext
  <2>3. CASE BeginDrop(c)
    <3>1. pc'[c] = "Drop" /\ c \in Inside'
      BY <2>3 DEF BeginDrop, Acquire, Goto, Inside, LockInv, TypeInv, TypeOK
    <3>2. Abstract!BeginDrop
      BY <2>1, <2>3, <3>1, PhaseFollows DEF BeginDrop, Acquire, LockInv, Abstract!BeginDrop
    <3> QED
      BY <3>2 DEF Abstract!CatalogNext
  <2> QED
    BY <1>1, <2>2, <2>3
<1>2. CASE Refuse(c) \/ Refused(c)
  <2>1. Inside' = Inside /\ \A d \in Inside : pc'[d] = pc[d]
    BY <1>2 DEF Refuse, Refused, Goto, Inside, LockInv, TypeInv, TypeOK
  <2>2. UNCHANGED Phase
    BY <2>1, PhaseFollows DEF LockInv
  <2> QED
    BY <1>2, <2>2 DEF Refuse, Refused
<1>3. CASE Cancel(c) \/ FeederEnds(c)
  BY <1>3, PhaseStays DEF Cancel, FeederEnds, callVars
<1>4. CASE ReadIDs(c) \/ ReadLastID(c)
  <2>1. Phase = "filling" /\ Phase' = "filling"
    BY <1>4, PhaseMoves DEF ReadIDs, ReadLastID
  <2> QED
    BY <1>4, <2>1 DEF ReadIDs, ReadLastID
<1>5. CASE ReadFails(c) \/ WaitFails(c) \/ TruncateFails(c)
  <2>1. Phase \in {"filling", "emptying"} /\ Phase' = "closing"
    BY <1>5, PhaseMoves DEF ReadFails, WaitFails, Joined, TruncateFails
  <2>2. \/ UNCHANGED <<comics, dirty>>
        \/ Phase = "emptying" /\ Become({})
    <3>1. CASE ReadFails(c) \/ WaitFails(c)
      BY <3>1 DEF ReadFails, WaitFails, Joined
    <3>2. CASE TruncateFails(c)
      <4>1. Phase = "emptying"
        BY <3>2, PhaseMoves DEF TruncateFails
      <4>2. PICK rows \in {comics, {}} : Become(rows)
        BY <3>2 DEF TruncateFails
      <4>3. CASE rows = comics
        BY <4>2, <4>3 DEF Become, LockInv, TypeInv, TypeOK
      <4> QED
        BY <4>1, <4>2, <4>3
    <3> QED
      BY <1>5, <3>1, <3>2
  <2>3. UNCHANGED lastEvent
    BY <1>5 DEF ReadFails, WaitFails, Joined, TruncateFails
  <2> QED
    BY <2>1, <2>2, <2>3 DEF Abstract!CatalogNext, Abstract!Fail, Abstract!Become, Become
<1>6. CASE WaitOk(c)
  BY <1>6, PhaseMoves DEF WaitOk, Joined, Abstract!CatalogNext, Abstract!Seal
<1>7. CASE SendUpdate(c)
  <2>1. Phase = "filled" /\ Phase' = "closing"
    BY <1>7, PhaseMoves DEF SendUpdate, SendEvent
  <2>2. Abstract!Announce("update")
    BY <1>7, <2>1 DEF SendUpdate, SendEvent, Abstract!Announce
  <2> QED
    BY <2>2 DEF Abstract!CatalogNext, Abstract!Events
<1>8. CASE SendDrop(c)
  <2>1. Phase = "emptied" /\ Phase' = "closing"
    BY <1>8, PhaseMoves DEF SendDrop, SendEvent
  <2>2. Abstract!Announce("drop")
    BY <1>8, <2>1 DEF SendDrop, SendEvent, Abstract!Announce
  <2> QED
    BY <2>2 DEF Abstract!CatalogNext, Abstract!Events
<1>9. CASE TruncateOk(c)
  BY <1>9, PhaseMoves DEF TruncateOk, Become, Abstract!CatalogNext, Abstract!Truncate, Abstract!Become
<1>10. CASE Return(c)
  <2>1. Phase = "closing" /\ c \in Inside
    BY <1>10, PhaseFollows DEF Return, Inside, LockInv
  <2>2. Inside' = {}
    BY <1>10 DEF Return, LockInv, OneOperation
  <2>3. Phase' = "free"
    BY <2>2, PhaseFollows DEF LockInv
  <2> QED
    BY <1>10, <2>1, <2>3 DEF Return, Abstract!CatalogNext, Abstract!Release
<1> QED
  BY <1>1, <1>2, <1>3, <1>4, <1>5, <1>6, <1>7, <1>8, <1>9, <1>10 DEF Call

\* The steps of a worker: those that touch the table insert a row.
LEMMA WorkerImplements ==
    ASSUME LockInv, LockInv', NEW c \in Calls, NEW w \in Workers, Worker(c, w)
    PROVE  Abstract!CatalogNext \/ UNCHANGED Visible
<1>1. Phase = "filling" /\ UNCHANGED Phase
  BY WorkerEffects, PhaseStays, PhaseFollows DEF PhaseOf, Inside, LockInv
<1>2. CASE Stored(c, w) \/ StoreFails(c, w)
  <2>1. job[c][w] \in Keys
    BY <1>2 DEF Stored, StoreFails, LockInv, TypeInv, JobsTyped
  <2>2. \/ Become(comics \cup {job[c][w]})
        \/ Become(comics)
    BY <1>2 DEF Stored, StoreFails
  <2>3. UNCHANGED lastEvent
    BY WorkerEffects
  <2>4. CASE Become(comics \cup {job[c][w]})
    <3>1. Abstract!Insert(job[c][w])
      BY <1>1, <2>3, <2>4 DEF Become, Abstract!Insert, Abstract!Become
    <3> QED
      BY <2>1, <3>1 DEF Abstract!CatalogNext
  <2>5. CASE Become(comics)
    BY <1>1, <2>3, <2>5 DEF Become, Visible, LockInv, TypeInv, TypeOK
  <2> QED
    BY <2>2, <2>4, <2>5
<1>3. CASE ~(Stored(c, w) \/ StoreFails(c, w))
  <2>1. UNCHANGED shared
    BY <1>3 DEF Worker, Feed, WorkerExits, Fetched, FetchFails, FetchNotFound,
                FetchExhausted, BackoffElapsed, BackoffCancelled, Normed, NormFails, GiveUp
  <2> QED
    BY <1>1, <2>1 DEF shared, Visible
<1> QED
  BY <1>2, <1>3

\* Whatever its goroutines do, the service shows its surroundings nothing but
\* the operations of Catalog: one at a time, rows frozen before the event, no
\* event for a failure (service.go:45-140, 236-250).
THEOREM Implementation == Spec => ImplementsCatalog
<1>1. Init => Abstract!CatalogInit
  BY DEF Init, Abstract!CatalogInit, Phase, Inside
<1>2. LockInv /\ LockInv' /\ [Next]_vars => Abstract!CatalogNext \/ UNCHANGED Visible
  <2> SUFFICES ASSUME LockInv, LockInv', [Next]_vars
               PROVE  Abstract!CatalogNext \/ UNCHANGED Visible
    OBVIOUS
  <2>1. CASE Crash
    <3>1. Inside' = {}
      BY <2>1 DEF Crash, Inside
    <3>2. Phase' = "free"
      BY <3>1 DEF Phase
    <3> QED
      BY <2>1, <3>2 DEF Crash, Abstract!CatalogNext, Abstract!Crash
  <2>2. CASE UNCHANGED vars
    BY <2>2, PhaseStays DEF vars, shared, callVars, Visible
  <2> QED
    BY <2>1, <2>2, CallImplements, WorkerImplements DEF Next
<1>3. UNCHANGED Visible <=> UNCHANGED Abstract!catalogVars
  BY DEF Visible, Abstract!catalogVars
<1> QED
  BY <1>1, <1>2, <1>3, LockInvInductive, PTL DEF Spec, ImplementsCatalog, Abstract!CatalogSpec
=============================================================================
