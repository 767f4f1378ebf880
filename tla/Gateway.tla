------------------------------- MODULE Gateway -------------------------------
(***************************************************************************)
(* The requests about the update service: POST /api/db/update, DELETE      *)
(* /api/db, GET /api/db/stats and GET /api/db/status, from the REST        *)
(* gateway through the gRPC client and server to the service and back to   *)
(* an HTTP status, and POST /api/login, without which the first two go     *)
(* nowhere.  The update service is Catalog; what a request learns of it    *)
(* has passed three conversions: the gRPC server's of the core error, the  *)
(* client's of the gRPC code, and the handler's of the gateway's error.    *)
(***************************************************************************)
EXTENDS Catalog, Naturals, Sequences

CONSTANTS
    Requests,       \* HTTP requests under way at a time
    Nobody,         \* no request
    TTL             \* the life of a token, in ticks of the clock

ASSUME NobodyAssumption == Nobody \notin Requests
ASSUME TTLAssumption == TTL \in Nat \ {0}

Writes == {"update", "drop"}            \* behind the middleware Auth
Reads == {"stats", "status"}
Operations == Writes \cup Reads

VARIABLES
    at,             \* where each request stands
    op,             \* what it asks for
    code,           \* gRPC code it gets back
    status,         \* HTTP status it gets back
    counts,         \* stats: the tables its queries have seen
    told,           \* status: what it is told of the flag
    holder,         \* the request served by the call that owns the table
    outcome,        \* what that call is about to return
    strays,         \* calls given up before the service began them
    token,          \* ticks that the newest token has to live
    did,            \* history: what came of the request in the update service
    sinceLogin,     \* history: ticks since the right password was given
    alone,          \* history: the write that no other has met so far
    lastWrite,      \* history: the write carried out last, if it met no other
    after           \* history: lastWrite when a read arrived

requestVars == <<at, op, code, status, counts, told, did>>
callVars == <<holder, outcome, strays>>
loginVars == <<token, sinceLogin>>
readVars == <<alone, lastWrite, after>>
vars == <<catalogVars, requestVars, callVars, loginVars, readVars>>

Stages == {"idle", "auth", "call", "serve", "return", "answer"}
Codes == {"none", "OK", "Aborted", "Unknown", "Canceled", "Unavailable"}
Statuses == {0, 200, 202, 401, 409, 500}

TypeOK ==
    /\ CatalogTypeOK
    /\ at \in [Requests -> Stages]
    /\ op \in [Requests -> Operations]
    /\ code \in [Requests -> Codes]
    /\ status \in [Requests -> Statuses]
    /\ counts \in [Requests -> Seq(SUBSET Keys)]
    /\ \A r \in Requests : Len(counts[r]) <= IF at[r] \in {"return", "answer"} THEN 2 ELSE 1
    /\ told \in [Requests -> {"nothing", "idle", "running", "unknown"}]
    /\ did \in [Requests -> {"nothing", "refused", "begun", "announced"}]
    /\ holder \in Requests \cup {Nobody}
    /\ outcome \in {"none", "nil", "error"}
    /\ strays \subseteq Writes
    /\ token \in 0 .. TTL
    /\ sinceLogin \in 0 .. TTL
    /\ alone \in Requests \cup {Nobody}
    /\ lastWrite \in Writes \cup {"unknown"}
    /\ after \in [Requests -> Writes \cup {"unknown"}]

Init ==
    /\ CatalogInit
    /\ at = [r \in Requests |-> "idle"]
    /\ op = [r \in Requests |-> "update"]
    /\ code = [r \in Requests |-> "none"]
    /\ status = [r \in Requests |-> 0]
    /\ counts = [r \in Requests |-> <<>>]
    /\ told = [r \in Requests |-> "nothing"]
    /\ did = [r \in Requests |-> "nothing"]
    /\ holder = Nobody
    /\ outcome = "none"
    /\ strays = {}
    /\ token = 0
    /\ sinceLogin = TTL
    /\ alone = Nobody
    /\ lastWrite = "unknown"
    /\ after = [r \in Requests |-> "unknown"]

Goto(r, s) == at' = [at EXCEPT ![r] = s]

-----------------------------------------------------------------------------
(* The three conversions.                                                   *)

\* Fault: a code the client does not know.
ServerCodeOther(o, err) ==
    CASE err = "nil" -> "OK"
      [] err = "ErrAlreadyRunning" /\ o = "update" -> "AlreadyExists"
      [] OTHER -> "Unknown"

\* The gRPC servers of Update and Drop: ErrAlreadyRunning has a code of its own
\* for Update only; any other error that is no gRPC status is Unknown.
ServerCode(o, err) ==
    CASE err = "nil" -> "OK"
      [] err = "ErrAlreadyRunning" /\ o = "update" -> "Aborted"
      [] OTHER -> "Unknown"

\* Fault: a service that breaks the connection is taken for one that is busy.
CoreErrorOfBusy(c) ==
    CASE c = "OK" -> "nil"
      [] c \in {"Aborted", "Unavailable"} -> "ErrAlreadyRunning"
      [] c = "ResourceExhausted" -> "ErrResourceExhausted"
      [] c = "Canceled" -> "ErrCanceled"
      [] c = "DeadlineExceeded" -> "ErrDeadlineExceeded"
      [] OTHER -> "ErrInternal"

\* convertToCoreError of the gateway's client.  Every error of a stub is a gRPC
\* status, so that status.FromError never fails; the handlers below know only the
\* first of these errors by its name.
CoreError(c) ==
    CASE c = "OK" -> "nil"
      [] c = "Aborted" -> "ErrAlreadyRunning"
      [] c = "ResourceExhausted" -> "ErrResourceExhausted"
      [] c = "Canceled" -> "ErrCanceled"
      [] c = "DeadlineExceeded" -> "ErrDeadlineExceeded"
      [] OTHER -> "ErrInternal"

\* The switches of NewUpdateHandler and NewDropHandler; the handlers of stats and
\* status know no error by its name.
HttpStatus(o, err) ==
    CASE err = "nil" -> 200
      [] err = "ErrAlreadyRunning" /\ o = "update" -> 202
      [] err = "ErrAlreadyRunning" /\ o = "drop" -> 409
      [] OTHER -> 500

\* The flag, through the two enumerations of the protocol and of the gateway.
ServerStatus(free) == IF free THEN "STATUS_IDLE" ELSE "STATUS_RUNNING"

ClientStatus(s) ==
    CASE s = "STATUS_IDLE" -> "idle"
      [] s = "STATUS_RUNNING" -> "running"
      [] OTHER -> "unknown"

-----------------------------------------------------------------------------
(* Login.                                                                   *)

Users == [admin |-> "password"]         \* of the environment
Names == {"admin", "stranger"}
Passwords == {"password", "guess", ""}

\* Fault: a name that is not in the map has the zero value for its password.
LoginAcceptsZero(name, password) ==
    password = (IF name \in DOMAIN Users THEN Users[name] ELSE "")

LoginAccepts(name, password) == name \in DOMAIN Users /\ password = Users[name]

\* A refused login changes nothing.
LogIn(name, password) ==
    /\ LoginAccepts(name, password)
    /\ token' = TTL
    /\ sinceLogin' = IF name = "admin" /\ password = "password" THEN 0 ELSE sinceLogin
    /\ UNCHANGED <<catalogVars, requestVars, callVars, readVars>>

Tick ==
    /\ token > 0
    /\ token' = token - 1
    /\ sinceLogin' = IF sinceLogin < TTL THEN sinceLogin + 1 ELSE TTL
    /\ UNCHANGED <<catalogVars, requestVars, callVars, readVars>>

-----------------------------------------------------------------------------
(* A request.                                                               *)

IsWrite(r) == at[r] # "idle" /\ op[r] \in Writes

ArriveWrite(r, o) ==
    /\ at[r] = "idle"
    /\ Goto(r, "auth")
    /\ op' = [op EXCEPT ![r] = o]
    /\ alone' = IF strays = {} /\ ~\E q \in Requests : IsWrite(q) THEN r ELSE Nobody
    /\ lastWrite' = "unknown"
    /\ after' = [q \in Requests |-> "unknown"]
    /\ UNCHANGED <<catalogVars, code, status, counts, told, did, callVars, loginVars>>

ArriveRead(r, o) ==
    /\ at[r] = "idle"
    /\ Goto(r, "call")
    /\ op' = [op EXCEPT ![r] = o]
    /\ after' = [after EXCEPT ![r] = lastWrite]
    /\ UNCHANGED <<catalogVars, code, status, counts, told, did, callVars, loginVars,
                   alone, lastWrite>>

\* The middleware Auth finds a token that Verify accepts: the newest, or an older
\* one, which ends sooner.
Authorised(r) ==
    /\ at[r] = "auth" /\ token > 0
    /\ Goto(r, "call")
    /\ UNCHANGED <<catalogVars, op, code, status, counts, told, did, callVars, loginVars,
                   readVars>>

\* No token, one that is over, or one that was not signed here.
Unauthorised(r) ==
    /\ at[r] = "auth"
    /\ Goto(r, "answer")
    /\ status' = [status EXCEPT ![r] = 401]
    /\ UNCHANGED <<catalogVars, op, code, counts, told, did, callVars, loginVars, readVars>>

StartWork(o) == IF o = "update" THEN BeginUpdate ELSE BeginDrop

\* The call reaches the update service and its CompareAndSwap succeeds.
Begin(r) ==
    /\ at[r] = "call" /\ op[r] \in Writes
    /\ StartWork(op[r])
    /\ holder' = r
    /\ did' = [did EXCEPT ![r] = "begun"]
    /\ Goto(r, "serve")
    /\ UNCHANGED <<op, code, status, counts, told, outcome, strays, loginVars, readVars>>

\* The call of r returns to the gateway with a code.
ReturnWith(r, c) ==
    /\ Goto(r, "return")
    /\ code' = [code EXCEPT ![r] = c]

Refuse(r) ==
    /\ at[r] = "call" /\ op[r] \in Writes /\ phase # "free"
    /\ ReturnWith(r, ServerCode(op[r], "ErrAlreadyRunning"))
    /\ did' = [did EXCEPT ![r] = "refused"]
    /\ UNCHANGED <<catalogVars, op, status, counts, told, callVars, loginVars, readVars>>

\* updating.Load(), which no error can follow.
ReadFlag(r) ==
    /\ at[r] = "call" /\ op[r] = "status"
    /\ told' = [told EXCEPT ![r] = ClientStatus(ServerStatus(phase = "free"))]
    /\ ReturnWith(r, "OK")
    /\ UNCHANGED <<catalogVars, op, status, counts, did, callVars, loginVars, readVars>>

\* The two queries of DB.Stats, each on the table it finds.  The number asked of
\* xkcd afterwards is 0 when there is none, and never an error.
Count(r) ==
    /\ at[r] = "call" /\ op[r] = "stats"
    /\ counts' = [counts EXCEPT ![r] = Append(@, comics)]
    /\ IF Len(counts[r]) = 1 THEN ReturnWith(r, "OK") ELSE UNCHANGED <<at, code>>
    /\ UNCHANGED <<catalogVars, op, status, told, did, callVars, loginVars, readVars>>

CountFails(r) ==
    /\ at[r] = "call" /\ op[r] = "stats"
    /\ ReturnWith(r, "Unknown")
    /\ UNCHANGED <<catalogVars, op, status, counts, told, did, callVars, loginVars, readVars>>

\* The update service cannot be reached.
Unreachable(r) ==
    /\ at[r] = "call" /\ counts[r] = <<>>
    /\ ReturnWith(r, "Unavailable")
    /\ UNCHANGED <<catalogVars, op, status, counts, told, did, callVars, loginVars, readVars>>

\* The client has gone, or the gateway is told to stop (the contexts of all
\* requests derive from that of run): the stub returns at once.  A call that the
\* update service has begun goes on to its end with a cancelled context, and one
\* that is on its way may still begin.
Cancel(r) ==
    /\ at[r] \in {"call", "serve"}
    /\ ReturnWith(r, "Canceled")
    /\ holder' = IF holder = r THEN Nobody ELSE holder
    /\ \/ UNCHANGED strays
       \/ at[r] = "call" /\ op[r] \in Writes /\ strays' = strays \cup {op[r]}
    /\ UNCHANGED <<catalogVars, op, status, counts, told, did, outcome, loginVars, readVars>>

\* The client's conversion and the handler's.
Answer(r) ==
    /\ at[r] = "return"
    /\ Goto(r, "answer")
    /\ LET s == HttpStatus(op[r], CoreError(code[r])) IN
         /\ status' = [status EXCEPT ![r] = s]
         /\ lastWrite' = IF alone = r /\ s = 200 THEN op[r] ELSE lastWrite
    /\ UNCHANGED <<catalogVars, op, code, counts, told, did, callVars, loginVars, alone, after>>

\* The response is written and the slot is free for another request.
Depart(r) ==
    /\ at[r] = "answer"
    /\ Goto(r, "idle")
    /\ op' = [op EXCEPT ![r] = "update"]
    /\ code' = [code EXCEPT ![r] = "none"]
    /\ status' = [status EXCEPT ![r] = 0]
    /\ counts' = [counts EXCEPT ![r] = <<>>]
    /\ told' = [told EXCEPT ![r] = "nothing"]
    /\ did' = [did EXCEPT ![r] = "nothing"]
    /\ after' = [after EXCEPT ![r] = "unknown"]
    /\ alone' = IF alone = r THEN Nobody ELSE alone
    /\ UNCHANGED <<catalogVars, callVars, loginVars, lastWrite>>

-----------------------------------------------------------------------------
(* The update service.                                                      *)

\* A call whose request was given up begins, or finds the service busy.
StrayBegins(o) ==
    /\ o \in strays
    /\ strays' = strays \ {o}
    /\ \/ StartWork(o)
       \/ phase # "free" /\ UNCHANGED catalogVars
    /\ UNCHANGED <<requestVars, holder, outcome, loginVars, readVars>>

\* Between the flag and the result: rows, the errgroup's end, the TRUNCATE.
Work ==
    /\ \/ \E k \in Keys : Insert(k)
       \/ Seal \/ Truncate
    /\ UNCHANGED <<requestVars, callVars, loginVars, readVars>>

Succeed ==
    /\ \E event \in Events : Announce(event)
    /\ outcome' = "nil"
    /\ did' = [r \in Requests |-> IF r = holder THEN "announced" ELSE did[r]]
    /\ UNCHANGED <<at, op, code, status, counts, told, holder, strays, loginVars, readVars>>

FailWork ==
    /\ Fail
    /\ outcome' = "error"
    /\ UNCHANGED <<requestVars, holder, strays, loginVars, readVars>>

\* Fault: the flag is released when the reply is on its way.
FinishFirst ==
    /\ phase = "closing"
    /\ IF holder = Nobody
         THEN Release /\ outcome' = "none" /\ UNCHANGED <<at, code, holder>>
         ELSE /\ ReturnWith(holder, ServerCode(op[holder], outcome))
              /\ holder' = Nobody
              /\ UNCHANGED <<catalogVars, outcome>>
    /\ UNCHANGED <<op, status, counts, told, did, strays, loginVars, readVars>>

\* The flag is released and the handler of the gRPC server returns.
Finish ==
    /\ Release
    /\ outcome' = "none"
    /\ holder' = Nobody
    /\ IF holder = Nobody
         THEN UNCHANGED <<at, code>>
         ELSE ReturnWith(holder, ServerCode(op[holder], outcome))
    /\ UNCHANGED <<op, status, counts, told, did, strays, loginVars, readVars>>

\* The calls that the update service has under way.
Served(r) == holder = r \/ (at[r] = "call" /\ counts[r] # <<>>)

\* The update service dies: its connections break, and it is restarted.
Die ==
    /\ Crash
    /\ outcome' = "none"
    /\ holder' = Nobody
    /\ at' = [r \in Requests |-> IF Served(r) THEN "return" ELSE at[r]]
    /\ code' = [r \in Requests |-> IF Served(r) THEN "Unavailable" ELSE code[r]]
    /\ strays' = {}
    /\ UNCHANGED <<op, status, counts, told, did, loginVars, readVars>>

-----------------------------------------------------------------------------
\* The steps of a request that has arrived.
Request(r) ==
    \/ Authorised(r) \/ Unauthorised(r)
    \/ Begin(r) \/ Refuse(r) \/ Unreachable(r)
    \/ ReadFlag(r) \/ Count(r) \/ CountFails(r)
    \/ Answer(r) \/ Depart(r)

Next ==
    \/ \E name \in Names, password \in Passwords : LogIn(name, password)
    \/ Tick
    \/ \E r \in Requests :
          \/ \E o \in Writes : ArriveWrite(r, o)
          \/ \E o \in Reads : ArriveRead(r, o)
          \/ Cancel(r) \/ Request(r)
    \/ \E o \in Writes : StrayBegins(o)
    \/ Work \/ Succeed \/ FailWork \/ Finish \/ Die

Spec == Init /\ [][Next]_vars

-----------------------------------------------------------------------------
(* Properties.                                                              *)

\* The status tells the truth: 200 only when the very call of this request
\* handed over its event, 401, 202 and 409 only when the request had no effect at
\* all.  (500 promises nothing: the operation may still be running, have been
\* carried out, or never have begun; api.go:157-181, 225-246, server.go:46-77.)
StatusTruthful ==
    \A r \in Requests : (at[r] = "answer" /\ op[r] \in Writes) =>
        /\ status[r] = 200 => did[r] = "announced"
        /\ status[r] \in {401, 202, 409} => did[r] \in {"nothing", "refused"}

\* Who reads after a write that was answered by 200 and met no other finds what it
\* left: the service idle, both figures of stats those of the table, and after a
\* drop none at all, as prepare() in the tests expects.  It rests on the flag
\* being released before the reply, on the flag that an abandoned call keeps and
\* on no row coming late (update/core/service.go:46-49, 98; storage.go:44-68).
ReadsAfterWrite ==
    \A r \in Requests :
        (at[r] = "answer" /\ status[r] = 200 /\ op[r] \in Reads /\ after[r] # "unknown") =>
            /\ op[r] = "status" => told[r] = "idle"
            /\ op[r] = "stats" => counts[r] = <<comics, comics>>
            /\ after[r] = "drop" => comics = {}

\* No update or drop passes the gateway but within the life of a token, counted
\* from a login with the password of the environment (auth.go:49-95).
OnlyLoggedIn ==
    [][\A r \in Requests :
         (at[r] = "auth" /\ at'[r] = "call") => sinceLogin < TTL]_vars

\* What NewDropHandler's case ErrAlreadyRunning and api_test.go:368 say: a drop
\* that finds the service busy is answered by 409.
BusyDropConflicts ==
    \A r \in Requests :
        (at[r] = "answer" /\ op[r] = "drop" /\ did[r] = "refused" /\ code[r] # "Canceled")
            => status[r] = 409
=============================================================================
