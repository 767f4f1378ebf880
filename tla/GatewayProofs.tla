---------------------------- MODULE GatewayProofs ----------------------------
(***************************************************************************)
(* Theorems about Gateway, for any rows, requests and life of a token.     *)
(***************************************************************************)
EXTENDS Gateway, TLAPS

-----------------------------------------------------------------------------
(* Types.                                                                   *)

\* Every step of the catalog keeps its types.
LEMMA CatalogKeepsType ==
    ASSUME CatalogTypeOK, CatalogNext
    PROVE  CatalogTypeOK'
BY DEF CatalogTypeOK, CatalogNext, Phases, Events, BeginUpdate, BeginDrop, Insert, Seal, Truncate,
       Fail, Announce, Release, Crash, Become, catalogVars

\* Each request keeps its few results.
CountsBounded ==
    \A r \in Requests : Len(counts[r]) <= IF at[r] \in {"return", "answer"} THEN 2 ELSE 1

\* TypeOK is not inductive as it stands: that lastWrite is a write depends on who
\* can be alone.
AloneWrites == alone # Nobody => at[alone] # "idle" /\ op[alone] \in Writes

TypeInv == TypeOK /\ AloneWrites

\* What the conversions return are codes and statuses.
LEMMA ConversionTypes ==
    /\ \A o, err : ServerCode(o, err) \in Codes
    /\ \A o, err : HttpStatus(o, err) \in Statuses
    /\ \A free : ClientStatus(ServerStatus(free)) \in {"idle", "running"}
BY DEF ServerCode, HttpStatus, ClientStatus, ServerStatus, Codes, Statuses

\* One more element.
LEMMA OneMore ==
    ASSUME NEW S, NEW s \in Seq(S), NEW e \in S
    PROVE  Append(s, e) \in Seq(S) /\ Len(Append(s, e)) = Len(s) + 1 /\ Len(s) \in Nat
OBVIOUS

\* A request's own steps keep the types.
LEMMA RequestKeepsType ==
    ASSUME TypeInv, NEW r \in Requests,
           \/ \E o \in Writes : ArriveWrite(r, o)
           \/ \E o \in Reads : ArriveRead(r, o)
           \/ Cancel(r) \/ Request(r)
    PROVE  TypeOK'
<1> USE DEF TypeInv, TypeOK, Stages, Codes, Statuses, Operations, Goto, ReturnWith, requestVars, callVars,
            loginVars, readVars
<1>0. ASSUME UNCHANGED catalogVars PROVE CatalogTypeOK'
  BY <1>0 DEF CatalogTypeOK, catalogVars
<1>1. ASSUME NEW o \in Writes, ArriveWrite(r, o) PROVE TypeOK'
  <2>1. CountsBounded'
    BY <1>1 DEF ArriveWrite, CountsBounded
  <2>2. /\ at' \in [Requests -> Stages] /\ op' \in [Requests -> Operations]
        /\ alone' \in Requests \cup {Nobody}
        /\ lastWrite' \in Writes \cup {"unknown"}
        /\ after' \in [Requests -> Writes \cup {"unknown"}]
    BY <1>1 DEF ArriveWrite
  <2>3. UNCHANGED <<catalogVars, code, status, counts, told, did, holder, outcome, strays, token, sinceLogin>>
    BY <1>1 DEF ArriveWrite
  <2> QED
    BY <1>0, <2>1, <2>2, <2>3 DEF CountsBounded
<1>2. ASSUME NEW o \in Reads, ArriveRead(r, o) PROVE TypeOK'
  <2>1. CountsBounded'
    BY <1>2 DEF ArriveRead, CountsBounded
  <2>2. /\ at' \in [Requests -> Stages] /\ op' \in [Requests -> Operations]
        /\ after' \in [Requests -> Writes \cup {"unknown"}]
    BY <1>2 DEF ArriveRead
  <2>3. UNCHANGED <<catalogVars, code, status, counts, told, did, callVars, loginVars, alone, lastWrite>>
    BY <1>2 DEF ArriveRead
  <2> QED
    BY <1>0, <2>1, <2>2, <2>3 DEF CountsBounded
<1>3. CASE Cancel(r)
  <2>1. CountsBounded'
    BY <1>3 DEF Cancel, CountsBounded
  <2>2. /\ at' \in [Requests -> Stages] /\ code' \in [Requests -> Codes]
        /\ holder' \in Requests \cup {Nobody}
        /\ strays' \subseteq Writes
    BY <1>3 DEF Cancel
  <2> QED
    BY <1>0, <1>3, <2>1, <2>2 DEF Cancel, CountsBounded
<1>4. CASE Authorised(r) \/ Unauthorised(r)
  <2>1. CountsBounded'
    BY <1>4 DEF Authorised, Unauthorised, CountsBounded
  <2>2. at' \in [Requests -> Stages] /\ status' \in [Requests -> Statuses]
    <3>1. CASE Authorised(r)
      BY <3>1 DEF Authorised
    <3>2. CASE Unauthorised(r)
      BY <3>2 DEF Unauthorised
    <3> QED
      BY <1>4, <3>1, <3>2
  <2>3. UNCHANGED <<catalogVars, op, code, counts, told, did, callVars, loginVars, readVars>>
    BY <1>4 DEF Authorised, Unauthorised
  <2> QED
    BY <1>0, <2>1, <2>2, <2>3 DEF CountsBounded
<1>5. CASE Begin(r)
  <2>1. CatalogTypeOK'
    BY <1>5, CatalogKeepsType DEF Begin, StartWork, CatalogNext
  <2> QED
    BY <1>5, <2>1 DEF Begin
<1>6. CASE Refuse(r)
  <2>1. PICK c \in Codes : at' = [at EXCEPT ![r] = "return"] /\ code' = [code EXCEPT ![r] = c]
    <3> HIDE DEF Codes
    <3> QED
      BY <1>6, ConversionTypes DEF Refuse
  <2>2. /\ did' = [did EXCEPT ![r] = "refused"]
        /\ UNCHANGED <<catalogVars, op, status, counts, told, callVars, loginVars, readVars>>
    BY <1>6 DEF Refuse
  <2>3. CountsBounded'
    BY <2>1, <2>2 DEF CountsBounded
  <2> QED
    BY <1>0, <2>1, <2>2, <2>3 DEF CountsBounded
<1>7. CASE Unreachable(r) \/ CountFails(r)
  <2>1. CASE Unreachable(r)
    BY <1>0, <2>1 DEF Unreachable
  <2>2. CASE CountFails(r)
    BY <1>0, <2>2 DEF CountFails
  <2> QED
    BY <1>7, <2>1, <2>2
<1>8. CASE ReadFlag(r)
  BY <1>0, <1>8, ConversionTypes DEF ReadFlag
<1>9. CASE Count(r)
  <2> HIDE DEF TypeInv, TypeOK
  <2>1. /\ counts \in [Requests -> Seq(SUBSET Keys)] /\ comics \in SUBSET Keys
        /\ at \in [Requests -> Stages] /\ code \in [Requests -> Codes]
        /\ \A q \in Requests : Len(counts[q]) <= IF at[q] \in {"return", "answer"} THEN 2 ELSE 1
    BY DEF TypeInv, TypeOK, CatalogTypeOK
  <2>2. /\ Append(counts[r], comics) \in Seq(SUBSET Keys)
        /\ Len(Append(counts[r], comics)) = Len(counts[r]) + 1
        /\ Len(counts[r]) \in Nat
    BY <2>1, OneMore
  <2>3. /\ at[r] = "call"
        /\ counts' = [counts EXCEPT ![r] = Append(counts[r], comics)]
        /\ UNCHANGED <<catalogVars, op, status, told, did, callVars, loginVars, readVars>>
    BY <1>9 DEF Count
  <2>4. \/ at' = at /\ code' = code /\ Len(counts[r]) # 1
        \/ at' = [at EXCEPT ![r] = "return"] /\ code' = [code EXCEPT ![r] = "OK"]
    BY <1>9 DEF Count
  <2>5. at' \in [Requests -> Stages] /\ code' \in [Requests -> Codes]
    BY <2>1, <2>4
  <2>6. counts' \in [Requests -> Seq(SUBSET Keys)]
    BY <2>1, <2>2, <2>3
  <2>7. CountsBounded'
    <3>1. ASSUME NEW q \in Requests, q # r
          PROVE  Len(counts'[q]) <= IF at'[q] \in {"return", "answer"} THEN 2 ELSE 1
      BY <2>1, <2>3, <2>4, <3>1
    <3>2. Len(counts[r]) <= 1 /\ Len(counts'[r]) = Len(counts[r]) + 1
      BY <2>1, <2>2, <2>3
    <3>3. Len(counts'[r]) <= IF at'[r] \in {"return", "answer"} THEN 2 ELSE 1
      <4>1. Len(counts'[r]) <= 2 /\ (Len(counts[r]) # 1 => Len(counts'[r]) <= 1)
        <5>1. \A n \in Nat : n <= 1 => n + 1 <= 2 /\ (n # 1 => n + 1 <= 1)
          OBVIOUS
        <5> QED
          BY <2>2, <3>2, <5>1
      <4>2. at'[r] = "return" \/ Len(counts[r]) # 1
        BY <2>1, <2>4
      <4> QED
        BY <4>1, <4>2
    <3> QED
      BY <3>1, <3>3 DEF CountsBounded
  <2> QED
    BY <1>0, <2>3, <2>5, <2>6, <2>7 DEF CountsBounded, TypeInv, TypeOK
<1>10. CASE Answer(r)
  <2>1. PICK s \in Statuses : /\ status' = [status EXCEPT ![r] = s]
                              /\ lastWrite' = IF alone = r /\ s = 200 THEN op[r] ELSE lastWrite
    <3> HIDE DEF Statuses
    <3> QED
      BY <1>10, ConversionTypes DEF Answer
  <2>2. lastWrite' \in Writes \cup {"unknown"}
    BY <2>1, NobodyAssumption DEF AloneWrites
  <2>3. /\ at' = [at EXCEPT ![r] = "answer"]
        /\ UNCHANGED <<catalogVars, op, code, counts, told, did, callVars, loginVars, alone, after>>
    BY <1>10 DEF Answer
  <2>4. CountsBounded'
    BY <2>3 DEF CountsBounded
  <2> QED
    BY <1>0, <2>1, <2>2, <2>3, <2>4 DEF CountsBounded
<1>11. CASE Depart(r)
  BY <1>0, <1>11 DEF Depart, Writes
<1> QED
  BY <1>1, <1>2, <1>3, <1>4, <1>5, <1>6, <1>7, <1>8, <1>9, <1>10, <1>11 DEF Request

\* The steps of the update service and of logins keep the types.
LEMMA ServiceKeepsType ==
    ASSUME TypeInv,
           \/ \E name \in Names, password \in Passwords : LogIn(name, password)
           \/ Tick
           \/ \E o \in Writes : StrayBegins(o)
           \/ Work \/ Succeed \/ FailWork \/ Finish \/ Die
    PROVE  TypeOK'
<1> USE DEF TypeInv, TypeOK, requestVars, callVars, loginVars, readVars
<1>1. CASE \E name \in Names, password \in Passwords : LogIn(name, password)
  BY <1>1, TTLAssumption DEF LogIn, CatalogTypeOK, catalogVars
<1>2. CASE Tick
  BY <1>2, TTLAssumption DEF Tick, CatalogTypeOK, catalogVars
<1>3. ASSUME NEW o \in Writes, StrayBegins(o) PROVE TypeOK'
  <2>1. CatalogTypeOK'
    BY <1>3, CatalogKeepsType DEF StrayBegins, StartWork, CatalogNext, CatalogTypeOK, catalogVars
  <2> QED
    BY <1>3, <2>1 DEF StrayBegins
<1>4. CASE Work
  <2>1. CatalogTypeOK'
    BY <1>4, CatalogKeepsType DEF Work, CatalogNext
  <2> QED
    BY <1>4, <2>1 DEF Work
<1>5. CASE Succeed
  <2>1. CatalogTypeOK'
    BY <1>5, CatalogKeepsType DEF Succeed, CatalogNext
  <2> QED
    BY <1>5, <2>1 DEF Succeed
<1>6. CASE FailWork
  <2>1. CatalogTypeOK'
    BY <1>6, CatalogKeepsType DEF FailWork, CatalogNext
  <2> QED
    BY <1>6, <2>1 DEF FailWork
<1>7. CASE Finish
  <2>1. CatalogTypeOK'
    BY <1>7, CatalogKeepsType DEF Finish, CatalogNext
  <2>2. at' \in [Requests -> Stages] /\ code' \in [Requests -> Codes]
    <3>1. CASE holder = Nobody
      BY <1>7, <3>1 DEF Finish
    <3>2. CASE holder # Nobody
      <4>1. PICK c \in Codes : /\ code' = [code EXCEPT ![holder] = c]
                               /\ at' = [at EXCEPT ![holder] = "return"]
        BY <1>7, <3>2, ConversionTypes DEF Finish, ReturnWith, Goto
      <4> QED
        BY <4>1 DEF Stages
    <3> QED
      BY <3>1, <3>2
  <2>3. CountsBounded'
    BY <1>7 DEF Finish, CountsBounded, ReturnWith, Goto
  <2> QED
    BY <1>7, <2>1, <2>2, <2>3 DEF Finish, CountsBounded
<1>8. CASE Die
  <2>1. CatalogTypeOK'
    BY <1>8, CatalogKeepsType DEF Die, CatalogNext
  <2>2. at' \in [Requests -> Stages] /\ code' \in [Requests -> Codes]
    BY <1>8 DEF Die, Stages, Codes
  <2>3. CountsBounded'
    BY <1>8 DEF Die, CountsBounded
  <2> QED
    BY <1>8, <2>1, <2>2, <2>3 DEF Die, CountsBounded
<1> QED
  BY <1>1, <1>2, <1>3, <1>4, <1>5, <1>6, <1>7, <1>8

\* Who is alone has arrived with a write, until it departs.
LEMMA NextKeepsAlone ==
    ASSUME TypeInv, [Next]_vars
    PROVE  AloneWrites'
<1> USE NobodyAssumption DEF TypeInv, TypeOK, AloneWrites, Goto, ReturnWith, Reads, Writes
<1>1. ASSUME NEW r \in Requests, NEW o \in Writes, ArriveWrite(r, o) PROVE AloneWrites'
  BY <1>1 DEF ArriveWrite
<1>2. ASSUME NEW r \in Requests, NEW o \in Reads, ArriveRead(r, o) PROVE AloneWrites'
  BY <1>2 DEF ArriveRead
<1>3. ASSUME NEW r \in Requests, Depart(r) PROVE AloneWrites'
  BY <1>3 DEF Depart
<1>4. ASSUME NEW r \in Requests, Cancel(r) \/ (Request(r) /\ ~Depart(r)) PROVE AloneWrites'
  <2>1. /\ UNCHANGED <<op, alone>>
        /\ at' = at \/ \E s \in Stages \ {"idle"} : at' = [at EXCEPT ![r] = s]
    BY <1>4 DEF Cancel, Request, Authorised, Unauthorised, Begin, Refuse, Unreachable, ReadFlag, Count,
                CountFails, Answer, readVars, requestVars, Stages
  <2> QED
    BY <2>1
<1>5. ASSUME \/ \E name \in Names, password \in Passwords : LogIn(name, password)
             \/ Tick \/ \E o \in Writes : StrayBegins(o)
             \/ Work \/ Succeed \/ FailWork \/ UNCHANGED vars
      PROVE  AloneWrites'
  BY <1>5 DEF LogIn, Tick, StrayBegins, Work, Succeed, FailWork, vars, requestVars, readVars
<1>6. CASE Finish
  BY <1>6 DEF Finish, readVars
<1>7. CASE Die
  BY <1>7 DEF Die, readVars
<1> QED
  BY <1>1, <1>2, <1>3, <1>4, <1>5, <1>6, <1>7 DEF Next

\* TypeInv holds in every reachable state.
LEMMA TypeInvInductive == Spec => []TypeInv
<1>1. Init => TypeInv
  <2>1. CatalogInit => CatalogTypeOK
    BY DEF CatalogInit, CatalogTypeOK, Phases, Events
  <2>2. <<>> \in Seq(SUBSET Keys) /\ Len(<<>>) = 0
    OBVIOUS
  <2>3. ASSUME Init PROVE /\ counts \in [Requests -> Seq(SUBSET Keys)]
                          /\ CountsBounded
    BY <2>2, <2>3 DEF Init, CountsBounded
  <2>4. ASSUME Init PROVE token \in 0 .. TTL /\ sinceLogin \in 0 .. TTL
    BY <2>4, TTLAssumption DEF Init
  <2> QED
    BY <2>1, <2>3, <2>4 DEF Init, TypeInv, TypeOK, AloneWrites, CountsBounded, Stages, Operations,
                            Writes, Reads, Codes, Statuses
<1>2. TypeInv /\ [Next]_vars => TypeInv'
  <2>1. ASSUME TypeOK, UNCHANGED vars PROVE TypeOK'
    BY <2>1 DEF vars, catalogVars, requestVars, callVars, loginVars, readVars, TypeOK, CatalogTypeOK
  <2> QED
    BY <2>1, NextKeepsAlone, RequestKeepsType, ServiceKeepsType DEF Next, TypeInv
<1> QED
  BY <1>1, <1>2, PTL DEF Spec

\* Every variable keeps its type, for any number of requests.
THEOREM TypeCorrect == Spec => []TypeOK
<1>1. TypeInv => TypeOK
  BY DEF TypeInv
<1> QED
  BY <1>1, TypeInvInductive, PTL
-----------------------------------------------------------------------------
(* What the update service has under way.                                   *)

\* The call that owns the table, and where it can stand.
HolderInv ==
    /\ holder # Nobody => /\ at[holder] = "serve" /\ op[holder] \in Writes
                          /\ phase # "free"
                          /\ op[holder] = "drop" => phase \in {"emptying", "emptied", "closing"}
    /\ \A r \in Requests : at[r] = "serve" => holder = r
    /\ outcome # "none" => phase = "closing"
    /\ phase = "emptied" => comics = {}

\* What came of a request, from the result of its call to its status.
AnswerInv ==
    /\ \A r \in Requests : at[r] \in {"idle", "auth", "call"} => did[r] = "nothing"
    /\ (outcome = "nil" /\ holder # Nobody) =>
          /\ did[holder] = "announced"
          /\ op[holder] = "drop" => comics = {}
    /\ \A r \in Requests : op[r] \in Writes =>
          /\ at[r] = "return" => /\ code[r] = "OK" => did[r] = "announced"
                                 /\ code[r] = "Aborted" => did[r] = "refused"
          /\ at[r] = "answer" =>
                /\ status[r] = 200 => did[r] = "announced"
                /\ status[r] \in {401, 202, 409} => did[r] \in {"nothing", "refused"}

\* A write that has met no other until it returns leaves the service idle.
AloneInv ==
    alone # Nobody =>
        /\ lastWrite = "unknown" \/ at[alone] = "answer"
        /\ \A r \in Requests : IsWrite(r) => r = alone
        /\ at[alone] \in {"auth", "call", "serve"} => strays = {}
        /\ (at[alone] = "return" /\ code[alone] = "OK") =>
              /\ phase = "free" /\ strays = {}
              /\ op[alone] = "drop" => comics = {}

\* While lastWrite is known nothing is under way that could change the table.
SettledInv ==
    lastWrite # "unknown" =>
        /\ phase = "free" /\ strays = {}
        /\ lastWrite = "drop" => comics = {}
        /\ \A r \in Requests : IsWrite(r) => at[r] = "answer"

\* What a read has collected; after a known write it is all from one table.
ReadInv ==
    \A r \in Requests :
        /\ at[r] = "auth" => op[r] \in Writes
        /\ at[r] \in {"idle", "auth"} => counts[r] = <<>> /\ told[r] = "nothing"
        /\ ( /\ op[r] \in Reads
             /\ \/ at[r] = "return" /\ code[r] = "OK"
                \/ at[r] = "answer" /\ status[r] = 200 ) =>
              /\ op[r] = "status" => told[r] # "nothing"
              /\ op[r] = "stats" => Len(counts[r]) = 2
        /\ after[r] # "unknown" =>
              /\ after[r] = lastWrite
              /\ \A n \in DOMAIN counts[r] : counts[r][n] = comics
              /\ told[r] \in {"nothing", "idle"}

\* Who owns the table stands in serve, whoever else arrives, cancels or strays.
LEMMA NextKeepsHolder ==
    ASSUME TypeInv, HolderInv, [Next]_vars
    PROVE  HolderInv'
<1> USE NobodyAssumption DEF TypeInv, TypeOK, AloneWrites, Goto, ReturnWith, Reads, Writes, Operations,
            catalogVars, requestVars, callVars, loginVars, readVars, HolderInv
<1>1. ASSUME NEW name \in Names, NEW password \in Passwords, LogIn(name, password) PROVE HolderInv'
  BY <1>1 DEF LogIn
<1>2. ASSUME Tick PROVE HolderInv'
  BY <1>2 DEF Tick
<1>3. ASSUME NEW r \in Requests, NEW o \in Writes, ArriveWrite(r, o) PROVE HolderInv'
  BY <1>3 DEF ArriveWrite
<1>4. ASSUME NEW r \in Requests, NEW o \in Reads, ArriveRead(r, o) PROVE HolderInv'
  BY <1>4 DEF ArriveRead
<1>5. ASSUME NEW r \in Requests, Cancel(r) PROVE HolderInv'
  BY <1>5 DEF Cancel
<1>6. ASSUME NEW r \in Requests, Authorised(r) PROVE HolderInv'
  BY <1>6 DEF Authorised
<1>7. ASSUME NEW r \in Requests, Unauthorised(r) PROVE HolderInv'
  BY <1>7 DEF Unauthorised
<1>8. ASSUME NEW r \in Requests, Begin(r) PROVE HolderInv'
  BY <1>8 DEF Begin, StartWork, BeginUpdate, BeginDrop
<1>9. ASSUME NEW r \in Requests, Refuse(r) PROVE HolderInv'
  BY <1>9 DEF Refuse, ServerCode
<1>10. ASSUME NEW r \in Requests, Unreachable(r) PROVE HolderInv'
  BY <1>10 DEF Unreachable
<1>11. ASSUME NEW r \in Requests, ReadFlag(r) PROVE HolderInv'
  BY <1>11 DEF ReadFlag, ClientStatus, ServerStatus
<1>12. ASSUME NEW r \in Requests, Count(r) PROVE HolderInv'
  BY <1>12 DEF Count
<1>13. ASSUME NEW r \in Requests, CountFails(r) PROVE HolderInv'
  BY <1>13 DEF CountFails
<1>14. ASSUME NEW r \in Requests, Answer(r) PROVE HolderInv'
  BY <1>14 DEF Answer, HttpStatus, CoreError
<1>15. ASSUME NEW r \in Requests, Depart(r) PROVE HolderInv'
  BY <1>15 DEF Depart
<1>16. ASSUME NEW o \in Writes, StrayBegins(o) PROVE HolderInv'
  BY <1>16 DEF StrayBegins, StartWork, BeginUpdate, BeginDrop
<1>17. ASSUME Work PROVE HolderInv'
  BY <1>17 DEF Work, Insert, Seal, Truncate, Become
<1>18. ASSUME Succeed PROVE HolderInv'
  BY <1>18 DEF Succeed, Announce, Events
<1>19. ASSUME FailWork PROVE HolderInv'
  BY <1>19 DEF FailWork, Fail, Become
<1>20. ASSUME Finish PROVE HolderInv'
  BY <1>20 DEF Finish, Release, ServerCode
<1>21. ASSUME Die PROVE HolderInv'
  BY <1>21 DEF Die, Crash, Served
<1>22. ASSUME UNCHANGED vars PROVE HolderInv'
  BY <1>22 DEF vars
<1> QED
  BY <1>1, <1>2, <1>3, <1>4, <1>5, <1>6, <1>7, <1>8, <1>9, <1>10, <1>11, <1>12, <1>13, <1>14, <1>15, <1>16, <1>17, <1>18, <1>19, <1>20, <1>21, <1>22
     DEF Next, Request

\* No conversion on the way back makes a success of anything else.
LEMMA NextKeepsAnswers ==
    ASSUME TypeInv, HolderInv, AnswerInv, [Next]_vars
    PROVE  AnswerInv'
<1> USE NobodyAssumption DEF TypeInv, TypeOK, AloneWrites, Goto, ReturnWith, Reads, Writes, Operations,
            catalogVars, requestVars, callVars, loginVars, readVars, HolderInv, AnswerInv
<1>1. ASSUME NEW name \in Names, NEW password \in Passwords, LogIn(name, password) PROVE AnswerInv'
  BY <1>1 DEF LogIn
<1>2. ASSUME Tick PROVE AnswerInv'
  BY <1>2 DEF Tick
<1>3. ASSUME NEW r \in Requests, NEW o \in Writes, ArriveWrite(r, o) PROVE AnswerInv'
  BY <1>3 DEF ArriveWrite
<1>4. ASSUME NEW r \in Requests, NEW o \in Reads, ArriveRead(r, o) PROVE AnswerInv'
  BY <1>4 DEF ArriveRead
<1>5. ASSUME NEW r \in Requests, Cancel(r) PROVE AnswerInv'
  BY <1>5 DEF Cancel
<1>6. ASSUME NEW r \in Requests, Authorised(r) PROVE AnswerInv'
  BY <1>6 DEF Authorised
<1>7. ASSUME NEW r \in Requests, Unauthorised(r) PROVE AnswerInv'
  BY <1>7 DEF Unauthorised
<1>8. ASSUME NEW r \in Requests, Begin(r) PROVE AnswerInv'
  BY <1>8 DEF Begin, StartWork, BeginUpdate, BeginDrop
<1>9. ASSUME NEW r \in Requests, Refuse(r) PROVE AnswerInv'
  BY <1>9 DEF Refuse, ServerCode
<1>10. ASSUME NEW r \in Requests, Unreachable(r) PROVE AnswerInv'
  BY <1>10 DEF Unreachable
<1>11. ASSUME NEW r \in Requests, ReadFlag(r) PROVE AnswerInv'
  BY <1>11 DEF ReadFlag, ClientStatus, ServerStatus
<1>12. ASSUME NEW r \in Requests, Count(r) PROVE AnswerInv'
  BY <1>12 DEF Count
<1>13. ASSUME NEW r \in Requests, CountFails(r) PROVE AnswerInv'
  BY <1>13 DEF CountFails
<1>14. ASSUME NEW r \in Requests, Answer(r) PROVE AnswerInv'
  BY <1>14 DEF Answer, HttpStatus, CoreError
<1>15. ASSUME NEW r \in Requests, Depart(r) PROVE AnswerInv'
  BY <1>15 DEF Depart
<1>16. ASSUME NEW o \in Writes, StrayBegins(o) PROVE AnswerInv'
  BY <1>16 DEF StrayBegins, StartWork, BeginUpdate, BeginDrop
<1>17. ASSUME Work PROVE AnswerInv'
  BY <1>17 DEF Work, Insert, Seal, Truncate, Become
<1>18. ASSUME Succeed PROVE AnswerInv'
  BY <1>18 DEF Succeed, Announce, Events
<1>19. ASSUME FailWork PROVE AnswerInv'
  BY <1>19 DEF FailWork, Fail, Become
<1>20. ASSUME Finish PROVE AnswerInv'
  BY <1>20 DEF Finish, Release, ServerCode
<1>21. ASSUME Die PROVE AnswerInv'
  BY <1>21 DEF Die, Crash, Served
<1>22. ASSUME UNCHANGED vars PROVE AnswerInv'
  BY <1>22 DEF vars
<1> QED
  BY <1>1, <1>2, <1>3, <1>4, <1>5, <1>6, <1>7, <1>8, <1>9, <1>10, <1>11, <1>12, <1>13, <1>14, <1>15, <1>16, <1>17, <1>18, <1>19, <1>20, <1>21, <1>22
     DEF Next, Request

\* A write that has met no other is disturbed by nothing but its own cancellation.
LEMMA NextKeepsAloneInv ==
    ASSUME TypeInv, SettledInv, HolderInv, AnswerInv, AloneInv, [Next]_vars
    PROVE  AloneInv'
<1> USE NobodyAssumption DEF TypeInv, TypeOK, AloneWrites, Goto, ReturnWith, Reads, Writes, Operations,
            catalogVars, requestVars, callVars, loginVars, readVars, SettledInv, HolderInv, AnswerInv, AloneInv, IsWrite
<1>1. ASSUME NEW name \in Names, NEW password \in Passwords, LogIn(name, password) PROVE AloneInv'
  BY <1>1 DEF LogIn
<1>2. ASSUME Tick PROVE AloneInv'
  BY <1>2 DEF Tick
<1>3. ASSUME NEW r \in Requests, NEW o \in Writes, ArriveWrite(r, o) PROVE AloneInv'
  BY <1>3 DEF ArriveWrite
<1>4. ASSUME NEW r \in Requests, NEW o \in Reads, ArriveRead(r, o) PROVE AloneInv'
  BY <1>4 DEF ArriveRead
<1>5. ASSUME NEW r \in Requests, Cancel(r) PROVE AloneInv'
  <2>1. /\ at' = [at EXCEPT ![r] = "return"] /\ code' = [code EXCEPT ![r] = "Canceled"]
        /\ at[r] \in {"call", "serve"}
        /\ UNCHANGED <<comics, phase, op, alone, lastWrite>>
        /\ strays' # strays => op[r] \in Writes
    BY <1>5 DEF Cancel
  <2>2. CASE alone = r
    BY <2>1, <2>2
  <2>3. CASE alone # r
    <3>1. alone # Nobody => strays' = strays
      BY <2>1, <2>3
    <3>2. \A q \in Requests : IsWrite(q)' <=> IsWrite(q)
      BY <2>1
    <3>3. alone # Nobody => at'[alone] = at[alone] /\ code'[alone] = code[alone]
      BY <2>1, <2>3
    <3> HIDE DEF TypeInv, IsWrite
    <3> QED
      BY <2>1, <3>1, <3>2, <3>3
  <2> QED
    BY <2>2, <2>3
<1>6. ASSUME NEW r \in Requests, Authorised(r) PROVE AloneInv'
  BY <1>6 DEF Authorised
<1>7. ASSUME NEW r \in Requests, Unauthorised(r) PROVE AloneInv'
  BY <1>7 DEF Unauthorised
<1>8. ASSUME NEW r \in Requests, Begin(r) PROVE AloneInv'
  BY <1>8 DEF Begin, StartWork, BeginUpdate, BeginDrop
<1>9. ASSUME NEW r \in Requests, Refuse(r) PROVE AloneInv'
  BY <1>9 DEF Refuse, ServerCode
<1>10. ASSUME NEW r \in Requests, Unreachable(r) PROVE AloneInv'
  BY <1>10 DEF Unreachable
<1>11. ASSUME NEW r \in Requests, ReadFlag(r) PROVE AloneInv'
  BY <1>11 DEF ReadFlag, ClientStatus, ServerStatus
<1>12. ASSUME NEW r \in Requests, Count(r) PROVE AloneInv'
  BY <1>12 DEF Count
<1>13. ASSUME NEW r \in Requests, CountFails(r) PROVE AloneInv'
  BY <1>13 DEF CountFails
<1>14. ASSUME NEW r \in Requests, Answer(r) PROVE AloneInv'
  BY <1>14 DEF Answer, HttpStatus, CoreError
<1>15. ASSUME NEW r \in Requests, Depart(r) PROVE AloneInv'
  BY <1>15 DEF Depart
<1>16. ASSUME NEW o \in Writes, StrayBegins(o) PROVE AloneInv'
  BY <1>16 DEF StrayBegins, StartWork, BeginUpdate, BeginDrop
<1>17. ASSUME Work PROVE AloneInv'
  BY <1>17 DEF Work, Insert, Seal, Truncate, Become
<1>18. ASSUME Succeed PROVE AloneInv'
  BY <1>18 DEF Succeed, Announce, Events
<1>19. ASSUME FailWork PROVE AloneInv'
  BY <1>19 DEF FailWork, Fail, Become
<1>20. ASSUME Finish PROVE AloneInv'
  BY <1>20 DEF Finish, Release, ServerCode
<1>21. ASSUME Die PROVE AloneInv'
  BY <1>21 DEF Die, Crash, Served
<1>22. ASSUME UNCHANGED vars PROVE AloneInv'
  BY <1>22 DEF vars
<1> QED
  BY <1>1, <1>2, <1>3, <1>4, <1>5, <1>6, <1>7, <1>8, <1>9, <1>10, <1>11, <1>12, <1>13, <1>14, <1>15, <1>16, <1>17, <1>18, <1>19, <1>20, <1>21, <1>22
     DEF Next, Request

\* What was settled stays so until another write arrives.
LEMMA NextKeepsSettled ==
    ASSUME TypeInv, AloneInv, HolderInv, SettledInv, [Next]_vars
    PROVE  SettledInv'
<1> USE NobodyAssumption DEF TypeInv, TypeOK, AloneWrites, Goto, ReturnWith, Reads, Writes, Operations,
            catalogVars, requestVars, callVars, loginVars, readVars, AloneInv, HolderInv, SettledInv, IsWrite
<1>1. ASSUME NEW name \in Names, NEW password \in Passwords, LogIn(name, password) PROVE SettledInv'
  BY <1>1 DEF LogIn
<1>2. ASSUME Tick PROVE SettledInv'
  BY <1>2 DEF Tick
<1>3. ASSUME NEW r \in Requests, NEW o \in Writes, ArriveWrite(r, o) PROVE SettledInv'
  BY <1>3 DEF ArriveWrite
<1>4. ASSUME NEW r \in Requests, NEW o \in Reads, ArriveRead(r, o) PROVE SettledInv'
  BY <1>4 DEF ArriveRead
<1>5. ASSUME NEW r \in Requests, Cancel(r) PROVE SettledInv'
  BY <1>5 DEF Cancel
<1>6. ASSUME NEW r \in Requests, Authorised(r) PROVE SettledInv'
  BY <1>6 DEF Authorised
<1>7. ASSUME NEW r \in Requests, Unauthorised(r) PROVE SettledInv'
  BY <1>7 DEF Unauthorised
<1>8. ASSUME NEW r \in Requests, Begin(r) PROVE SettledInv'
  BY <1>8 DEF Begin, StartWork, BeginUpdate, BeginDrop
<1>9. ASSUME NEW r \in Requests, Refuse(r) PROVE SettledInv'
  BY <1>9 DEF Refuse, ServerCode
<1>10. ASSUME NEW r \in Requests, Unreachable(r) PROVE SettledInv'
  BY <1>10 DEF Unreachable
<1>11. ASSUME NEW r \in Requests, ReadFlag(r) PROVE SettledInv'
  BY <1>11 DEF ReadFlag, ClientStatus, ServerStatus
<1>12. ASSUME NEW r \in Requests, Count(r) PROVE SettledInv'
  BY <1>12 DEF Count
<1>13. ASSUME NEW r \in Requests, CountFails(r) PROVE SettledInv'
  BY <1>13 DEF CountFails
<1>14. ASSUME NEW r \in Requests, Answer(r) PROVE SettledInv'
  BY <1>14 DEF Answer, HttpStatus, CoreError
<1>15. ASSUME NEW r \in Requests, Depart(r) PROVE SettledInv'
  BY <1>15 DEF Depart
<1>16. ASSUME NEW o \in Writes, StrayBegins(o) PROVE SettledInv'
  BY <1>16 DEF StrayBegins, StartWork, BeginUpdate, BeginDrop
<1>17. ASSUME Work PROVE SettledInv'
  BY <1>17 DEF Work, Insert, Seal, Truncate, Become
<1>18. ASSUME Succeed PROVE SettledInv'
  BY <1>18 DEF Succeed, Announce, Events
<1>19. ASSUME FailWork PROVE SettledInv'
  BY <1>19 DEF FailWork, Fail, Become
<1>20. ASSUME Finish PROVE SettledInv'
  BY <1>20 DEF Finish, Release, ServerCode
<1>21. ASSUME Die PROVE SettledInv'
  BY <1>21 DEF Die, Crash, Served
<1>22. ASSUME UNCHANGED vars PROVE SettledInv'
  BY <1>22 DEF vars
<1> QED
  BY <1>1, <1>2, <1>3, <1>4, <1>5, <1>6, <1>7, <1>8, <1>9, <1>10, <1>11, <1>12, <1>13, <1>14, <1>15, <1>16, <1>17, <1>18, <1>19, <1>20, <1>21, <1>22
     DEF Next, Request

\* Whatever is read meanwhile is read from one table.
LEMMA NextKeepsReads ==
    ASSUME TypeInv, SettledInv, HolderInv, AloneInv, ReadInv, [Next]_vars
    PROVE  ReadInv'
<1> USE NobodyAssumption DEF TypeInv, TypeOK, AloneWrites, Goto, ReturnWith, Reads, Writes, Operations,
            catalogVars, requestVars, callVars, loginVars, readVars, SettledInv, HolderInv, AloneInv, ReadInv, IsWrite
<1>1. ASSUME NEW name \in Names, NEW password \in Passwords, LogIn(name, password) PROVE ReadInv'
  BY <1>1 DEF LogIn
<1>2. ASSUME Tick PROVE ReadInv'
  BY <1>2 DEF Tick
<1>3. ASSUME NEW r \in Requests, NEW o \in Writes, ArriveWrite(r, o) PROVE ReadInv'
  BY <1>3 DEF ArriveWrite
<1>4. ASSUME NEW r \in Requests, NEW o \in Reads, ArriveRead(r, o) PROVE ReadInv'
  BY <1>4 DEF ArriveRead
<1>5. ASSUME NEW r \in Requests, Cancel(r) PROVE ReadInv'
  BY <1>5 DEF Cancel
<1>6. ASSUME NEW r \in Requests, Authorised(r) PROVE ReadInv'
  BY <1>6 DEF Authorised
<1>7. ASSUME NEW r \in Requests, Unauthorised(r) PROVE ReadInv'
  BY <1>7 DEF Unauthorised
<1>8. ASSUME NEW r \in Requests, Begin(r) PROVE ReadInv'
  BY <1>8 DEF Begin, StartWork, BeginUpdate, BeginDrop
<1>9. ASSUME NEW r \in Requests, Refuse(r) PROVE ReadInv'
  BY <1>9 DEF Refuse, ServerCode
<1>10. ASSUME NEW r \in Requests, Unreachable(r) PROVE ReadInv'
  BY <1>10 DEF Unreachable
<1>11. ASSUME NEW r \in Requests, ReadFlag(r) PROVE ReadInv'
  BY <1>11 DEF ReadFlag, ClientStatus, ServerStatus
<1>12. ASSUME NEW r \in Requests, Count(r) PROVE ReadInv'
  BY <1>12 DEF Count
<1>13. ASSUME NEW r \in Requests, CountFails(r) PROVE ReadInv'
  BY <1>13 DEF CountFails
<1>14. ASSUME NEW r \in Requests, Answer(r) PROVE ReadInv'
  BY <1>14 DEF Answer, HttpStatus, CoreError
<1>15. ASSUME NEW r \in Requests, Depart(r) PROVE ReadInv'
  BY <1>15 DEF Depart
<1>16. ASSUME NEW o \in Writes, StrayBegins(o) PROVE ReadInv'
  BY <1>16 DEF StrayBegins, StartWork, BeginUpdate, BeginDrop
<1>17. ASSUME Work PROVE ReadInv'
  BY <1>17 DEF Work, Insert, Seal, Truncate, Become
<1>18. ASSUME Succeed PROVE ReadInv'
  BY <1>18 DEF Succeed, Announce, Events
<1>19. ASSUME FailWork PROVE ReadInv'
  BY <1>19 DEF FailWork, Fail, Become
<1>20. ASSUME Finish PROVE ReadInv'
  BY <1>20 DEF Finish, Release, ServerCode
<1>21. ASSUME Die PROVE ReadInv'
  BY <1>21 DEF Die, Crash, Served
<1>22. ASSUME UNCHANGED vars PROVE ReadInv'
  BY <1>22 DEF vars
<1> QED
  BY <1>1, <1>2, <1>3, <1>4, <1>5, <1>6, <1>7, <1>8, <1>9, <1>10, <1>11, <1>12, <1>13, <1>14, <1>15, <1>16, <1>17, <1>18, <1>19, <1>20, <1>21, <1>22
     DEF Next, Request

ServiceInv == HolderInv /\ AnswerInv /\ AloneInv /\ SettledInv /\ ReadInv

\* They hold together in every reachable state.
LEMMA ServiceInvInductive == Spec => []ServiceInv
<1>1. Init => ServiceInv
  BY DEF Init, CatalogInit, ServiceInv, HolderInv, AnswerInv, AloneInv, SettledInv, ReadInv, Reads, Writes
<1>2. TypeInv /\ ServiceInv /\ [Next]_vars => ServiceInv'
  BY NextKeepsHolder, NextKeepsAnswers, NextKeepsAloneInv, NextKeepsSettled, NextKeepsReads
     DEF ServiceInv
<1> QED
  BY <1>1, <1>2, TypeInvInductive, PTL DEF Spec

\* 200 is answered only to a write that has handed over its event, and 401, 202
\* and 409 only to one without any effect, whatever the other requests do, whoever
\* cancels and whenever the update service dies (api.go:157-181, 225-246).
THEOREM AnswersCorrect == Spec => []StatusTruthful
<1>1. ServiceInv => StatusTruthful
  BY DEF ServiceInv, AnswerInv, StatusTruthful
<1> QED
  BY <1>1, ServiceInvInductive, PTL

\* Who reads after a write that was answered by 200 and met no other finds what it
\* left, for any table and any number of other reads (update/core/service.go:46-49,
\* 98; storage.go:44-68).
THEOREM ReadsCorrect == Spec => []ReadsAfterWrite
<1>1. ASSUME TypeInv, ServiceInv PROVE ReadsAfterWrite
  <2> SUFFICES ASSUME NEW r \in Requests, at[r] = "answer", status[r] = 200, op[r] \in Reads,
                      after[r] # "unknown"
               PROVE  /\ op[r] = "status" => told[r] = "idle"
                      /\ op[r] = "stats" => counts[r] = <<comics, comics>>
                      /\ after[r] = "drop" => comics = {}
    BY DEF ReadsAfterWrite
  <2>1. /\ op[r] = "status" => told[r] = "idle"
        /\ after[r] = "drop" => comics = {}
    BY <1>1 DEF ServiceInv, ReadInv, SettledInv
  <2>2. ASSUME op[r] = "stats" PROVE counts[r] = <<comics, comics>>
    <3>1. counts[r] \in Seq(SUBSET Keys) /\ Len(counts[r]) = 2
      BY <1>1, <2>2 DEF TypeInv, TypeOK, ServiceInv, ReadInv
    <3>2. \A n \in DOMAIN counts[r] : counts[r][n] = comics
      BY <1>1 DEF ServiceInv, ReadInv
    <3> QED
      BY <3>1, <3>2
  <2> QED
    BY <2>1, <2>2
<1> QED
  BY <1>1, TypeInvInductive, ServiceInvInductive, PTL

-----------------------------------------------------------------------------
(* Logins.                                                                  *)

\* The token and the time since the login behind it are two halves of one life.
TokenInv == token + sinceLogin = TTL

\* Only a login and the clock touch either.
LEMMA NextKeepsToken ==
    ASSUME TypeInv, TokenInv, [Next]_vars
    PROVE  TokenInv'
<1> USE TTLAssumption DEF TypeInv, TypeOK, TokenInv, loginVars
<1>1. ASSUME NEW name \in Names, NEW password \in Passwords, LogIn(name, password) PROVE TokenInv'
  BY <1>1 DEF LogIn, LoginAccepts, Users
<1>2. CASE Tick
  BY <1>2 DEF Tick
<1>3. CASE ~Tick /\ UNCHANGED loginVars
  BY <1>3
<1>4. ASSUME NEW r \in Requests,
             \/ \E o \in Writes : ArriveWrite(r, o)
             \/ \E o \in Reads : ArriveRead(r, o)
             \/ Cancel(r) \/ Request(r)
      PROVE  UNCHANGED loginVars
  BY <1>4 DEF ArriveWrite, ArriveRead, Cancel, Request, Authorised, Unauthorised, Begin, Refuse,
              Unreachable, ReadFlag, Count, CountFails, Answer, Depart
<1>5. ASSUME \/ \E o \in Writes : StrayBegins(o)
             \/ Work \/ Succeed \/ FailWork \/ Finish \/ Die \/ UNCHANGED vars
      PROVE  UNCHANGED loginVars
  BY <1>5 DEF StrayBegins, Work, Succeed, FailWork, Finish, Die, vars
<1> QED
  BY <1>1, <1>2, <1>3, <1>4, <1>5 DEF Next

\* No write passes the gateway outside the life of a token that the right password
\* has bought, however long a token lives (auth.go:49-95).
THEOREM LoginRequired == Spec => OnlyLoggedIn
<1> DEFINE Passes == \A r \in Requests : (at[r] = "auth" /\ at'[r] = "call") => sinceLogin < TTL
<1>1. Init => TokenInv
  BY TTLAssumption DEF Init, TokenInv
<1>2. TypeInv /\ TokenInv /\ [Next]_vars => TokenInv'
  BY NextKeepsToken
<1>3. ASSUME TypeInv, TokenInv, [Next]_vars PROVE [Passes]_vars
  <2> USE DEF TypeInv, TypeOK, Goto, ReturnWith
  <2>1. ASSUME NEW r \in Requests, Authorised(r) PROVE Passes
    BY <2>1, TTLAssumption, <1>3 DEF Authorised, TokenInv
  <2>2. ASSUME NEW r \in Requests,
               \/ \E o \in Writes : ArriveWrite(r, o)
               \/ \E o \in Reads : ArriveRead(r, o)
               \/ Cancel(r) \/ (Request(r) /\ ~Authorised(r))
        PROVE  Passes
    BY <1>3, <2>2 DEF ArriveWrite, ArriveRead, Cancel, Request, Unauthorised, Begin, Refuse,
                Unreachable, ReadFlag, Count, CountFails, Answer, Depart
  <2>3. ASSUME \/ \E name \in Names, password \in Passwords : LogIn(name, password)
               \/ Tick \/ \E o \in Writes : StrayBegins(o)
               \/ Work \/ Succeed \/ FailWork
        PROVE  Passes
    BY <2>3 DEF LogIn, Tick, StrayBegins, Work, Succeed, FailWork, requestVars
  <2>4. CASE Finish \/ Die
    BY <1>3, <2>4 DEF Finish, Die
  <2> QED
    BY <1>3, <2>1, <2>2, <2>3, <2>4 DEF Next
<1> QED
  BY <1>1, <1>2, <1>3, TypeInvInductive, PTL DEF Spec, OnlyLoggedIn

-----------------------------------------------------------------------------
(* The gateway and the service behind it.                                   *)

\* A request, from its arrival to its departure, does nothing to the update service
\* but begin an operation that is free to begin.
LEMMA RequestAsksCatalog ==
    ASSUME NEW r \in Requests,
           \/ \E o \in Writes : ArriveWrite(r, o)
           \/ \E o \in Reads : ArriveRead(r, o)
           \/ Cancel(r) \/ Request(r)
    PROVE  BeginUpdate \/ BeginDrop \/ UNCHANGED catalogVars
<1>1. CASE Begin(r)
  BY <1>1 DEF Begin, StartWork
<1>2. CASE ~Begin(r)
  BY <1>2 DEF ArriveWrite, ArriveRead, Cancel, Request, Authorised, Unauthorised, Refuse,
              Unreachable, ReadFlag, Count, CountFails, Answer, Depart
<1> QED
  BY <1>1, <1>2

\* Whatever the requests are and however they end, by a client that leaves, a call that
\* begins without its request or a service that dies, the update service seen through
\* the gateway is Catalog and no more: what is proved of Catalog's implementation, and
\* of the index that follows Catalog, holds behind the gateway (api.go:157-181, 225-246,
\* update/adapters/grpc/server.go:33-77).
THEOREM RequestsRespectCatalog == Spec => CatalogSpec
<1>1. Init => CatalogInit
  BY DEF Init
<1>2. [Next]_vars => [CatalogNext]_catalogVars
  <2>1. ASSUME NEW o \in Writes, StrayBegins(o) PROVE [CatalogNext]_catalogVars
    BY <2>1 DEF StrayBegins, StartWork, CatalogNext
  <2>2. CASE Work \/ Succeed \/ FailWork \/ Finish \/ Die
    BY <2>2 DEF Work, Succeed, FailWork, Finish, Die, CatalogNext
  <2>3. ASSUME NEW name \in Names, NEW password \in Passwords, LogIn(name, password)
        PROVE  UNCHANGED catalogVars
    BY <2>3 DEF LogIn
  <2>4. CASE Tick \/ UNCHANGED vars
    BY <2>4 DEF Tick, vars
  <2> QED
    BY <2>1, <2>2, <2>3, <2>4, RequestAsksCatalog DEF Next, CatalogNext
<1> QED
  BY <1>1, <1>2, PTL DEF Spec, CatalogSpec
=============================================================================
