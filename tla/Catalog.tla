------------------------------ MODULE Catalog ------------------------------
(***************************************************************************)
(* What the update service promises to the rest of the system, whatever    *)
(* goroutines it uses: one operation at a time owns the table of comics;   *)
(* an update only adds rows and a drop only removes all of them; the rows  *)
(* are frozen before the operation's event is handed to the broker; and an *)
(* operation that fails hands over no event, so what it changed stays      *)
(* unannounced ("dirty") until a later operation succeeds.                 *)
(*                                                                         *)
(* UpdateService implements this specification; IndexSync composes it with *)
(* the index of the isearch service.                                       *)
(***************************************************************************)
CONSTANT Keys            \* the ids a row of the table can have

VARIABLES
    comics,              \* ids of the rows of table comics
    phase,               \* where the operation that owns the table stands
    lastEvent,           \* the last event handed to the broker
    dirty                \* has the table changed since that event?

catalogVars == <<comics, phase, lastEvent, dirty>>

Phases == {"free", "filling", "filled", "emptying", "emptied", "closing"}
Events == {"update", "drop"}

CatalogTypeOK ==
    /\ comics \subseteq Keys
    /\ phase \in Phases
    /\ lastEvent \in Events \cup {"none"}
    /\ dirty \in BOOLEAN

\* The table is created empty (migrations); later tables are reached by steps.
CatalogInit ==
    /\ comics = {}
    /\ phase = "free"
    /\ lastEvent = "none"
    /\ dirty = FALSE

Become(rows) ==
    /\ comics' = rows
    /\ dirty' = (dirty \/ rows # comics)

BeginUpdate == phase = "free" /\ phase' = "filling" /\ UNCHANGED <<comics, lastEvent, dirty>>

BeginDrop == phase = "free" /\ phase' = "emptying" /\ UNCHANGED <<comics, lastEvent, dirty>>

Insert(k) ==
    /\ phase = "filling"
    /\ Become(comics \cup {k})
    /\ UNCHANGED <<phase, lastEvent>>

\* All the goroutines of the update have ended without an error.
Seal == phase = "filling" /\ phase' = "filled" /\ UNCHANGED <<comics, lastEvent, dirty>>

Truncate ==
    /\ phase = "emptying"
    /\ phase' = "emptied"
    /\ Become({})
    /\ UNCHANGED lastEvent

\* A TRUNCATE that reports an error may still have been carried out.
Fail ==
    /\ phase \in {"filling", "emptying"}
    /\ phase' = "closing"
    /\ \/ UNCHANGED <<comics, dirty>>
       \/ phase = "emptying" /\ Become({})
    /\ UNCHANGED lastEvent

Announce(event) ==
    /\ phase = (IF event = "update" THEN "filled" ELSE "emptied")
    /\ phase' = "closing"
    /\ lastEvent' = event
    /\ dirty' = FALSE
    /\ UNCHANGED comics

Release == phase = "closing" /\ phase' = "free" /\ UNCHANGED <<comics, lastEvent, dirty>>

\* The process dies, the table survives; the process is restarted.
Crash == phase' = "free" /\ UNCHANGED <<comics, lastEvent, dirty>>

CatalogNext ==
    \/ BeginUpdate \/ BeginDrop
    \/ \E k \in Keys : Insert(k)
    \/ Seal \/ Truncate \/ Fail
    \/ \E event \in Events : Announce(event)
    \/ Release \/ Crash

CatalogSpec == CatalogInit /\ [][CatalogNext]_catalogVars
=============================================================================
