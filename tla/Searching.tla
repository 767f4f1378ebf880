------------------------------ MODULE Searching ------------------------------
(***************************************************************************)
(* A search request, in the service search (rank every comic of the table  *)
(* by Jaccard's coefficient) or in isearch (count in the inverted index,   *)
(* then fetch the best from the table), while the update service changes   *)
(* the table and isearch rebuilds its index.  Requests write nothing that  *)
(* another one reads, so one at a time shows all that can happen to them.  *)
(***************************************************************************)
EXTENDS Integers, FiniteSets, Sequences, SequencesExt

CONSTANTS
    Ids,            \* ids of comics
    Vocabulary,     \* what Norm can return
    MaxLimit        \* bound: the largest limit asked for

ASSUME IdsAssumption == IsFiniteSet(Ids) /\ Ids \subseteq Nat
ASSUME VocabularyAssumption == IsFiniteSet(Vocabulary)
ASSUME LimitAssumption == MaxLimit \in Nat

VARIABLES
    text,           \* the words update stores for each id
    comics,         \* rows of the table
    index,          \* the inverted index of isearch
    at,             \* where the request stands
    kind,           \* the service it is for
    limit,          \* req.Limit
    query,          \* queryWords
    best,           \* comicsIDs of SearchIndex
    reply,          \* ids of the reply, in its order
    status,         \* HTTP status it gets back
    seen,           \* history: comics the ranking was made of
    fetched,        \* history: rows of the table when the reply was made
    calm            \* history: the ranking saw the table as it still is

worldVars == <<text, comics, index>>
requestVars == <<at, kind, limit, query, best, reply, status, seen, fetched>>
vars == <<worldVars, requestVars, calm>>

Lists(S) == UNION {[1..n -> S] : n \in 0..Cardinality(S)}

TypeOK ==
    /\ text \in [Ids -> SUBSET Vocabulary]
    /\ comics \subseteq Ids
    /\ index \in [Vocabulary -> SUBSET Ids]
    /\ at \in {"idle", "norm", "rank", "fetch", "done", "failed", "answer"}
    /\ kind \in {"search", "isearch"}
    /\ limit \in 0..MaxLimit
    /\ query \subseteq Vocabulary
    /\ best \in Lists(Ids) /\ reply \in Lists(Ids)
    /\ status \in {0, 200, 400, 500}
    /\ seen \subseteq Ids /\ fetched \subseteq Ids
    /\ calm \in BOOLEAN

NewService == index = [w \in Vocabulary |-> {}]

Init ==
    /\ text \in [Ids -> SUBSET Vocabulary]
    /\ comics = {}
    /\ NewService
    /\ at = "idle" /\ kind = "search" /\ limit = 0 /\ query = {}
    /\ best = <<>> /\ reply = <<>> /\ status = 0 /\ seen = {} /\ fetched = {}
    /\ calm = FALSE

-----------------------------------------------------------------------------
(* What the services compute.                                               *)

\* Fault: the length of the query is left out of the union.
GetScoreOfComic(k) ==
    [num |-> Cardinality(text[k] \cap query),
     den |-> Cardinality(text[k])]

\* getScore, as a fraction; a comic without words scores nothing.
GetScore(k) ==
    LET intersection == Cardinality({w \in text[k] : w \in query})
    IN  [num |-> intersection,
         den |-> Cardinality(query) + Cardinality(text[k]) - intersection]

Less(a, b) == a.num * b.den < b.num * a.den

\* The loop that fills results, or res, up to the limit.
Take(s) == SubSeq(s, 1, IF Len(s) < limit THEN Len(s) ELSE limit)

\* What Search may reply: the comics that have a score, none before a better one;
\* equals come in any order, as sort.Slice is not stable and a SELECT without
\* ORDER BY gives them in any order anyway.
Ranked(rows) ==
    LET scored == {k \in rows : text[k] # {} /\ GetScore(k).num > 0}
        Sorted(p) == \A i, j \in DOMAIN p :
                        i < j => ~Less(GetScore(p[i]), GetScore(p[j]))
    IN  {Take(s) : s \in {p \in SetToSeqs(scored) : Sorted(p)}}

\* Fault: a word keeps only the last comic that has it.
InvertedLast(rows) ==
    [w \in Vocabulary |->
        {k \in rows : w \in text[k] /\ \A l \in rows : w \in text[l] => l <= k}]

\* The loops of BuildIndex.  Norm returns a word once, so a list has an id once.
Inverted(rows) == [w \in Vocabulary |-> {k \in rows : w \in text[k]}]

\* The words of the query that the index has a comic under.
Frequency(k) == Cardinality({w \in query : k \in index[w]})

\* Fault: the oldest comic first among equals.
SortByFrequencyOldest ==
    LET Better(k, l) == \/ Frequency(k) > Frequency(l)
                        \/ Frequency(k) = Frequency(l) /\ k < l
        Sorted(p) == \A i, j \in DOMAIN p : i < j => ~Better(p[j], p[i])
    IN  {Take(s) : s \in {p \in SetToSeqs(UNION {index[w] : w \in query}) : Sorted(p)}}

\* sortByFrequency of the lists of the query's words, one after the other; its
\* order leaves one result.
SortByFrequency ==
    LET Better(k, l) == \/ Frequency(k) > Frequency(l)
                        \/ Frequency(k) = Frequency(l) /\ k > l
        Sorted(p) == \A i, j \in DOMAIN p : i < j => ~Better(p[j], p[i])
    IN  {Take(s) : s \in {p \in SetToSeqs(UNION {index[w] : w \in query}) : Sorted(p)}}

-----------------------------------------------------------------------------
(* The request.                                                             *)

Goto(s) == at' = s

\* Fault: a limit below zero is let through.
AskSearchAny ==
    /\ at = "idle" /\ Goto("norm")
    /\ kind' = "search"
    /\ limit' \in -1..MaxLimit
    /\ UNCHANGED <<worldVars, query, best, reply, status, seen, fetched, calm>>

\* A handler accepts a limit that is no negative number (10 if there is none) and
\* a phrase that is not empty.
AskSearch ==
    /\ at = "idle" /\ Goto("norm")
    /\ kind' = "search"
    /\ limit' \in 0..MaxLimit
    /\ UNCHANGED <<worldVars, query, best, reply, status, seen, fetched, calm>>

AskIndex ==
    /\ at = "idle" /\ Goto("norm")
    /\ kind' = "isearch"
    /\ limit' \in 0..MaxLimit
    /\ UNCHANGED <<worldVars, query, best, reply, status, seen, fetched, calm>>

\* Anything else it answers itself.
AskNothing ==
    /\ at = "idle" /\ Goto("answer")
    /\ kind' \in {"search", "isearch"}
    /\ status' = 400
    /\ UNCHANGED <<worldVars, limit, query, best, reply, seen, fetched, calm>>

\* Norm returns any words, none when the phrase has only stop words.
Normed ==
    /\ at = "norm" /\ Goto("rank")
    /\ query' \in SUBSET Vocabulary
    /\ UNCHANGED <<worldVars, kind, limit, best, reply, status, seen, fetched, calm>>

\* Norm or the database returns an error, and the request ends with it.  An
\* empty list of ids needs no database.
Fails ==
    /\ at = "norm" \/ (at = "rank" /\ kind = "search") \/ (at = "fetch" /\ best # <<>>)
    /\ Goto("failed")
    /\ UNCHANGED <<worldVars, kind, limit, query, best, reply, status, seen, fetched, calm>>

\* GetAllComics and the rest of Search.
Search ==
    /\ at = "rank" /\ kind = "search" /\ Goto("done")
    /\ reply' \in Ranked(comics)
    /\ seen' = comics /\ fetched' = comics
    /\ UNCHANGED <<worldVars, kind, limit, query, best, status, calm>>

\* index.Load and the ranking.
LoadIndex ==
    /\ at = "rank" /\ kind = "isearch" /\ Goto("fetch")
    /\ best' \in SortByFrequency
    /\ seen' = UNION {index[w] : w \in Vocabulary}
    /\ calm' = (index = Inverted(comics))
    /\ UNCHANGED <<worldVars, kind, limit, query, reply, status, fetched>>

\* GetComicsByIDs: IN (...) gives the rows in any order.
FetchRows ==
    /\ at = "fetch" /\ Goto("done")
    /\ reply' \in SetToSeqs(ToSet(best) \cap comics)
    /\ fetched' = comics
    /\ best' = <<>>
    /\ UNCHANGED <<worldVars, kind, limit, query, status, seen, calm>>

\* The gRPC server and the gateway's client copy the comics one by one, and the
\* handler sends them; whatever the error and its code, it answers it by 500.
Respond ==
    /\ at \in {"done", "failed"} /\ Goto("answer")
    /\ status' = IF at = "done" THEN 200 ELSE 500
    /\ UNCHANGED <<worldVars, kind, limit, query, best, reply, seen, fetched, calm>>

Leave ==
    /\ at = "answer" /\ Goto("idle")
    /\ kind' = "search" /\ limit' = 0 /\ query' = {} /\ status' = 0
    /\ best' = <<>> /\ reply' = <<>> /\ seen' = {} /\ fetched' = {}
    /\ calm' = FALSE
    /\ UNCHANGED worldVars

-----------------------------------------------------------------------------
(* The world around it.                                                     *)

\* The update service stores a row, or empties the table.
Insert(k) ==
    /\ k \notin comics
    /\ comics' = comics \cup {k}
    /\ calm' = (calm /\ at # "fetch")
    /\ UNCHANGED <<text, index, requestVars>>

Truncate ==
    /\ comics # {}
    /\ comics' = {}
    /\ calm' = (calm /\ at # "fetch")
    /\ UNCHANGED <<text, index, requestVars>>

\* BuildIndex in one step: to a request that has loaded the index, or will, it
\* matters only which rows the index shows, and the table moves on afterwards as
\* it does between the halves (which IndexSync has, with their causes).
BuildIndex ==
    /\ index' = Inverted(comics)
    /\ UNCHANGED <<text, comics, requestVars, calm>>

DropIndex ==
    /\ index' = [w \in Vocabulary |-> {}]
    /\ UNCHANGED <<text, comics, requestVars, calm>>

Request ==
    \/ AskSearch \/ AskIndex \/ AskNothing \/ Normed \/ Fails
    \/ Search \/ LoadIndex \/ FetchRows \/ Respond \/ Leave

Next ==
    \/ Request
    \/ \E k \in Ids : Insert(k)
    \/ Truncate \/ BuildIndex \/ DropIndex

Spec == Init /\ [][Next]_vars

-----------------------------------------------------------------------------
(* Properties.                                                              *)

Matches(rows) == {k \in rows : text[k] \cap query # {}}

\* k has the larger Jaccard coefficient |A intersect B| / |A union B|.
Closer(k, l) ==
    Cardinality(text[k] \cap query) * Cardinality(text[l] \cup query)
        > Cardinality(text[l] \cap query) * Cardinality(text[k] \cup query)

\* Search replies with the comics closest to the query by Jaccard's coefficient,
\* the closest first, as many as there are up to the limit (service.go:39-93 of
\* search, and src/README.md:53).
SearchReplyBest ==
    (status = 200 /\ kind = "search") =>
        LET found == ToSet(reply)
            matches == Matches(seen)
        IN  /\ found \subseteq matches
            /\ Len(reply) = Cardinality(found)
            /\ \/ found = matches /\ Len(reply) <= limit
               \/ Len(reply) = limit
            /\ \A i, j \in DOMAIN reply : i < j => ~Closer(reply[j], reply[i])
            /\ \A k \in matches \ found, l \in found : ~Closer(k, l)

\* l comes before k in isearch: more words in common, or as many and newer.
Ahead(l, k) ==
    LET Common(c) == Cardinality(text[c] \cap query)
    IN  Common(l) > Common(k) \/ (Common(l) = Common(k) /\ l > k)

\* Whatever happens to the table and the index while SearchIndex runs, its reply
\* has exactly those of the limit best comics of the index it loaded that the
\* table still has (service.go:60-77 and 84-121 of isearch, storage.go:68-97).
IndexReplyBest ==
    (status = 200 /\ kind = "isearch") =>
        LET matches == Matches(seen)
            Rank(k) == Cardinality({l \in matches : Ahead(l, k)})
        IN  ToSet(reply) = {k \in matches : Rank(k) < limit /\ k \in fetched}

\* The two services find the same comics: with an index that shows the table, a
\* table that stands still and a limit that leaves nothing out, SearchIndex
\* replies with the comics Search gives a score to.
SearchesAgree ==
    (status = 200 /\ kind = "isearch" /\ calm /\ limit >= Cardinality(Matches(fetched))) =>
        ToSet(reply) = {k \in fetched : GetScore(k).num > 0}

\* What sortByFrequency is tested for (service_test.go:15-53 of isearch): the
\* comics come by the words they have in common, and then the newest first.
IndexReplyRanked ==
    (status = 200 /\ kind = "isearch") =>
        \A i, j \in DOMAIN reply : i < j => Ahead(reply[i], reply[j])
=============================================================================
