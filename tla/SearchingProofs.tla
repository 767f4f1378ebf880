--------------------------- MODULE SearchingProofs ---------------------------
(***************************************************************************)
(* Theorems about the service search, for any comics, any vocabulary and   *)
(* any limit.                                                              *)
(***************************************************************************)
EXTENDS Searching, FiniteSetTheorems, SequenceTheorems, TLAPS

-----------------------------------------------------------------------------
(* The score.                                                               *)

\* getScore is Jaccard's coefficient: the union is counted by the words the two
\* have each and the words they share (service.go:77-93 of search).
LEMMA ScoreIsJaccard ==
    ASSUME NEW A \in SUBSET Vocabulary, NEW B \in SUBSET Vocabulary
    PROVE  /\ {w \in A : w \in B} = A \cap B
           /\ Cardinality(A \cap B) \in Nat
           /\ Cardinality(A \cup B) \in Nat
           /\ Cardinality(B) + Cardinality(A) - Cardinality(A \cap B) = Cardinality(A \cup B)
           /\ Cardinality(A \cap B) > 0 <=> A \cap B # {}
<1>1. IsFiniteSet(A) /\ IsFiniteSet(B) /\ IsFiniteSet(A \cap B) /\ IsFiniteSet(A \cup B)
  BY VocabularyAssumption, FS_Subset
<1>2. /\ Cardinality(A) \in Nat /\ Cardinality(B) \in Nat
      /\ Cardinality(A \cap B) \in Nat /\ Cardinality(A \cup B) \in Nat
  BY <1>1, FS_CardinalityType
<1>3. Cardinality(A \cup B) = Cardinality(A) + Cardinality(B) - Cardinality(A \cap B)
  BY <1>1, FS_Union
<1>4. Cardinality(A \cap B) = 0 <=> A \cap B = {}
  BY <1>1, FS_EmptySet
<1>5. Cardinality(B) + Cardinality(A) - Cardinality(A \cap B) = Cardinality(A \cup B)
  BY <1>2, <1>3
<1>6. Cardinality(A \cap B) > 0 <=> A \cap B # {}
  BY <1>2, <1>4
<1> QED
  BY <1>2, <1>5, <1>6

\* What a request and the table consist of.
Typed ==
    /\ text \in [Ids -> SUBSET Vocabulary]
    /\ comics \subseteq Ids
    /\ limit \in Nat
    /\ query \subseteq Vocabulary

\* The order of the scores is that of the coefficients, and a comic has a score
\* when it has a word of the query.
LEMMA ScoreOrders ==
    ASSUME Typed
    PROVE  /\ \A k, l \in Ids : Less(GetScore(l), GetScore(k)) <=> Closer(k, l)
           /\ \A k \in Ids : GetScore(k).num > 0 <=> text[k] \cap query # {}
<1>1. ASSUME NEW k \in Ids
      PROVE  /\ GetScore(k).num = Cardinality(text[k] \cap query)
             /\ GetScore(k).den = Cardinality(text[k] \cup query)
             /\ GetScore(k).num \in Nat /\ GetScore(k).den \in Nat
             /\ GetScore(k).num > 0 <=> text[k] \cap query # {}
  <2>1. text[k] \in SUBSET Vocabulary /\ query \in SUBSET Vocabulary
    BY DEF Typed
  <2> QED
    BY <2>1, ScoreIsJaccard DEF GetScore
<1>2. ASSUME NEW k \in Ids, NEW l \in Ids
      PROVE  Less(GetScore(l), GetScore(k)) <=> Closer(k, l)
  <2> DEFINE a == GetScore(k).num
             b == GetScore(k).den
             c == GetScore(l).num
             d == GetScore(l).den
  <2>1. Less(GetScore(l), GetScore(k)) <=> c * b < a * d
    BY DEF Less
  <2>2. Closer(k, l) <=> a * d > c * b
    BY <1>1 DEF Closer
  <2>3. a \in Nat /\ b \in Nat /\ c \in Nat /\ d \in Nat
    BY <1>1
  <2> HIDE DEF a, b, c, d
  <2> QED
    BY <2>1, <2>2, <2>3
<1> QED
  BY <1>1, <1>2

-----------------------------------------------------------------------------
(* The reply.                                                               *)

\* A list that has each element of S once.
LEMMA ListOfSet ==
    ASSUME NEW S, IsFiniteSet(S), NEW p \in SetToSeqs(S)
    PROVE  /\ Cardinality(S) \in Nat
           /\ p \in Seq(S) /\ Len(p) = Cardinality(S) /\ DOMAIN p = 1 .. Cardinality(S)
           /\ \A i \in 1 .. Cardinality(S) : p[i] \in S
           /\ \A i, j \in 1 .. Cardinality(S) : i # j => p[i] # p[j]
           /\ S = {p[i] : i \in 1 .. Cardinality(S)}
<1> DEFINE c == Cardinality(S)
<1>1. c \in Nat /\ p \in [1 .. c -> S] /\ \A i, j \in 1 .. c : i # j => p[i] # p[j]
  BY FS_CardinalityType DEF SetToSeqs
<1>2. S = {p[i] : i \in 1 .. c}
  <2>1. p \in Injection(1 .. c, S)
    BY <1>1 DEF Injection, IsInjective
  <2>2. Cardinality(1 .. c) = c
    BY <1>1, FS_Interval
  <2>3. p \in Surjection(1 .. c, S)
    BY <2>1, <2>2, FS_Injection
  <2> QED
    BY <1>1, <2>3 DEF Surjection
<1> QED
  BY <1>1, <1>2

\* What is left of it when it is cut.
LEMMA CutList ==
    ASSUME NEW S, IsFiniteSet(S), NEW p \in SetToSeqs(S), NEW m \in 0 .. Cardinality(S)
    PROVE  /\ SubSeq(p, 1, m) \in [1 .. m -> S]
           /\ Len(SubSeq(p, 1, m)) = m
           /\ \A i \in 1 .. m : SubSeq(p, 1, m)[i] = p[i]
           /\ ToSet(SubSeq(p, 1, m)) = {p[i] : i \in 1 .. m}
           /\ Cardinality({p[i] : i \in 1 .. m}) = m
<1> DEFINE s == SubSeq(p, 1, m)
           T == {p[i] : i \in 1 .. m}
<1>1. m \in Nat /\ \A i \in 1 .. m : i \in 1 .. Cardinality(S) /\ p[i] \in S
  BY ListOfSet
<1>2. s \in Seq(S) /\ Len(s) = m /\ \A i \in 1 .. m : s[i] = p[i]
  BY <1>1, ListOfSet
<1>3. s \in [1 .. m -> S] /\ DOMAIN s = 1 .. m
  BY <1>2, LenProperties
<1>4. ToSet(s) = T
  BY <1>2, <1>3 DEF ToSet
<1>5. Cardinality(T) = m
  <2> DEFINE f == [i \in 1 .. m |-> p[i]]
  <2>1. f \in Surjection(1 .. m, T)
    BY DEF Surjection
  <2>2. f \in Injection(1 .. m, T)
    BY <1>1, ListOfSet DEF Injection, IsInjective
  <2>3. IsFiniteSet(1 .. m) /\ Cardinality(1 .. m) = m
    BY <1>1, FS_Interval
  <2> QED
    BY <2>1, <2>2, <2>3, FS_Surjection
<1> QED
  BY <1>2, <1>3, <1>4, <1>5

\* A reply r made of the closest of the rows: what SearchReplyBest asks for.
Best(r, rows) ==
    LET found == ToSet(r)
        matches == Matches(rows)
    IN  /\ found \subseteq matches
        /\ Len(r) = Cardinality(found)
        /\ \/ found = matches /\ Len(r) <= limit
           \/ Len(r) = limit
        /\ \A i, j \in DOMAIN r : i < j => ~Closer(r[j], r[i])
        /\ \A k \in matches \ found, l \in found : ~Closer(k, l)

\* Search replies with the closest comics, the closest first.
LEMMA RankedBest ==
    ASSUME Typed, NEW rows \in SUBSET Ids, NEW r \in Ranked(rows)
    PROVE  Best(r, rows) /\ r \in Lists(Ids)
<1> DEFINE M == Matches(rows)
           c == Cardinality(M)
<1>1. IsFiniteSet(M) /\ M \subseteq Ids
  BY IdsAssumption, FS_Subset DEF Matches
<1>2. {k \in rows : text[k] # {} /\ GetScore(k).num > 0} = M
  BY ScoreOrders DEF Matches
<1>3. PICK p \in SetToSeqs(M) :
        /\ \A i, j \in DOMAIN p : i < j => ~Less(GetScore(p[i]), GetScore(p[j]))
        /\ r = Take(p)
  BY <1>2 DEF Ranked
<1> DEFINE m == IF Len(p) < limit THEN Len(p) ELSE limit
<1>4. /\ m \in 0 .. c /\ c \in Nat /\ Len(p) = c
      /\ M = {p[i] : i \in 1 .. c}
      /\ r \in [1 .. m -> M] /\ Len(r) = m /\ DOMAIN r = 1 .. m
      /\ \A i \in 1 .. m : r[i] = p[i]
      /\ ToSet(r) = {p[i] : i \in 1 .. m}
      /\ Cardinality(ToSet(r)) = m
  <2>1. c \in Nat /\ Len(p) = c /\ M = {p[i] : i \in 1 .. c}
    BY <1>1, <1>3, ListOfSet
  <2>2. m \in 0 .. c
    BY <2>1 DEF Typed
  <2>3. r = SubSeq(p, 1, m)
    BY <1>3 DEF Take
  <2>4. m \in 0 .. Cardinality(M)
    BY <2>2
  <2> HIDE DEF m, c, M
  <2>5. /\ SubSeq(p, 1, m) \in [1 .. m -> M]
        /\ Len(SubSeq(p, 1, m)) = m
        /\ \A i \in 1 .. m : SubSeq(p, 1, m)[i] = p[i]
        /\ ToSet(SubSeq(p, 1, m)) = {p[i] : i \in 1 .. m}
        /\ Cardinality({p[i] : i \in 1 .. m}) = m
    BY <1>1, <2>4, CutList
  <2>6. /\ r \in [1 .. m -> M] /\ Len(r) = m
        /\ \A i \in 1 .. m : r[i] = p[i]
        /\ ToSet(r) = {p[i] : i \in 1 .. m}
        /\ Cardinality({p[i] : i \in 1 .. m}) = m
    BY <2>3, <2>5
  <2>7. DOMAIN r = 1 .. m
    BY <2>6
  <2> QED
    BY <2>1, <2>2, <2>6, <2>7
<1>5. \A i, j \in 1 .. c : i < j => ~Closer(p[j], p[i])
  <2>1. DOMAIN p = 1 .. c
    BY <1>1, ListOfSet
  <2>2. \A i \in 1 .. c : p[i] \in Ids
    BY <1>1, <1>4
  <2> QED
    BY <1>3, <2>1, <2>2, ScoreOrders
<1> HIDE DEF M, c
<1>6. ToSet(r) \subseteq M
  BY <1>4
<1>7. (ToSet(r) = M /\ Len(r) <= limit) \/ Len(r) = limit
  BY <1>4 DEF Typed
<1>8. \A i, j \in DOMAIN r : i < j => ~Closer(r[j], r[i])
  BY <1>4, <1>5
<1>9. ASSUME NEW k \in M \ ToSet(r), NEW l \in ToSet(r) PROVE ~Closer(k, l)
  <2>1. PICK j \in 1 .. c : k = p[j]
    BY <1>4
  <2>2. PICK i \in 1 .. m : l = p[i]
    BY <1>4
  <2>3. j > m
    BY <1>4, <2>1
  <2> QED
    BY <1>4, <1>5, <2>1, <2>2, <2>3
<1>10. r \in Lists(Ids)
  <2>1. c <= Cardinality(Ids) /\ Cardinality(Ids) \in Nat
    BY <1>1, IdsAssumption, FS_Subset, FS_CardinalityType DEF c
  <2>2. m \in 0 .. Cardinality(Ids)
    BY <1>4, <2>1
  <2>3. r \in [1 .. m -> Ids]
    BY <1>1, <1>4
  <2> HIDE DEF m
  <2> QED
    BY <2>2, <2>3 DEF Lists
<1> QED
  BY <1>4, <1>6, <1>7, <1>8, <1>9, <1>10 DEF Best, M

-----------------------------------------------------------------------------
(* The ranking of isearch.                                                  *)

\* The limit best of the comics that match.
Foremost(rows) ==
    {k \in Matches(rows) : Cardinality({l \in Matches(rows) : Ahead(l, k)}) < limit}

\* The comics an index shows.
Shown == UNION {index[w] : w \in Vocabulary}

\* What SearchIndex takes from an index, whatever rows it was built from.
LEMMA FrequencyBest ==
    ASSUME Typed, NEW rows \in SUBSET Ids, index = Inverted(rows), NEW b \in SortByFrequency
    PROVE  /\ Matches(Shown) = Matches(rows)
           /\ ToSet(b) = Foremost(Shown)
           /\ b \in Lists(Ids)
<1> DEFINE M == Matches(rows)
           c == Cardinality(M)
<1>1. IsFiniteSet(M) /\ M \subseteq Ids
  BY IdsAssumption, FS_Subset DEF Matches
<1>2. \A w \in Vocabulary : index[w] = {k \in rows : w \in text[k]}
  BY DEF Inverted
<1>3. UNION {index[w] : w \in query} = M
  BY <1>2 DEF Matches, Typed
<1>4. Matches(Shown) = M
  BY <1>2 DEF Shown, Matches, Typed
<1>5. \A k \in M : Frequency(k) = Cardinality(text[k] \cap query) /\ Frequency(k) \in Nat
  <2> SUFFICES ASSUME NEW k \in M
               PROVE  Frequency(k) = Cardinality(text[k] \cap query) /\ Frequency(k) \in Nat
    OBVIOUS
  <2>1. {w \in query : k \in index[w]} = text[k] \cap query
    BY <1>2 DEF Matches, Typed
  <2>2. text[k] \in SUBSET Vocabulary /\ query \in SUBSET Vocabulary
    BY <1>1 DEF Typed
  <2> QED
    BY <2>1, <2>2, ScoreIsJaccard DEF Frequency
<1>6. PICK p \in SetToSeqs(M) :
        /\ \A i, j \in DOMAIN p : i < j =>
              ~(\/ Frequency(p[j]) > Frequency(p[i])
                \/ Frequency(p[j]) = Frequency(p[i]) /\ p[j] > p[i])
        /\ b = Take(p)
  BY <1>3 DEF SortByFrequency
<1>7. /\ c \in Nat /\ DOMAIN p = 1 .. c /\ Len(p) = c
      /\ M = {p[i] : i \in 1 .. c}
      /\ \A i, j \in 1 .. c : i # j => p[i] # p[j]
      /\ \A i \in 1 .. c : p[i] \in M /\ p[i] \in Nat
  <2>1. /\ c \in Nat /\ DOMAIN p = 1 .. c /\ Len(p) = c
        /\ M = {p[i] : i \in 1 .. c}
        /\ \A i, j \in 1 .. c : i # j => p[i] # p[j]
        /\ \A i \in 1 .. c : p[i] \in M
    BY <1>1, ListOfSet
  <2> HIDE DEF M, c
  <2> QED
    BY <1>1, <2>1, IdsAssumption
<1> HIDE DEF M, c
<1>8. \A i, j \in 1 .. c : Ahead(p[i], p[j]) <=> i < j
  <2>1. ASSUME NEW i \in 1 .. c, NEW j \in 1 .. c, i < j
        PROVE  Ahead(p[i], p[j]) /\ ~Ahead(p[j], p[i])
    <3>1. /\ Frequency(p[i]) \in Nat /\ Frequency(p[j]) \in Nat
          /\ Frequency(p[i]) = Cardinality(text[p[i]] \cap query)
          /\ Frequency(p[j]) = Cardinality(text[p[j]] \cap query)
      BY <1>5, <1>7
    <3>2. ~(\/ Frequency(p[j]) > Frequency(p[i])
            \/ Frequency(p[j]) = Frequency(p[i]) /\ p[j] > p[i])
      BY <1>6, <1>7, <2>1
    <3>3. p[i] \in Nat /\ p[j] \in Nat /\ p[i] # p[j]
      BY <1>7, <2>1
    <3> QED
      BY <3>1, <3>2, <3>3 DEF Ahead
  <2>2. ASSUME NEW i \in 1 .. c PROVE ~Ahead(p[i], p[i])
    <3>1. Cardinality(text[p[i]] \cap query) \in Nat /\ p[i] \in Nat
      BY <1>5, <1>7
    <3> QED
      BY <3>1 DEF Ahead
  <2> QED
    BY <1>7, <2>1, <2>2
<1>9. \A j \in 1 .. c : Cardinality({l \in M : Ahead(l, p[j])}) = j - 1
  <2> SUFFICES ASSUME NEW j \in 1 .. c PROVE Cardinality({l \in M : Ahead(l, p[j])}) = j - 1
    OBVIOUS
  <2>1. {l \in M : Ahead(l, p[j])} = {p[i] : i \in 1 .. (j - 1)}
    BY <1>7, <1>8
  <2>2. j - 1 \in 0 .. Cardinality(M)
    BY <1>7 DEF c
  <2>3. Cardinality({p[i] : i \in 1 .. (j - 1)}) = j - 1
    BY <1>1, <2>2, CutList
  <2> QED
    BY <2>1, <2>3
<1> DEFINE m == IF Len(p) < limit THEN Len(p) ELSE limit
<1>10. ToSet(b) = {p[i] : i \in 1 .. m} /\ m \in 0 .. c /\ b \in [1 .. m -> M]
  <2>1. m \in 0 .. c
    BY <1>7 DEF Typed
  <2>2. b = SubSeq(p, 1, m)
    BY <1>6 DEF Take
  <2>3. m \in 0 .. Cardinality(M)
    BY <2>1 DEF c
  <2> HIDE DEF m
  <2>4. /\ SubSeq(p, 1, m) \in [1 .. m -> M]
        /\ Len(SubSeq(p, 1, m)) = m
        /\ \A i \in 1 .. m : SubSeq(p, 1, m)[i] = p[i]
        /\ ToSet(SubSeq(p, 1, m)) = {p[i] : i \in 1 .. m}
        /\ Cardinality({p[i] : i \in 1 .. m}) = m
    BY <1>1, <2>3, CutList
  <2> QED
    BY <2>1, <2>2, <2>4
<1>11. ToSet(b) = {k \in M : Cardinality({l \in M : Ahead(l, k)}) < limit}
  <2>1. ASSUME NEW j \in 1 .. c
        PROVE  p[j] \in ToSet(b) <=> Cardinality({l \in M : Ahead(l, p[j])}) < limit
    <3>1. p[j] \in ToSet(b) <=> j \in 1 .. m
      BY <1>7, <1>10
    <3> QED
      BY <1>7, <1>9, <3>1 DEF Typed
  <2>2. ToSet(b) \subseteq M
    BY <1>7, <1>10
  <2> QED
    BY <1>7, <2>1, <2>2
<1>12. c <= Cardinality(Ids) /\ Cardinality(Ids) \in Nat
  BY <1>1, IdsAssumption, FS_Subset, FS_CardinalityType DEF c
<1>13. m \in 0 .. Cardinality(Ids) /\ b \in [1 .. m -> Ids]
  BY <1>1, <1>10, <1>12, <1>7
<1> QED
  BY <1>4, <1>11, <1>13 DEF Foremost, Lists, M

-----------------------------------------------------------------------------
(* The request.                                                             *)

\* isearch's index is always that of some comics.
IndexInv == \E rows \in SUBSET Ids : index = Inverted(rows)

\* What a request has found, from the ranking to the answer.
FoundInv ==
    /\ status = 200 => at = "answer"
    /\ at = "fetch" =>
          /\ kind = "isearch"
          /\ ToSet(best) = Foremost(seen)
          /\ calm => Matches(seen) = Matches(comics)
    /\ (at = "done" \/ status = 200) /\ kind = "search" => Best(reply, seen)
    /\ (at = "done" \/ status = 200) /\ kind = "isearch" =>
          /\ ToSet(reply) = Foremost(seen) \cap fetched
          /\ calm => Matches(seen) = Matches(fetched)

IInv == TypeOK /\ IndexInv /\ FoundInv

\* The orders and the matches depend on the texts and the request alone.
LEMMA OrdersStay ==
    ASSUME text' = text, query' = query, limit' = limit
    PROVE  /\ \A rows \in SUBSET Ids : Matches(rows)' = Matches(rows)
           /\ \A rows \in SUBSET Ids : Inverted(rows)' = Inverted(rows)
           /\ \A rows \in SUBSET Ids : Foremost(rows)' = Foremost(rows)
           /\ \A r \in Lists(Ids), rows \in SUBSET Ids : Best(r, rows)' <=> Best(r, rows)
<1>1. \A rows \in SUBSET Ids : Matches(rows)' = Matches(rows)
  BY DEF Matches
<1>2. \A rows \in SUBSET Ids : Inverted(rows)' = Inverted(rows)
  BY DEF Inverted
<1>3. \A k, l : Ahead(k, l)' <=> Ahead(k, l)
  BY DEF Ahead
<1>4. \A k, l : Closer(k, l)' <=> Closer(k, l)
  BY DEF Closer
<1>5. \A rows \in SUBSET Ids : Foremost(rows)' = Foremost(rows)
  BY <1>1, <1>3 DEF Foremost
<1>6. \A r \in Lists(Ids), rows \in SUBSET Ids : Best(r, rows)' <=> Best(r, rows)
  BY <1>1, <1>4 DEF Best
<1> QED
  BY <1>1, <1>2, <1>5, <1>6

LEMMA InitInv == Init => IInv
<1> SUFFICES ASSUME Init PROVE IInv
  OBVIOUS
<1>1. Cardinality(Ids) \in Nat
  BY IdsAssumption, FS_CardinalityType
<1>2. <<>> \in Lists(Ids)
  <2>1. <<>> \in [1 .. 0 -> Ids]
    OBVIOUS
  <2> QED
    BY <1>1, <2>1 DEF Lists
<1>3. TypeOK
  <2>1. 0 \in 0 .. MaxLimit
    BY LimitAssumption
  <2>2. index \in [Vocabulary -> SUBSET Ids]
    BY DEF Init, NewService
  <2> QED
    BY <1>2, <2>1, <2>2 DEF Init, TypeOK
<1>4. index = Inverted({})
  BY DEF Init, NewService, Inverted
<1> QED
  BY <1>3, <1>4 DEF IInv, IndexInv, FoundInv, Init

\* The update service and the builds of the index leave the request alone, and a
\* change of the table while one waits for its rows is not a calm one.
LEMMA FoundStays ==
    ASSUME TypeOK, FoundInv,
           text' = text, query' = query, limit' = limit,
           at' = at, kind' = kind, status' = status, best' = best, reply' = reply,
           seen' = seen, fetched' = fetched,
           calm' => calm, (calm' /\ at = "fetch") => comics' = comics
    PROVE  FoundInv'
<1>1. seen \in SUBSET Ids /\ fetched \in SUBSET Ids /\ comics \in SUBSET Ids /\ reply \in Lists(Ids)
  BY DEF TypeOK
<1>2. /\ \A rows \in SUBSET Ids : Matches(rows)' = Matches(rows)
      /\ \A rows \in SUBSET Ids : Foremost(rows)' = Foremost(rows)
      /\ \A r \in Lists(Ids), rows \in SUBSET Ids : Best(r, rows)' <=> Best(r, rows)
  BY OrdersStay
<1>3. Foremost(seen)' = Foremost(seen) /\ Matches(seen)' = Matches(seen)
  BY <1>1, <1>2
<1>4. Best(reply, seen)' <=> Best(reply, seen)
  BY <1>1, <1>2
<1>5. Matches(fetched)' = Matches(fetched)
  BY <1>1, <1>2
<1>6. (calm' /\ at = "fetch") => Matches(comics)' = Matches(comics)
  BY <1>1, <1>2
<1>7. ToSet(best)' = ToSet(best) /\ ToSet(reply)' = ToSet(reply)
  BY DEF ToSet
<1> QED
  BY <1>3, <1>4, <1>5, <1>6, <1>7 DEF FoundInv

\* The steps that only move the request.
LEMMA Moves ==
    ASSUME text' = text, index' = index, IndexInv PROVE IndexInv'
<1>1. PICK rows \in SUBSET Ids : index = Inverted(rows)
  BY DEF IndexInv
<1>2. Inverted(rows)' = Inverted(rows)
  BY DEF Inverted
<1> QED
  BY <1>1, <1>2 DEF IndexInv

\* What happens around the request keeps the invariant.
LEMMA WorldInv ==
    ASSUME IInv, (\E k \in Ids : Insert(k)) \/ Truncate \/ BuildIndex \/ DropIndex \/ UNCHANGED vars
    PROVE  IInv'
<1> USE DEF IInv
<1>1. CASE (\E k \in Ids : Insert(k)) \/ Truncate
  <2>1. /\ text' = text /\ index' = index /\ UNCHANGED requestVars
        /\ comics' \subseteq Ids
        /\ calm' = (calm /\ at # "fetch")
    BY <1>1 DEF Insert, Truncate, TypeOK
  <2>2. calm' \in BOOLEAN /\ (calm' => calm /\ at # "fetch")
    BY <2>1
  <2>3. TypeOK'
    BY <2>1, <2>2 DEF TypeOK, requestVars
  <2>4. FoundInv'
    BY <2>1, <2>2, FoundStays DEF requestVars
  <2> QED
    BY <2>1, <2>3, <2>4, Moves
<1>0. CASE UNCHANGED vars
  <2>1. TypeOK'
    BY <1>0 DEF TypeOK, vars, worldVars, requestVars
  <2>2. FoundInv'
    BY <1>0, FoundStays DEF vars, worldVars, requestVars
  <2> QED
    BY <1>0, <2>1, <2>2, Moves DEF vars, worldVars
<1>2. CASE BuildIndex \/ DropIndex
  <2>1. /\ text' = text /\ comics' = comics /\ calm' = calm /\ UNCHANGED requestVars
    BY <1>2 DEF BuildIndex, DropIndex
  <2>2. PICK rows \in SUBSET Ids : index' = Inverted(rows)
    <3>1. CASE BuildIndex
      BY <3>1 DEF BuildIndex, TypeOK
    <3>2. CASE DropIndex
      <4>1. index' = Inverted({})
        BY <3>2 DEF DropIndex, Inverted
      <4> QED
        BY <4>1
    <3> QED
      BY <1>2, <3>1, <3>2
  <2>3. IndexInv'
    <3>1. Inverted(rows)' = Inverted(rows)
      BY <2>1 DEF Inverted
    <3> QED
      BY <2>2, <3>1 DEF IndexInv
  <2>4. TypeOK'
    <3>1. index' \in [Vocabulary -> SUBSET Ids]
      BY <2>2 DEF Inverted
    <3> QED
      BY <2>1, <3>1 DEF TypeOK, requestVars
  <2>5. FoundInv'
    BY <2>1, FoundStays DEF requestVars
  <2> QED
    BY <2>3, <2>4, <2>5
<1> QED
  BY <1>0, <1>1, <1>2

\* The rows of a list of ids are no more than the comics.
LEMMA RowsAreLists ==
    ASSUME NEW S \in SUBSET Ids, NEW r \in SetToSeqs(S)
    PROVE  r \in Lists(Ids) /\ ToSet(r) = S
<1> DEFINE n == Cardinality(S)
<1>1. IsFiniteSet(S) /\ n \in Nat /\ n <= Cardinality(Ids) /\ Cardinality(Ids) \in Nat
  BY IdsAssumption, FS_Subset, FS_CardinalityType
<1>2. /\ DOMAIN r = 1 .. n /\ S = {r[i] : i \in 1 .. n}
      /\ r \in [1 .. n -> S]
  <2>1. DOMAIN r = 1 .. n /\ S = {r[i] : i \in 1 .. n}
    BY <1>1, ListOfSet
  <2>2. r \in [1 .. n -> S]
    BY DEF SetToSeqs
  <2> QED
    BY <2>1, <2>2
<1>3. n \in 0 .. Cardinality(Ids)
  BY <1>1
<1> HIDE DEF n
<1>4. r \in [1 .. n -> Ids]
  BY <1>2
<1>5. r \in Lists(Ids)
  BY <1>3, <1>4 DEF Lists
<1>6. ToSet(r) = S
  BY <1>2 DEF ToSet
<1> QED
  BY <1>5, <1>6

\* What the request itself does keeps the invariant.
LEMMA RequestInv ==
    ASSUME IInv, Request
    PROVE  IInv'
<1> USE DEF IInv
<1>1. Typed
  BY LimitAssumption DEF TypeOK, Typed
<1>2. <<>> \in Lists(Ids)
  <2>1. <<>> \in SetToSeqs({})
    BY FS_EmptySet DEF SetToSeqs
  <2> QED
    BY <2>1, RowsAreLists
<1>3. text' = text /\ index' = index /\ comics' = comics
  BY DEF Request, AskSearch, AskIndex, AskNothing, Normed, Fails, Search, LoadIndex,
         FetchRows, Respond, Leave, worldVars
<1>4. IndexInv'
  BY <1>3, Moves
<1>5. CASE AskSearch \/ AskIndex \/ AskNothing \/ Normed \/ Fails
  <2>1. TypeOK'
    BY <1>5 DEF AskSearch, AskIndex, AskNothing, Normed, Fails, Goto, TypeOK, worldVars
  <2>2. FoundInv'
    BY <1>5 DEF AskSearch, AskIndex, AskNothing, Normed, Fails, Goto, FoundInv, worldVars
  <2> QED
    BY <1>4, <2>1, <2>2
<1>6. CASE Search
  <2>1. /\ text' = text /\ query' = query /\ limit' = limit
        /\ at = "rank" /\ at' = "done" /\ kind' = "search" /\ status' = status
        /\ reply' \in Ranked(comics) /\ seen' = comics
    BY <1>6 DEF Search, Goto, worldVars
  <2>2. comics \in SUBSET Ids
    BY DEF TypeOK
  <2>3. Best(reply', comics) /\ reply' \in Lists(Ids)
    BY <1>1, <2>1, <2>2, RankedBest
  <2>4. Best(reply, seen)'
    BY <2>1, <2>2, <2>3, OrdersStay
  <2>5. TypeOK'
    BY <1>6, <2>3 DEF Search, Goto, TypeOK, worldVars
  <2>6. FoundInv'
    BY <2>1, <2>4 DEF FoundInv
  <2> QED
    BY <1>4, <2>5, <2>6
<1>7. CASE LoadIndex
  <2>1. /\ text' = text /\ query' = query /\ limit' = limit /\ comics' = comics
        /\ at = "rank" /\ at' = "fetch" /\ kind' = "isearch" /\ status' = status
        /\ best' \in SortByFrequency /\ seen' = Shown
        /\ calm' = (index = Inverted(comics))
    BY <1>3, <1>7 DEF LoadIndex, Goto, worldVars, Shown
  <2>2. PICK rows \in SUBSET Ids : index = Inverted(rows)
    BY DEF IndexInv
  <2>3. /\ Matches(Shown) = Matches(rows)
        /\ ToSet(best') = Foremost(Shown)
        /\ best' \in Lists(Ids)
    BY <1>1, <2>1, <2>2, FrequencyBest
  <2>4. Shown \in SUBSET Ids /\ comics \in SUBSET Ids
    BY DEF TypeOK, Shown
  <2>5. calm' => Matches(Shown) = Matches(comics)
    BY <1>1, <2>1, <2>4, FrequencyBest
  <2>6. /\ Foremost(seen)' = Foremost(Shown)
        /\ Matches(seen)' = Matches(Shown)
        /\ Matches(comics)' = Matches(comics)
    BY <2>1, <2>4, OrdersStay
  <2>7. TypeOK'
    BY <1>7, <2>1, <2>3, <2>4 DEF LoadIndex, Goto, TypeOK, worldVars
  <2>8. FoundInv'
    BY <2>1, <2>3, <2>5, <2>6 DEF FoundInv, ToSet
  <2> QED
    BY <1>4, <2>7, <2>8
<1>8. CASE FetchRows
  <2>1. /\ text' = text /\ query' = query /\ limit' = limit
        /\ at = "fetch" /\ at' = "done" /\ kind = "isearch" /\ kind' = kind
        /\ reply' \in SetToSeqs(ToSet(best) \cap comics) /\ best' = <<>>
        /\ fetched' = comics /\ seen' = seen /\ status' = status /\ calm' = calm
    BY <1>8 DEF FetchRows, Goto, worldVars, FoundInv
  <2>2. seen \in SUBSET Ids /\ comics \in SUBSET Ids
    BY DEF TypeOK
  <2>3. reply' \in Lists(Ids) /\ ToSet(reply') = ToSet(best) \cap comics
    BY <2>1, <2>2, RowsAreLists
  <2>4. /\ Foremost(seen)' = Foremost(seen) /\ Matches(seen)' = Matches(seen)
        /\ Matches(fetched)' = Matches(comics)
    BY <2>1, <2>2, OrdersStay
  <2>5. TypeOK'
    BY <1>2, <1>8, <2>3 DEF FetchRows, Goto, TypeOK, worldVars
  <2>6. FoundInv'
    BY <2>1, <2>3, <2>4 DEF FoundInv, ToSet
  <2> QED
    BY <1>4, <2>5, <2>6
<1>9. CASE Respond
  <2>1. /\ text' = text /\ query' = query /\ limit' = limit
        /\ at \in {"done", "failed"} /\ at' = "answer" /\ kind' = kind
        /\ status' = IF at = "done" THEN 200 ELSE 500
        /\ reply' = reply /\ seen' = seen /\ fetched' = fetched /\ calm' = calm
    BY <1>9 DEF Respond, Goto, worldVars
  <2>2. seen \in SUBSET Ids /\ fetched \in SUBSET Ids /\ reply \in Lists(Ids)
    BY DEF TypeOK
  <2>3. /\ Foremost(seen)' = Foremost(seen) /\ Matches(seen)' = Matches(seen)
        /\ Matches(fetched)' = Matches(fetched)
        /\ Best(reply, seen)' <=> Best(reply, seen)
    BY <2>1, <2>2, OrdersStay
  <2>4. TypeOK'
    BY <1>9 DEF Respond, Goto, TypeOK, worldVars
  <2>5. FoundInv'
    BY <2>1, <2>3 DEF FoundInv, ToSet
  <2> QED
    BY <1>4, <2>4, <2>5
<1>10. CASE Leave
  <2>1. TypeOK'
    <3>1. 0 \in 0 .. MaxLimit
      BY LimitAssumption
    <3> QED
      BY <1>2, <1>10, <3>1 DEF Leave, Goto, TypeOK, worldVars
  <2>2. FoundInv'
    BY <1>10 DEF Leave, Goto, FoundInv
  <2> QED
    BY <1>4, <2>1, <2>2
<1> QED
  BY <1>5, <1>6, <1>7, <1>8, <1>9, <1>10 DEF Request

LEMMA Invariance == Spec => []IInv
<1>1. IInv /\ [Next]_vars => IInv'
  BY WorldInv, RequestInv DEF Next
<1> QED
  BY InitInv, <1>1, PTL DEF Spec

\* A request and the table are of their types; the lists are of the comics, each
\* no longer than there are comics.
THEOREM TypeCorrect == Spec => []TypeOK
<1>1. IInv => TypeOK
  BY DEF IInv
<1> QED
  BY Invariance, <1>1, PTL

\* Search's reply is the best there is of the table it read.
THEOREM SearchCorrect == Spec => []SearchReplyBest
<1>1. IInv => SearchReplyBest
  BY DEF IInv, FoundInv, SearchReplyBest, Best
<1> QED
  BY Invariance, <1>1, PTL

\* SearchIndex replies with those of the best comics of the index it loaded that
\* the table still has.
THEOREM IndexCorrect == Spec => []IndexReplyBest
<1>1. IInv => IndexReplyBest
  BY DEF IInv, FoundInv, IndexReplyBest, Foremost
<1> QED
  BY Invariance, <1>1, PTL

\* A limit that is no less than the matches leaves none of them out.
LEMMA AllForemost ==
    ASSUME Typed, NEW rows \in SUBSET Ids, limit >= Cardinality(Matches(rows))
    PROVE  Foremost(rows) = Matches(rows)
<1> DEFINE M == Matches(rows)
<1>1. IsFiniteSet(M) /\ M \subseteq Ids /\ Cardinality(M) \in Nat
  BY IdsAssumption, FS_Subset, FS_CardinalityType DEF Matches
<1>2. ASSUME NEW k \in M PROVE Cardinality({l \in M : Ahead(l, k)}) < limit
  <2> DEFINE A == {l \in M : Ahead(l, k)}
  <2>1. text[k] \in SUBSET Vocabulary /\ query \in SUBSET Vocabulary /\ k \in Nat
    BY <1>1, IdsAssumption DEF Typed
  <2>2. Cardinality(text[k] \cap query) \in Nat
    BY <2>1, ScoreIsJaccard
  <2>3. ~Ahead(k, k)
    BY <2>1, <2>2 DEF Ahead
  <2>4. A \subseteq M /\ A # M
    BY <2>3
  <2>5. IsFiniteSet(A) /\ Cardinality(A) \in Nat /\ Cardinality(A) < Cardinality(M)
    BY <1>1, <2>4, FS_Subset, FS_CardinalityType
  <2> QED
    BY <1>1, <2>5 DEF Typed
<1> QED
  BY <1>2 DEF Foremost

\* With an index that shows the table, a table that stands still and a limit that
\* leaves nothing out, the two services find the same comics.
THEOREM AgreeCorrect == Spec => []SearchesAgree
<1>1. IInv => SearchesAgree
  <2> SUFFICES ASSUME IInv, status = 200, kind = "isearch", calm,
                      limit >= Cardinality(Matches(fetched))
               PROVE  ToSet(reply) = {k \in fetched : GetScore(k).num > 0}
    BY DEF SearchesAgree
  <2>1. Typed /\ seen \in SUBSET Ids /\ fetched \in SUBSET Ids
    BY LimitAssumption DEF IInv, TypeOK, Typed
  <2>2. /\ ToSet(reply) = Foremost(seen) \cap fetched
        /\ Matches(seen) = Matches(fetched)
    BY DEF IInv, FoundInv
  <2>3. Foremost(seen) = Matches(fetched)
    BY <2>1, <2>2, AllForemost
  <2>4. Matches(fetched) = {k \in fetched : GetScore(k).num > 0}
    BY <2>1, ScoreOrders DEF Matches
  <2> QED
    BY <2>2, <2>3, <2>4
<1> QED
  BY Invariance, <1>1, PTL
=============================================================================
