---------------------------- MODULE NormingProofs ----------------------------
(***************************************************************************)
(* Theorems about Norming, for any limits, any period and texts of any     *)
(* length: how many words a call begins, how many bytes its text has,      *)
(* what its errors come to, and which words it returns.  The last needs    *)
(* what InOrder, Fields and Normalised compute, which the lemmas before    *)
(* WordsInv say.                                                           *)
(***************************************************************************)
EXTENDS Norming, FiniteSetTheorems, SequenceTheorems, WellFoundedInduction, TLAPS

-----------------------------------------------------------------------------
(* The loop and the context.                                                *)

\* Of Period numbers in a row one is a multiple of Period.
LEMMA OneIsLooked ==
    ASSUME NEW b \in Nat, NEW n \in Nat, n >= Period
    PROVE  \E i \in b .. (b + n - 1) : i % Period = 0
<1> DEFINE q == b \div Period
           r == b % Period
<1>1. b = Period * q + r /\ r \in 0 .. (Period - 1) /\ q \in Nat
  BY LimitsAssumption
<1>2. CASE r = 0
  BY <1>2, LimitsAssumption
<1>3. CASE r # 0
  <2>1. Period * (q + 1) \in b .. (b + n - 1)
    BY <1>1, <1>3, LimitsAssumption
  <2>2. (Period * (q + 1)) % Period = 0
    BY <1>1, LimitsAssumption
  <2> QED
    BY <2>1, <2>2
<1> QED
  BY <1>2, <1>3

\* Before none of the words begun late did the loop look at the context.
LateInv ==
    /\ next \in Nat /\ late \in Nat /\ late <= next
    /\ ended = "no" => late = 0
    /\ \A i \in (next - late) .. (next - 1) : i % Period # 0

\* A call begins with no word taken.
LEMMA LateAtFirst == Init => LateInv
  BY DEF Init, LateInv

\* Only a word begun after the end of the context counts, and only if the loop did not
\* look before it.
LEMMA LoopKeepsLate == LateInv /\ [Next]_vars => LateInv'
<1> SUFFICES ASSUME LateInv, [Next]_vars PROVE LateInv'
  OBVIOUS
<1>1. CASE TakeWord
  <2>1. next' = next + 1
    BY <1>1 DEF TakeWord
  <2>2. CASE ended # "no"
    <3>1. late' = late + 1 /\ ended' # "no" /\ next % Period # 0
      BY <1>1, <2>2 DEF TakeWord, Looks
    <3> QED
      BY <2>1, <3>1 DEF LateInv
  <2>3. CASE ended = "no"
    <3>1. late' = late /\ late = 0 /\ ended' = "no"
      BY <1>1, <2>3 DEF TakeWord, LateInv
    <3> QED
      BY <2>1, <3>1 DEF LateInv
  <2> QED
    BY <2>2, <2>3
<1>2. CASE ~TakeWord
  BY <1>2 DEF Next, vars, LateInv, Prepare, RefuseEmpty, Unreachable, Accept, RefuseBig, GiveUp,
              ReturnWords, CallerGone, ContextEnds, Answer
<1> QED
  BY <1>1, <1>2

\* After its context has ended a call begins fewer than Period more words, for any
\* period and any number of words (words.go:19-24).
THEOREM LateWordsCorrect == Spec => []LateWordsBounded
<1>1. LateInv => LateWordsBounded
  <2> SUFFICES ASSUME LateInv, late >= Period PROVE FALSE
    BY LimitsAssumption DEF LateInv, LateWordsBounded
  <2>1. PICK i \in (next - late) .. (next - late + late - 1) : i % Period = 0
    BY OneIsLooked DEF LateInv
  <2> QED
    BY <2>1 DEF LateInv
<1> QED
  BY <1>1, LateAtFirst, LoopKeepsLate, PTL DEF Spec

-----------------------------------------------------------------------------
(* Sizes.                                                                   *)

\* A text is a sequence, and not too long a one.
LEMMA TextTypes ==
    ASSUME NEW s \in Texts
    PROVE  s \in Seq(Chars) /\ Len(s) \in Nat /\ DOMAIN s = 1 .. Len(s) /\ Len(s) <= MaxText
<1>1. PICK n \in 0 .. MaxText : s \in [1 .. n -> Chars]
  BY DEF Texts
<1>2. n \in Nat
  BY LimitsAssumption
<1>3. s \in Seq(Chars)
  BY <1>1, <1>2, SeqDef
<1>4. Len(s) \in Nat /\ DOMAIN s = 1 .. Len(s)
  BY <1>3, LenProperties
<1>5. Len(s) <= MaxText
  BY <1>1, <1>2, <1>4, LimitsAssumption
<1> QED
  BY <1>3, <1>4, <1>5

\* A set of numbers within a limit has a largest one.
LEMMA MaxExists ==
    ASSUME NEW n \in Nat, NEW S \in SUBSET (1 .. n), S # {}
    PROVE  Max(S) \in S
<1> DEFINE T == {n - x : x \in S}
<1>1. T \subseteq Nat /\ T # {}
  <2>1. \A x \in S : n - x \in Nat
    OBVIOUS
  <2> QED
    BY <2>1
<1>2. PICK m \in T : \A y \in T : ~(<<y, m>> \in OpToRel(<, Nat))
  BY <1>1, NatLessThanWellFounded, WFMin, Zenon
<1>3. \A y \in T : ~(y < m)
  BY <1>1, <1>2 DEF OpToRel
<1>4. PICK x \in S : m = n - x
  BY <1>2
<1>5. \A y \in S : x >= y
  BY <1>3, <1>4
<1> QED
  BY <1>5 DEF Max

\* What limitWords returns is the beginning of the text, and within the limit.
LEMMA LimitWordsPrefix ==
    ASSUME NEW s \in Texts
    PROVE  /\ LimitWords(s) \in Seq(Chars)
           /\ Len(LimitWords(s)) <= MaxLenDescription
           /\ DOMAIN LimitWords(s) \subseteq DOMAIN s
           /\ \A i \in DOMAIN LimitWords(s) : LimitWords(s)[i] = s[i]
<1> USE LimitsAssumption
<1>0. s \in Seq(Chars) /\ Len(s) \in Nat /\ DOMAIN s = 1 .. Len(s)
  BY TextTypes
<1>1. CASE Len(s) <= MaxLenDescription
  <2>1. LimitWords(s) = s
    BY <1>1 DEF LimitWords
  <2> QED
    BY <1>0, <1>1, <2>1
<1>2. ASSUME NEW n \in 1 .. MaxLenDescription, Len(s) > MaxLenDescription,
             LimitWords(s) = SubSeq(s, 1, n)
      PROVE  /\ LimitWords(s) \in Seq(Chars)
             /\ Len(LimitWords(s)) <= MaxLenDescription
             /\ DOMAIN LimitWords(s) \subseteq DOMAIN s
             /\ \A i \in DOMAIN LimitWords(s) : LimitWords(s)[i] = s[i]
  BY <1>0, <1>2
<1>3. CASE Len(s) > MaxLenDescription /\ Spaces(s) # {}
  <2>1. Max(Spaces(s)) \in 2 .. MaxLenDescription
    <3>1. Spaces(s) \in SUBSET (2 .. MaxLenDescription)
      BY DEF Spaces
    <3>2. Max(Spaces(s)) \in Spaces(s)
      <4>1. Spaces(s) \in SUBSET (1 .. MaxLenDescription) /\ MaxLenDescription \in Nat
        BY <3>1
      <4> QED
        BY <1>3, <4>1, MaxExists
    <3> QED
      BY <3>1, <3>2
  <2>2. LimitWords(s) = SubSeq(s, 1, Max(Spaces(s)) - 1)
    BY <1>0, <1>3, <2>1 DEF LimitWords
  <2>3. Max(Spaces(s)) - 1 \in 1 .. MaxLenDescription
    BY <2>1
  <2> QED
    BY <1>2, <1>3, <2>2, <2>3
<1>4. CASE Len(s) > MaxLenDescription /\ Spaces(s) = {}
  <2>1. LimitWords(s) = SubSeq(s, 1, MaxLenDescription)
    BY <1>0, <1>4 DEF LimitWords
  <2> QED
    BY <1>2, <1>4, <2>1
<1> QED
  BY <1>0, <1>1, <1>3, <1>4

Wide(s) == {i \in DOMAIN s : s[i] = "w"}

\* A beginning of a text has no more letters of several bytes than the text.
LEMMA BytesOfBeginning ==
    ASSUME NEW s \in Texts, NEW p \in Seq(Chars),
           DOMAIN p \subseteq DOMAIN s, \A i \in DOMAIN p : p[i] = s[i]
    PROVE  /\ Bytes(p) \in Nat /\ Cardinality(Wide(s)) \in Nat
           /\ Bytes(p) <= Len(p) + Cardinality(Wide(s))
<1>1. Wide(p) \subseteq Wide(s)
  BY DEF Wide
<1>2. IsFiniteSet(Wide(s))
  BY TextTypes, FS_Interval, FS_Subset DEF Wide
<1>3. Cardinality(Wide(p)) <= Cardinality(Wide(s)) /\ Cardinality(Wide(p)) \in Nat
  BY <1>1, <1>2, FS_Subset, FS_CardinalityType
<1> QED
  BY <1>2, <1>3, LenProperties, FS_CardinalityType DEF Bytes, Wide

\* What is sent, and what its size has come to.
SizeInv ==
    /\ text \in Texts
    /\ ended \in {"no", "Canceled", "DeadlineExceeded"}
    /\ at \in {"limit", "send", "loop"} => code = "none"
    /\ (at # "limit" /\ caller = "update") => phrase = LimitWords(text)
    /\ code = "ResourceExhausted" => Bytes(phrase) > MaxPhraseLen

\* A description is refused for its size only if it has as many letters of several
\* bytes as the two limits are apart, whatever they are (service.go:16 against
\* main.go:25 of words).
THEOREM RefusedCorrect == Spec => []RefusedForBytes
<1>1. Init => SizeInv
  BY DEF Init, SizeInv
<1>2. SizeInv /\ [Next]_vars => SizeInv'
  <2> SUFFICES ASSUME SizeInv, [Next]_vars PROVE SizeInv'
    OBVIOUS
  <2> USE DEF SizeInv
  <2>1. CASE Prepare
    BY <2>1 DEF Prepare
  <2>2. CASE RefuseBig
    BY <2>2 DEF RefuseBig, Return
  <2>3. CASE GiveUp
    BY <2>3 DEF GiveUp, Return
  <2>4. CASE ~(Prepare \/ RefuseBig \/ GiveUp)
    BY <2>4 DEF Next, vars, RefuseEmpty, Unreachable, Accept, TakeWord, ReturnWords, CallerGone,
                ContextEnds, Answer, Return
  <2> QED
    BY <2>1, <2>2, <2>3, <2>4
<1>3. SizeInv => RefusedForBytes
  <2> SUFFICES ASSUME SizeInv, caller = "update", Err = "ErrResourceExhausted"
               PROVE  Cardinality(Wide(text)) > MaxPhraseLen - MaxLenDescription
    BY DEF RefusedForBytes, Wide
  <2>1. code = "ResourceExhausted"
    BY DEF Err, ClientError
  <2>2. phrase = LimitWords(text) /\ Bytes(phrase) > MaxPhraseLen
    BY <2>1 DEF SizeInv
  <2>3. /\ Bytes(phrase) \in Nat /\ Cardinality(Wide(text)) \in Nat
        /\ Bytes(phrase) <= Len(phrase) + Cardinality(Wide(text))
    BY <2>2, LimitWordsPrefix, BytesOfBeginning DEF SizeInv
  <2>4. Len(phrase) <= MaxLenDescription /\ Len(phrase) \in Nat
    BY <2>2, LimitWordsPrefix, LenProperties DEF SizeInv
  <2> QED
    BY <2>2, <2>3, <2>4, LimitsAssumption
<1> QED
  BY <1>1, <1>2, <1>3, PTL DEF Spec

-----------------------------------------------------------------------------
(* Errors.                                                                  *)

\* The bytes of any phrase can be counted; an empty one has none.
LEMMA BytesTypes ==
    /\ \A p \in Seq(Chars) : Bytes(p) \in Nat
    /\ Bytes(<<>>) = 0
<1>1. ASSUME NEW p \in Seq(Chars) PROVE Bytes(p) \in Nat
  <2>1. IsFiniteSet(DOMAIN p) /\ {i \in DOMAIN p : p[i] = "w"} \in SUBSET (DOMAIN p)
    BY LenProperties, FS_Interval
  <2> QED
    BY <2>1, LenProperties, FS_Subset, FS_CardinalityType DEF Bytes
<1>2. {i \in DOMAIN <<>> : <<>>[i] = "w"} = {} /\ Len(<<>>) = 0
  OBVIOUS
<1> QED
  BY <1>1, <1>2, FS_EmptySet DEF Bytes

\* What each code says about the phrase, whatever came in between.
CodeInv ==
    /\ text \in Texts /\ phrase \in Seq(Chars)
    /\ ended \in {"no", "Canceled", "DeadlineExceeded"}
    /\ at \in {"limit", "send", "loop"} => code = "none"
    /\ at = "loop" => phrase # <<>> /\ Bytes(phrase) <= MaxPhraseLen
    /\ at \in {"done", "answered"} =>
          /\ code \in Codes
          /\ code = "none" <=> phrase = <<>>
          /\ code = "ResourceExhausted" => Bytes(phrase) > MaxPhraseLen
          /\ code \in {"OK", "Canceled", "DeadlineExceeded"} => Bytes(phrase) <= MaxPhraseLen

BlameInv == CodeInv /\ BlameIsRight

\* Each way a call can end sets the code it should.
LEMMA CallKeepsCode == CodeInv /\ [Next]_vars => CodeInv'
<1> SUFFICES ASSUME CodeInv, [Next]_vars PROVE CodeInv'
  OBVIOUS
<1> USE DEF CodeInv
<1>1. CASE Prepare
  BY <1>1, TextTypes, LimitWordsPrefix DEF Prepare
<1>2. CASE RefuseEmpty
  BY <1>2 DEF RefuseEmpty, Return, Codes
<1>3. CASE RefuseBig
  BY <1>3, BytesTypes, LimitsAssumption DEF RefuseBig, Return, Codes
<1>4. CASE Unreachable
  BY <1>4 DEF Unreachable, Return, Codes
<1>5. CASE GiveUp \/ ReturnWords \/ CallerGone
  BY <1>5 DEF GiveUp, ReturnWords, CallerGone, Return, Codes
<1>6. CASE Accept \/ TakeWord \/ ContextEnds
  BY <1>6 DEF Accept, TakeWord, ContextEnds
<1>7. CASE Answer \/ UNCHANGED vars
  BY <1>7 DEF Answer, vars
<1> QED
  BY <1>1, <1>2, <1>3, <1>4, <1>5, <1>6, <1>7 DEF Next

\* A client is blamed for its phrase, and for nothing else, whichever way the call
\* ends and through whichever service its error comes back (api.go:130-155,
\* words.go:63-79 of the gateway, search/adapters/grpc/server.go:32).
THEOREM BlameCorrect == Spec => []BlameIsRight
<1>1. Init => BlameInv
  <2>1. <<>> \in Seq(Chars)
    OBVIOUS
  <2> QED
    BY <2>1 DEF Init, BlameInv, CodeInv, BlameIsRight
<1>2. BlameInv /\ [Next]_vars => BlameInv'
  <2> SUFFICES ASSUME BlameInv, [Next]_vars PROVE BlameInv'
    OBVIOUS
  <2>1. CodeInv'
    BY CallKeepsCode DEF BlameInv
  <2>2. CASE Answer
    <3> DEFINE bad == phrase = <<>> \/ Bytes(phrase) > MaxPhraseLen
    <3>1. /\ at = "done" /\ caller # "update" /\ UNCHANGED <<caller, phrase, code>>
          /\ status' = IF caller = "words" THEN WordsStatus(Err)
                                           ELSE SearchStatus(SearchError(SearchCode(Err)))
      BY <2>2 DEF Answer
    <3>2. bad' = bad
      BY <3>1
    <3>3. Bytes(phrase) \in Nat /\ Bytes(<<>>) = 0
      BY BytesTypes DEF BlameInv, CodeInv
    <3>4. CASE phrase = <<>>
      <4>1. Err = "ErrEmptyPhrase"
        BY <3>1, <3>4 DEF Err
      <4>2. WordsStatus("ErrEmptyPhrase") = 400
        BY DEF WordsStatus
      <4>3. \A e : SearchStatus(e) = 400
        BY <3>4 DEF SearchStatus
      <4> QED
        BY <2>1, <3>1, <3>2, <3>4, <4>1, <4>2, <4>3 DEF BlameInv, BlameIsRight
    <3>5. CASE phrase # <<>>
      <4>1. Err = ClientError(code)
        BY <3>1, <3>5 DEF Err
      <4>2. code = "OK" \/ code = "ResourceExhausted" \/ code = "Canceled"
              \/ code = "DeadlineExceeded" \/ code = "Unavailable"
        BY <3>1, <3>5 DEF BlameInv, CodeInv, Codes
      <4>3. ~bad <=> Bytes(phrase) <= MaxPhraseLen
        BY <3>3, <3>5, LimitsAssumption
      <4>4. CASE caller = "words"
        <5>1. status' = WordsStatus(ClientError(code))
          BY <3>1, <4>1, <4>4
        <5>2. status' = CASE code = "OK" -> 200 [] code = "ResourceExhausted" -> 400 [] OTHER -> 500
          BY <4>2, <5>1 DEF WordsStatus, ClientError
        <5> QED
          BY <2>1, <3>1, <3>2, <4>2, <4>3, <5>2 DEF BlameInv, CodeInv, BlameIsRight
      <4>5. CASE caller # "words"
        <5>1. status' = SearchStatus(SearchError(SearchCode(ClientError(code))))
          BY <3>1, <4>1, <4>5
        <5>2. status' = IF code = "OK" THEN 200 ELSE 500
          BY <3>5, <4>2, <5>1 DEF SearchStatus, SearchError, SearchCode, ClientError
        <5> QED
          BY <2>1, <3>1, <3>2, <4>2, <4>3, <4>5, <5>2 DEF BlameInv, CodeInv, BlameIsRight
      <4> QED
        BY <4>4, <4>5
    <3> QED
      BY <3>4, <3>5
  <2>3. CASE ~Answer
    <3>1. at' = "answered" => UNCHANGED vars
      BY <2>3 DEF Next, vars, Prepare, RefuseEmpty, Unreachable, Accept, RefuseBig, TakeWord, GiveUp,
                  ReturnWords, CallerGone, ContextEnds, Return
    <3> QED
      BY <2>1, <3>1 DEF BlameInv, BlameIsRight, vars
  <2> QED
    BY <2>2, <2>3
<1>3. BlameInv => BlameIsRight
  BY DEF BlameInv
<1> QED
  BY <1>1, <1>2, <1>3, PTL DEF Spec

-----------------------------------------------------------------------------
(* Putting numbers in order.                                                *)

\* p has the numbers of S, each once and the smallest first.
Orders(p, S) ==
    /\ p \in SetToSeqs(S)
    /\ \A m, n \in DOMAIN p : m < n => p[m] < p[n]

\* A list that has each element of a set once.
LEMMA ListOfSet ==
    ASSUME NEW S, IsFiniteSet(S), NEW p \in SetToSeqs(S)
    PROVE  /\ Cardinality(S) \in Nat
           /\ p \in Seq(S) /\ Len(p) = Cardinality(S) /\ DOMAIN p = 1 .. Cardinality(S)
           /\ \A i \in 1 .. Cardinality(S) : p[i] \in S
           /\ \A i, j \in 1 .. Cardinality(S) : i # j => p[i] # p[j]
           /\ S = {p[i] : i \in 1 .. Cardinality(S)}
<1> DEFINE c == Cardinality(S)
<1>1. c \in Nat /\ p \in [1 .. c -> S] /\ \A i, j \in 1 .. c : i # j => p[i] # p[j]
  BY FS_CardinalityType DEF SetToSeqs
<1>2. S = {p[i] : i \in 1 .. c}
  <2>1. p \in Injection(1 .. c, S)
    BY <1>1 DEF Injection, IsInjective
  <2>2. Cardinality(1 .. c) = c
    BY <1>1, FS_Interval
  <2>3. p \in Surjection(1 .. c, S)
    BY <2>1, <2>2, FS_Injection
  <2> QED
    BY <1>1, <2>3 DEF Surjection
<1> QED
  BY <1>1, <1>2

\* The place of a number in the order is how many are no larger.
Place(x, S) == Cardinality({y \in S : y <= x})

\* There are as many places as numbers, and a larger number has a later place.
LEMMA Places ==
    ASSUME NEW S \in SUBSET Nat, IsFiniteSet(S)
    PROVE  /\ \A x \in S : Place(x, S) \in 1 .. Cardinality(S)
           /\ \A x, y \in S : x < y => Place(x, S) < Place(y, S)
<1>1. ASSUME NEW x \in S PROVE Place(x, S) \in 1 .. Cardinality(S)
  <2> DEFINE B == {y \in S : y <= x}
  <2>1. IsFiniteSet(B) /\ Cardinality(B) <= Cardinality(S)
    <3>1. B \in SUBSET S
      OBVIOUS
    <3> QED
      BY <3>1, FS_Subset
  <2>4. Cardinality(B) \in Nat /\ Cardinality(S) \in Nat
    BY <2>1, FS_CardinalityType
  <2>2. x \in B
    OBVIOUS
  <2>3. Cardinality(B) # 0
    BY <2>1, <2>2, FS_EmptySet
  <2> QED
    BY <2>1, <2>3, <2>4 DEF Place
<1>2. ASSUME NEW x \in S, NEW y \in S, x < y PROVE Place(x, S) < Place(y, S)
  <2> DEFINE B == {z \in S : z <= x}
             C == {z \in S : z <= y}
  <2>0. \A z \in S : z \in Nat
    OBVIOUS
  <2>1. B \subseteq C
    <3> SUFFICES ASSUME NEW z \in S, z <= x PROVE z <= y
      OBVIOUS
    <3> QED
      BY <1>2, <2>0
  <2>4. y \in C /\ y \notin B
    BY <1>2, <2>0
  <2>2. IsFiniteSet(C) /\ IsFiniteSet(B)
    BY FS_Subset
  <2>3. Cardinality(B) < Cardinality(C)
    BY <2>1, <2>2, <2>4, FS_Subset, FS_CardinalityType
  <2> QED
    BY <2>3 DEF Place
<1> QED
  BY <1>1, <1>2

\* A finite set of numbers can be put in order.
LEMMA OrderExists ==
    ASSUME NEW S \in SUBSET Nat, IsFiniteSet(S)
    PROVE  Orders(InOrder(S), S)
<1> DEFINE c == Cardinality(S)
           r == [x \in S |-> Place(x, S)]
<1>0. \A x \in S : x \in Nat
  OBVIOUS
<1>1. c \in Nat /\ \A x \in S : r[x] \in 1 .. c
  BY Places, FS_CardinalityType
<1>2. \A x, y \in S : x # y => r[x] # r[y]
  BY Places
<1>3. r \in Injection(S, 1 .. c)
  BY <1>1, <1>2 DEF Injection, IsInjective
<1>4. r \in Surjection(S, 1 .. c)
  <2>1. IsFiniteSet(1 .. c) /\ Cardinality(1 .. c) = c
    BY <1>1, FS_Interval
  <2> QED
    BY <1>3, <2>1, FS_Injection
<1> DEFINE p == [n \in 1 .. c |-> CHOOSE x \in S : r[x] = n]
<1>5. \A n \in 1 .. c : p[n] \in S /\ r[p[n]] = n
  BY <1>4 DEF Surjection
<1>6. p \in SetToSeqs(S)
  <2>1. p \in [1 .. c -> S]
    BY <1>5
  <2>2. \A i, j \in 1 .. c : i # j => p[i] # p[j]
    BY <1>5
  <2> QED
    BY <2>1, <2>2 DEF SetToSeqs
<1>7. \A m, n \in DOMAIN p : m < n => p[m] < p[n]
  <2> SUFFICES ASSUME NEW m \in 1 .. c, NEW n \in 1 .. c, m < n PROVE p[m] < p[n]
    OBVIOUS
  <2>1. p[m] \in S /\ p[n] \in S /\ Place(p[m], S) = m /\ Place(p[n], S) = n
    BY <1>5
  <2> HIDE DEF p
  <2>2. p[n] < p[m] => Place(p[n], S) < Place(p[m], S)
    BY <2>1, Places
  <2>3. p[m] \in Nat /\ p[n] \in Nat
    BY <1>0, <2>1
  <2>4. m \in Nat /\ n \in Nat
    BY <1>1
  <2> QED
    BY <2>1, <2>2, <2>3, <2>4
<1> QED
  BY <1>6, <1>7 DEF InOrder, Orders

\* In an order each number is at its place.
LEMMA OrderPlaces ==
    ASSUME NEW S \in SUBSET Nat, IsFiniteSet(S), NEW p, Orders(p, S)
    PROVE  \A k \in 1 .. Cardinality(S) : Place(p[k], S) = k
<1> DEFINE c == Cardinality(S)
<1>0. \A x \in S : x \in Nat
  OBVIOUS
<1>1. /\ c \in Nat /\ DOMAIN p = 1 .. c /\ S = {p[i] : i \in 1 .. c}
      /\ \A i \in 1 .. c : p[i] \in S
      /\ \A i, j \in 1 .. c : i # j => p[i] # p[j]
  BY ListOfSet DEF Orders
<1>2. ASSUME NEW k \in 1 .. c PROVE Place(p[k], S) = k
  <2> DEFINE B == {y \in S : y <= p[k]}
             f == [i \in 1 .. k |-> p[i]]
  <2>1. \A i, j \in 1 .. c : i < j => p[i] < p[j]
    BY <1>1 DEF Orders
  <2>2. ASSUME NEW i \in 1 .. c PROVE p[i] <= p[k] <=> i <= k
    <3>1. p[i] \in Nat /\ p[k] \in Nat
      BY <1>0, <1>1
    <3>3. i \in Nat /\ k \in Nat
      BY <1>1
    <3>2. (i < k => p[i] < p[k]) /\ (k < i => p[k] < p[i])
      BY <2>1
    <3> QED
      BY <3>1, <3>2, <3>3
  <2>3. B = {p[i] : i \in 1 .. k}
    BY <1>1, <2>2
  <2>4. f \in Surjection(1 .. k, B)
    BY <2>3 DEF Surjection
  <2>5. f \in Injection(1 .. k, B)
    BY <1>1, <2>3 DEF Injection, IsInjective
  <2>6. IsFiniteSet(1 .. k) /\ Cardinality(1 .. k) = k
    BY FS_Interval
  <2>7. Cardinality(B) = k
    BY <2>4, <2>5, <2>6, FS_Surjection
  <2> QED
    BY <2>7 DEF Place
<1> QED
  BY <1>2

\* What has the numbers of a set in order is InOrder of the set.
LEMMA OneOrder ==
    ASSUME NEW S \in SUBSET Nat, IsFiniteSet(S), NEW p, Orders(p, S)
    PROVE  p = InOrder(S)
<1> DEFINE c == Cardinality(S)
           q == InOrder(S)
<1>0. \A x \in S : x \in Nat
  OBVIOUS
<1>1. Orders(q, S)
  BY OrderExists
<1>2. p \in [1 .. c -> S] /\ q \in [1 .. c -> S]
  BY <1>1 DEF Orders, SetToSeqs
<1>3. ASSUME NEW k \in 1 .. c PROVE p[k] = q[k]
  <2>1. Place(p[k], S) = k /\ Place(q[k], S) = k
    BY <1>1, OrderPlaces
  <2>2. p[k] \in S /\ q[k] \in S
    BY <1>2
  <2>3. p[k] \in Nat /\ q[k] \in Nat /\ k \in Nat
    <3>1. c \in Nat
      BY FS_CardinalityType
    <3>2. k \in Nat
      BY <3>1
    <3> QED
      BY <1>0, <2>2, <3>2
  <2> HIDE DEF q
  <2>4. /\ p[k] < q[k] => Place(p[k], S) < Place(q[k], S)
        /\ q[k] < p[k] => Place(q[k], S) < Place(p[k], S)
    BY <2>2, Places
  <2> QED
    BY <2>1, <2>3, <2>4
<1> HIDE DEF c, q
<1>4. p = [k \in 1 .. c |-> p[k]] /\ q = [k \in 1 .. c |-> q[k]]
  BY <1>2
<1>5. p = q
  BY <1>3, <1>4, Zenon
<1> QED
  BY <1>5 DEF q

\* A largest number goes to the end of the order.
LEMMA InOrderAppend ==
    ASSUME NEW S \in SUBSET Nat, IsFiniteSet(S), NEW x \in Nat, \A y \in S : y < x
    PROVE  InOrder(S \cup {x}) = Append(InOrder(S), x)
<1> DEFINE c == Cardinality(S)
           q == InOrder(S)
           T == S \cup {x}
           p == Append(q, x)
<1>1. Orders(q, S)
  BY OrderExists
<1>2. x \notin S
  OBVIOUS
<1>3. T \in SUBSET Nat /\ IsFiniteSet(T) /\ Cardinality(T) = c + 1 /\ c \in Nat
  BY <1>2, FS_AddElement, FS_CardinalityType
<1>4. /\ q \in Seq(S) /\ Len(q) = c
      /\ \A i \in 1 .. c : q[i] \in S
      /\ \A i, j \in 1 .. c : i # j => q[i] # q[j]
  BY <1>1, ListOfSet DEF Orders
<1>5. \A m, n \in 1 .. c : m < n => q[m] < q[n]
  BY <1>1, <1>4 DEF Orders
<1> HIDE DEF q, c
<1>6. p \in [1 .. c + 1 -> T] /\ p[c + 1] = x /\ \A i \in 1 .. c : p[i] = q[i]
  <2>1. q \in Seq(T) /\ x \in T
    BY <1>4
  <2> HIDE DEF T
  <2>2. p \in Seq(T) /\ Len(p) = c + 1
    BY <1>3, <1>4, <2>1
  <2>3. p[c + 1] = x /\ \A i \in 1 .. c : p[i] = q[i]
    BY <1>3, <1>4, <2>1
  <2> HIDE DEF p
  <2>4. p \in [1 .. c + 1 -> T]
    BY <2>2
  <2> QED
    BY <2>3, <2>4
<1>7. ASSUME NEW m \in 1 .. c + 1, NEW n \in 1 .. c + 1, m < n PROVE p[m] < p[n]
  <2>1. m \in 1 .. c
    BY <1>3, <1>7
  <2>2. CASE n \in 1 .. c
    BY <1>5, <1>6, <1>7, <2>1, <2>2
  <2>3. CASE n = c + 1
    <3>1. q[m] \in S
      BY <1>4, <2>1
    <3>2. p[m] = q[m] /\ p[n] = x
      BY <1>6, <2>1, <2>3
    <3> QED
      BY <3>1, <3>2
  <2>4. c \in Nat
    BY <1>3
  <2>5. n \in 1 .. c \/ n = c + 1
    BY <2>4
  <2> QED
    BY <2>2, <2>3, <2>5
<1> HIDE DEF p
<1>8. \A i \in 1 .. c + 1 : p[i] \in Nat
  BY <1>3, <1>6
<1>9. ASSUME NEW i \in 1 .. c + 1, NEW j \in 1 .. c + 1, i # j PROVE p[i] # p[j]
  <2>1. i < j \/ j < i
    BY <1>3, <1>9
  <2> QED
    BY <1>7, <1>8, <2>1
<1>10. Orders(p, T)
  <2>1. p \in SetToSeqs(T)
    BY <1>3, <1>6, <1>9 DEF SetToSeqs
  <2> QED
    BY <1>6, <1>7, <2>1 DEF Orders
<1>11. p = InOrder(T)
  BY <1>3, <1>10, OneOrder
<1> QED
  BY <1>11 DEF p, q

\* The numbers below a limit are the beginning of the order.
LEMMA InOrderCut ==
    ASSUME NEW S \in SUBSET Nat, IsFiniteSet(S), NEW x \in Nat
    PROVE  \E n \in 0 .. Cardinality(S) :
               /\ InOrder({y \in S : y < x}) = SubSeq(InOrder(S), 1, n)
               /\ \A k \in 1 .. n : InOrder(S)[k] < x
<1> DEFINE c == Cardinality(S)
           q == InOrder(S)
           J == {y \in S : y < x}
           n == Cardinality(J)
           p == SubSeq(q, 1, n)
<1>1. Orders(q, S)
  BY OrderExists
<1>2. J \in SUBSET Nat /\ J \in SUBSET S
  OBVIOUS
<1>3. IsFiniteSet(J) /\ n <= c /\ n \in Nat /\ c \in Nat
  <2>1. IsFiniteSet(J) /\ n <= c
    BY <1>2, FS_Subset
  <2> QED
    BY <2>1, FS_CardinalityType
<1>4. /\ q \in Seq(S) /\ Len(q) = c
      /\ \A i \in 1 .. c : q[i] \in S
  BY <1>1, ListOfSet DEF Orders
<1>5. \A i, j \in 1 .. c : i < j => q[i] < q[j]
  BY <1>1, <1>4 DEF Orders
<1>6. \A k \in 1 .. c : Place(q[k], S) = k
  BY <1>1, OrderPlaces
<1>7. ASSUME NEW k \in 1 .. c, k <= n PROVE q[k] < x
  <2> SUFFICES ASSUME ~(q[k] < x) PROVE FALSE
    OBVIOUS
  <2> DEFINE B == {y \in S : y <= q[k]}
  <2>1. q[k] \in S /\ q[k] \in Nat
    BY <1>4
  <2>2. q[k] \in B /\ q[k] \notin J
    BY <2>1
  <2>3. J \subseteq B
    <3> SUFFICES ASSUME NEW y \in S, y < x PROVE y <= q[k]
      OBVIOUS
    <3>1. y \in Nat
      OBVIOUS
    <3> QED
      BY <2>1, <3>1
  <2>4. IsFiniteSet(B)
    BY FS_Subset
  <2>5. Cardinality(J) < Cardinality(B)
    BY <2>2, <2>3, <2>4, FS_Subset, FS_CardinalityType
  <2>6. Cardinality(B) = k
    BY <1>6 DEF Place
  <2> QED
    BY <1>3, <1>7, <2>5, <2>6
<1> HIDE DEF n, c, q
<1>8. p \in [1 .. n -> J] /\ \A k \in 1 .. n : p[k] = q[k]
  <2>1. p \in Seq(S) /\ Len(p) = n /\ \A k \in 1 .. n : p[k] = q[k]
    BY <1>3, <1>4
  <2>2. ASSUME NEW k \in 1 .. n PROVE p[k] \in J
    <3>1. k \in 1 .. c /\ k <= n
      BY <1>3
    <3>2. q[k] \in S /\ q[k] < x
      BY <1>4, <1>7, <3>1
    <3> QED
      BY <2>1, <3>2
  <2> HIDE DEF p, J
  <2>3. p \in [1 .. n -> J]
    BY <2>1, <2>2
  <2> QED
    BY <2>1, <2>3
<1>9. \A i, j \in 1 .. n : i < j => p[i] < p[j]
  BY <1>3, <1>5, <1>8
<1> HIDE DEF p
<1>10. \A k \in 1 .. n : p[k] \in Nat
  BY <1>8
<1>11. ASSUME NEW i \in 1 .. n, NEW j \in 1 .. n, i # j PROVE p[i] # p[j]
  <2>1. i < j \/ j < i
    BY <1>3, <1>11
  <2> QED
    BY <1>9, <1>10, <2>1
<1>12. Orders(p, J)
  <2>1. p \in SetToSeqs(J)
    BY <1>8, <1>11 DEF SetToSeqs, n
  <2> QED
    BY <1>8, <1>9, <2>1 DEF Orders
<1> HIDE DEF J
<1>13. p = InOrder(J)
  BY <1>2, <1>3, <1>12, OneOrder
<1>14. n \in 0 .. c /\ \A k \in 1 .. n : q[k] < x
  BY <1>3, <1>7
<1> QED
  BY <1>13, <1>14 DEF p, q, J, c

-----------------------------------------------------------------------------
(* The words of a text.                                                     *)

\* A list of characters that is short enough is a text.
LEMMA ShortTexts ==
    ASSUME NEW s \in Seq(Chars), Len(s) <= MaxText
    PROVE  s \in Texts
<1>1. Len(s) \in 0 .. MaxText /\ s \in [1 .. Len(s) -> Chars]
  BY LenProperties, LimitsAssumption
<1> QED
  BY <1>1 DEF Texts

\* Where the run of letters that begins at i ends.
End(s, i) == Max({j \in i .. Len(s) : \A k \in i .. j : s[k] \in Letters})

Words == Texts \ {<<>>}

\* Part of a text is a word.
LEMMA PartOfText ==
    ASSUME NEW s \in Texts, NEW i \in 1 .. Len(s), NEW j \in i .. Len(s)
    PROVE  SubSeq(s, i, j) \in Words
<1>1. s \in Seq(Chars) /\ Len(s) \in Nat /\ Len(s) <= MaxText
  BY TextTypes
<1>2. SubSeq(s, i, j) \in Seq(Chars) /\ Len(SubSeq(s, i, j)) = j - i + 1
  BY <1>1
<1>3. SubSeq(s, i, j) # <<>>
  BY <1>1, <1>2
<1>4. j - i + 1 <= MaxText
  BY <1>1, LimitsAssumption
<1> QED
  BY <1>2, <1>3, <1>4, ShortTexts DEF Words

\* The words of a text begin at finitely many places of it.
LEMMA StartsTypes ==
    ASSUME NEW s \in Seq(Chars)
    PROVE  /\ Starts(s) \in SUBSET Nat /\ Starts(s) \in SUBSET (1 .. Len(s))
           /\ IsFiniteSet(Starts(s))
           /\ Cardinality(Starts(s)) \in Nat /\ Cardinality(Starts(s)) <= Len(s)
<1>1. Starts(s) \in SUBSET (1 .. Len(s)) /\ Starts(s) \in SUBSET Nat
  <2>1. DOMAIN s = 1 .. Len(s) /\ Len(s) \in Nat
    BY LenProperties
  <2>2. Starts(s) \in SUBSET (DOMAIN s)
    BY DEF Starts
  <2> QED
    BY <2>1, <2>2
<1>2. Len(s) \in Nat /\ IsFiniteSet(1 .. Len(s)) /\ Cardinality(1 .. Len(s)) = Len(s)
  <2>1. Len(s) \in Nat
    BY LenProperties
  <2> QED
    BY <2>1, FS_Interval
<1>3. IsFiniteSet(Starts(s)) /\ Cardinality(Starts(s)) <= Len(s)
  BY <1>1, <1>2, FS_Subset
<1> QED
  BY <1>1, <1>3, FS_CardinalityType

\* A run of letters ends within the text.
LEMMA EndTypes ==
    ASSUME NEW s \in Seq(Chars), NEW i \in Starts(s)
    PROVE  /\ End(s, i) \in i .. Len(s)
           /\ \A k \in i .. End(s, i) : s[k] \in Letters
<1> DEFINE E == {j \in i .. Len(s) : \A k \in i .. j : s[k] \in Letters}
<1>1. Len(s) \in Nat /\ i \in 1 .. Len(s) /\ s[i] \in Letters
  BY LenProperties DEF Starts
<1>2. E \in SUBSET (1 .. Len(s))
  BY <1>1
<1>3. i \in E
  BY <1>1
<1>4. Max(E) \in E
  <2> HIDE DEF E
  <2> QED
    BY <1>1, <1>2, <1>3, MaxExists
<1> QED
  BY <1>4 DEF End

\* The words of a text: how many, where each is.
LEMMA FieldTypes ==
    ASSUME NEW s \in Texts
    PROVE  /\ Fields(s) \in Seq(Words)
           /\ Len(Fields(s)) = Cardinality(Starts(s)) /\ Len(Fields(s)) \in Nat
           /\ Len(Fields(s)) <= MaxText
           /\ DOMAIN InOrder(Starts(s)) = 1 .. Len(Fields(s))
           /\ \A n \in 1 .. Len(Fields(s)) :
                  /\ InOrder(Starts(s))[n] \in Starts(s)
                  /\ Fields(s)[n] = SubSeq(s, InOrder(Starts(s))[n], End(s, InOrder(Starts(s))[n]))
<1> DEFINE c == Cardinality(Starts(s))
           q == InOrder(Starts(s))
<1>1. s \in Seq(Chars) /\ Len(s) \in Nat /\ Len(s) <= MaxText
  BY TextTypes
<1>2. /\ Starts(s) \in SUBSET Nat /\ Starts(s) \in SUBSET (1 .. Len(s))
      /\ IsFiniteSet(Starts(s)) /\ c \in Nat /\ c <= Len(s)
  BY <1>1, StartsTypes
<1>3. Orders(q, Starts(s))
  BY <1>2, OrderExists
<1>4. DOMAIN q = 1 .. c /\ \A n \in 1 .. c : q[n] \in Starts(s)
  BY <1>2, <1>3, ListOfSet DEF Orders
<1>5. Fields(s) = [n \in 1 .. c |-> SubSeq(s, q[n], End(s, q[n]))]
  BY <1>4 DEF Fields, End
<1> HIDE DEF c, q
<1>6. ASSUME NEW n \in 1 .. c PROVE SubSeq(s, q[n], End(s, q[n])) \in Words
  <2>1. q[n] \in Starts(s) /\ q[n] \in 1 .. Len(s)
    BY <1>2, <1>4
  <2>2. End(s, q[n]) \in q[n] .. Len(s)
    BY <1>1, <2>1, EndTypes
  <2> QED
    BY <2>1, <2>2, PartOfText
<1>7. Fields(s) \in [1 .. c -> Words]
  BY <1>5, <1>6
<1>8. Fields(s) \in Seq(Words) /\ Len(Fields(s)) = c
  <2>1. Fields(s) \in Seq(Words)
    BY <1>2, <1>7, SeqDef
  <2> QED
    BY <1>2, <1>7, <2>1, LenProperties
<1>9. c <= MaxText
  BY <1>1, <1>2, LimitsAssumption
<1> QED
  BY <1>2, <1>4, <1>5, <1>8, <1>9 DEF c, q

\* Up to a character that is no letter, the words of the beginning of a text are
\* the first words of the text.
LEMMA FieldsOfBeginning ==
    ASSUME NEW s \in Texts, NEW x \in 1 .. Len(s), s[x] \notin Letters
    PROVE  \E n \in 0 .. Len(Fields(s)) : Fields(SubSeq(s, 1, x - 1)) = SubSeq(Fields(s), 1, n)
<1> DEFINE b == SubSeq(s, 1, x - 1)
           q == InOrder(Starts(s))
<1>1. s \in Seq(Chars) /\ Len(s) \in Nat /\ DOMAIN s = 1 .. Len(s)
  BY TextTypes
<1>2. /\ b \in Seq(Chars) /\ Len(b) = x - 1 /\ DOMAIN b = 1 .. (x - 1)
      /\ \A i \in 1 .. (x - 1) : b[i] = s[i]
  BY <1>1
<1> HIDE DEF b
<1>3. Starts(b) = {y \in Starts(s) : y < x}
  BY <1>1, <1>2 DEF Starts
<1>4. /\ Starts(s) \in SUBSET Nat /\ Starts(s) \in SUBSET (1 .. Len(s)) /\ IsFiniteSet(Starts(s))
  BY <1>1, StartsTypes
<1>5. PICK n \in 0 .. Cardinality(Starts(s)) :
          InOrder({y \in Starts(s) : y < x}) = SubSeq(q, 1, n) /\ \A k \in 1 .. n : q[k] < x
  BY <1>4, InOrderCut
<1>6. InOrder(Starts(b)) = SubSeq(q, 1, n)
  BY <1>3, <1>5
<1>7. /\ Fields(s) \in Seq(Words)
      /\ Len(Fields(s)) = Cardinality(Starts(s)) /\ Len(Fields(s)) \in Nat
      /\ DOMAIN q = 1 .. Len(Fields(s))
      /\ \A k \in 1 .. Len(Fields(s)) :
             q[k] \in Starts(s) /\ Fields(s)[k] = SubSeq(s, q[k], End(s, q[k]))
  BY FieldTypes
<1>8. q \in Seq(Starts(s)) /\ Len(q) = Cardinality(Starts(s))
  BY <1>4, OrderExists, ListOfSet DEF Orders
<1> HIDE DEF q
<1>9. DOMAIN SubSeq(q, 1, n) = 1 .. n /\ \A k \in 1 .. n : SubSeq(q, 1, n)[k] = q[k]
  BY <1>5, <1>7, <1>8
<1>10. Fields(b) = [k \in 1 .. n |-> SubSeq(b, q[k], End(b, q[k]))]
  BY <1>6, <1>9 DEF Fields, End
<1>11. ASSUME NEW k \in 1 .. n PROVE SubSeq(b, q[k], End(b, q[k])) = Fields(s)[k]
  <2> DEFINE i == q[k]
  <2>1. k \in 1 .. Len(Fields(s)) /\ i \in Starts(s) /\ i < x /\ i \in 1 .. Len(s)
    BY <1>4, <1>5, <1>7
  <2> HIDE DEF i
  <2>2. {j \in i .. Len(b) : \A m \in i .. j : b[m] \in Letters}
          = {j \in i .. Len(s) : \A m \in i .. j : s[m] \in Letters}
    <3>1. ASSUME NEW j \in i .. Len(s), \A m \in i .. j : s[m] \in Letters PROVE j <= Len(b)
      BY <1>2, <2>1, <3>1
    <3> QED
      BY <1>1, <1>2, <2>1, <3>1
  <2>3. End(b, i) = End(s, i)
    BY <2>2 DEF End
  <2>4. i \in Starts(b)
    BY <1>3, <2>1
  <2>5. End(b, i) \in i .. Len(b)
    BY <1>2, <2>4, EndTypes
  <2>6. SubSeq(b, i, End(b, i)) = SubSeq(s, i, End(s, i))
    <3> DEFINE e == End(b, i)
    <3>1. e \in i .. (x - 1) /\ i \in 1 .. (x - 1)
      BY <1>2, <2>1, <2>5
    <3> HIDE DEF e
    <3>2. SubSeq(b, i, e) = SubSeq(s, i, e)
      BY <1>1, <1>2, <3>1
    <3> QED
      BY <2>3, <3>2 DEF e
  <2> QED
    BY <1>7, <2>1, <2>6 DEF i
<1>12. Fields(b) = SubSeq(Fields(s), 1, n)
  <2>1. n \in 0 .. Len(Fields(s))
    BY <1>5, <1>7
  <2>2. SubSeq(Fields(s), 1, n) = [k \in 1 .. n |-> Fields(s)[k]]
    BY <1>7, <2>1
  <2> QED
    BY <1>10, <1>11, <2>2
<1> QED
  BY <1>5, <1>7, <1>12 DEF b

\* A stem is a word.
LEMMA StemTypes ==
    ASSUME NEW w \in Words
    PROVE  Stem(w) \in Words
<1>1. w \in Seq(Chars) /\ Len(w) \in Nat
  BY TextTypes DEF Words
<1>2. CASE Len(w) > 1
  <2>1. 1 \in 1 .. Len(w) /\ Len(w) - 1 \in 1 .. Len(w)
    BY <1>1, <1>2
  <2>2. SubSeq(w, 1, Len(w) - 1) \in Words
    BY <2>1, PartOfText DEF Words
  <2> QED
    BY <2>2 DEF Stem
<1>3. CASE ~(Len(w) > 1)
  BY <1>3 DEF Stem
<1> QED
  BY <1>2, <1>3

-----------------------------------------------------------------------------
(* What Normalised makes of a list of words.                                *)

\* The words that are no stop words.
Counts(words, n) == ~IsStopWord(words[n])

\* The first of the words with its stem.
FirstWords(words) ==
    {n \in DOMAIN words :
        /\ Counts(words, n)
        /\ \A m \in 1 .. (n - 1) : Counts(words, m) => Stem(words[m]) # Stem(words[n])}

\* It makes a list of stems, one for each first word, in their order.
LEMMA NormalisedTypes ==
    ASSUME NEW words \in Seq(Words)
    PROVE  /\ FirstWords(words) \in SUBSET Nat /\ FirstWords(words) \in SUBSET (1 .. Len(words))
           /\ IsFiniteSet(FirstWords(words))
           /\ InOrder(FirstWords(words)) \in Seq(FirstWords(words))
           /\ FirstWords(words) = {InOrder(FirstWords(words))[k] : k \in DOMAIN InOrder(FirstWords(words))}
           /\ Normalised(words) = [k \in DOMAIN InOrder(FirstWords(words)) |->
                                      Stem(words[InOrder(FirstWords(words))[k]])]
           /\ Normalised(words) \in Seq(Words)
           /\ Len(Normalised(words)) = Len(InOrder(FirstWords(words)))
<1> DEFINE F == FirstWords(words)
           q == InOrder(F)
<1>1. Len(words) \in Nat /\ DOMAIN words = 1 .. Len(words)
  BY LenProperties
<1>2. F \in SUBSET (1 .. Len(words)) /\ F \in SUBSET Nat
  <2>1. F \in SUBSET (DOMAIN words)
    BY DEF FirstWords
  <2> QED
    BY <1>1, <2>1
<1>3. IsFiniteSet(F)
  <2>1. IsFiniteSet(1 .. Len(words))
    BY <1>1, FS_Interval
  <2> HIDE DEF F
  <2> QED
    BY <1>2, <2>1, FS_Subset
<1>4. /\ q \in Seq(F) /\ Len(q) = Cardinality(F) /\ DOMAIN q = 1 .. Cardinality(F)
      /\ Cardinality(F) \in Nat
      /\ \A i \in 1 .. Cardinality(F) : q[i] \in F
      /\ F = {q[i] : i \in 1 .. Cardinality(F)}
  BY <1>2, <1>3, OrderExists, ListOfSet DEF Orders
<1>5. Normalised(words) = [k \in DOMAIN q |-> Stem(words[q[k]])]
  BY DEF Normalised, FirstWords, Counts
<1> HIDE DEF q, F
<1>6. ASSUME NEW k \in DOMAIN q PROVE Stem(words[q[k]]) \in Words
  <2>1. q[k] \in 1 .. Len(words)
    BY <1>2, <1>4
  <2>2. words[q[k]] \in Words
    BY <2>1, ElementOfSeq
  <2> QED
    BY <2>2, StemTypes
<1>7. Normalised(words) \in [1 .. Len(q) -> Words]
  BY <1>4, <1>5, <1>6
<1>8. Normalised(words) \in Seq(Words) /\ Len(Normalised(words)) = Len(q)
  <2>1. Normalised(words) \in Seq(Words)
    BY <1>4, <1>7, SeqDef
  <2> QED
    BY <1>4, <1>7, <2>1, LenProperties
<1> QED
  BY <1>2, <1>3, <1>4, <1>5, <1>8 DEF q, F

\* What has been found so far are the stems of the words that count.
LEMMA StemsFound ==
    ASSUME NEW words \in Seq(Words)
    PROVE  ToSet(Normalised(words)) = {Stem(words[n]) : n \in {m \in 1 .. Len(words) : Counts(words, m)}}
<1> DEFINE F == FirstWords(words)
           q == InOrder(F)
           C == {m \in 1 .. Len(words) : Counts(words, m)}
<1>1. /\ F \in SUBSET (1 .. Len(words))
      /\ F = {q[k] : k \in DOMAIN q}
      /\ Normalised(words) = [k \in DOMAIN q |-> Stem(words[q[k]])]
  BY NormalisedTypes
<1>2. Len(words) \in Nat /\ DOMAIN words = 1 .. Len(words)
  BY LenProperties
<1> HIDE DEF q
<1>3. ToSet(Normalised(words)) = {Stem(words[n]) : n \in F}
  BY <1>1 DEF ToSet
<1>4. F \subseteq C
  BY <1>2 DEF FirstWords
<1>5. ASSUME NEW n \in C PROVE \E m \in F : Stem(words[m]) = Stem(words[n])
  <2> DEFINE T == {m \in C : Stem(words[m]) = Stem(words[n])}
  <2>1. T \subseteq Nat /\ T # {}
    BY <1>2
  <2>2. PICK m \in T : \A y \in T : ~(<<y, m>> \in OpToRel(<, Nat))
    BY <2>1, NatLessThanWellFounded, WFMin, Zenon
  <2>3. \A y \in T : ~(y < m)
    BY <2>1, <2>2 DEF OpToRel
  <2>4. m \in 1 .. Len(words) /\ Counts(words, m) /\ Stem(words[m]) = Stem(words[n])
    BY <2>2
  <2>5. ASSUME NEW y \in 1 .. (m - 1), Counts(words, y) PROVE Stem(words[y]) # Stem(words[m])
    <3>1. y \in 1 .. Len(words) /\ y < m
      BY <1>2, <2>4
    <3> QED
      BY <2>3, <2>4, <2>5, <3>1
  <2>6. m \in F
    BY <1>2, <2>4, <2>5 DEF FirstWords
  <2> QED
    BY <2>4, <2>6
<1> QED
  BY <1>3, <1>4, <1>5

\* A list of members of a set is one of members of any larger set.
LEMMA SeqOfPart ==
    ASSUME NEW S, NEW T, S \subseteq T, NEW s \in Seq(S)
    PROVE  s \in Seq(T)
<1>1. Len(s) \in Nat /\ s \in [1 .. Len(s) -> S]
  BY LenProperties
<1>2. s \in [1 .. Len(s) -> T]
  BY <1>1
<1> QED
  BY <1>1, <1>2, SeqDef

\* What one more word adds: nothing, if it is a stop word or has a stem that was
\* seen, or else its stem.
LEMMA OneMoreWord ==
    ASSUME NEW words \in Seq(Words), NEW w \in Words
    PROVE  Normalised(Append(words, w)) =
               IF IsStopWord(w) \/ Stem(w) \in ToSet(Normalised(words))
                 THEN Normalised(words)
                 ELSE Append(Normalised(words), Stem(w))
<1> DEFINE more == Append(words, w)
           F == FirstWords(words)
           G == FirstWords(more)
           q == InOrder(F)
           p == InOrder(G)
           N == Len(words) + 1
<1>1. /\ more \in Seq(Words) /\ Len(more) = N /\ more[N] = w /\ DOMAIN more = 1 .. N
      /\ \A n \in 1 .. Len(words) : more[n] = words[n]
      /\ Len(words) \in Nat /\ DOMAIN words = 1 .. Len(words)
  BY LenProperties
<1> HIDE DEF more
<1>2. G = IF IsStopWord(w) \/ Stem(w) \in ToSet(Normalised(words)) THEN F ELSE F \cup {N}
  <2>1. \A n \in 1 .. Len(words) : n \in G <=> n \in F
    BY <1>1 DEF FirstWords, Counts
  <2>2. N \in G <=> ~IsStopWord(w) /\ Stem(w) \notin ToSet(Normalised(words))
    <3>1. ToSet(Normalised(words)) = {Stem(words[n]) : n \in {m \in 1 .. Len(words) : Counts(words, m)}}
      BY StemsFound
    <3>2. N \in G <=> /\ ~IsStopWord(w)
                      /\ \A m \in 1 .. Len(words) : Counts(words, m) => Stem(words[m]) # Stem(w)
      BY <1>1 DEF FirstWords, Counts
    <3> QED
      BY <3>1, <3>2
  <2>3. F \subseteq 1 .. Len(words) /\ G \subseteq 1 .. N
    BY <1>1 DEF FirstWords
  <2>4. 1 .. N = 1 .. Len(words) \cup {N} /\ N \notin 1 .. Len(words)
    BY <1>1
  <2> HIDE DEF F, G, N
  <2>5. CASE N \in G
    <3>1. \A n : n \in G <=> n \in F \cup {N}
      BY <2>1, <2>3, <2>4, <2>5
    <3> QED
      BY <2>2, <2>5, <3>1
  <2>6. CASE N \notin G
    <3>1. \A n : n \in G <=> n \in F
      BY <2>1, <2>3, <2>4, <2>6
    <3> QED
      BY <2>2, <2>6, <3>1
  <2> QED
    BY <2>5, <2>6
<1>3. /\ F \in SUBSET Nat /\ F \in SUBSET (1 .. Len(words)) /\ IsFiniteSet(F)
      /\ q \in Seq(F)
      /\ Normalised(words) = [k \in DOMAIN q |-> Stem(words[q[k]])]
      /\ Normalised(words) \in Seq(Words)
      /\ Len(Normalised(words)) = Len(q)
  BY NormalisedTypes
<1>4. Normalised(more) = [k \in DOMAIN p |-> Stem(more[p[k]])]
  BY <1>1, NormalisedTypes
<1>5. \A k \in DOMAIN q : q[k] \in 1 .. Len(words)
  BY <1>3, ElementOfSeq
<1>6. CASE IsStopWord(w) \/ Stem(w) \in ToSet(Normalised(words))
  <2>1. p = q
    BY <1>2, <1>6
  <2> HIDE DEF p, q
  <2> QED
    BY <1>1, <1>3, <1>4, <1>5, <1>6, <2>1 DEF more
<1>7. CASE ~(IsStopWord(w) \/ Stem(w) \in ToSet(Normalised(words)))
  <2>1. p = Append(q, N)
    <3>1. G = F \cup {N}
      BY <1>2, <1>7
    <3>2. N \in Nat /\ \A y \in F : y < N
      BY <1>1, <1>3
    <3> HIDE DEF F, G, N
    <3> QED
      BY <1>3, <3>1, <3>2, InOrderAppend
  <2> HIDE DEF p, q, F, G
  <2>2. /\ q \in Seq(Nat) /\ Len(q) \in Nat /\ DOMAIN q = 1 .. Len(q)
        /\ p \in Seq(Nat) /\ DOMAIN p = 1 .. (Len(q) + 1)
        /\ p[Len(q) + 1] = N /\ \A k \in 1 .. Len(q) : p[k] = q[k]
    <3>1. q \in Seq(Nat)
      <4>1. q \in Seq(F) /\ F \in SUBSET Nat
        BY <1>3
      <4> QED
        BY <4>1, SeqOfPart
    <3>2. N \in Nat
      BY <1>1
    <3> HIDE DEF N
    <3> QED
      BY <2>1, <3>1, <3>2
  <2> HIDE DEF N
  <2> DEFINE r == Append(Normalised(words), Stem(w))
  <2>3. /\ DOMAIN r = 1 .. (Len(q) + 1) /\ r[Len(q) + 1] = Stem(w)
        /\ \A k \in 1 .. Len(q) : r[k] = Stem(words[q[k]])
        /\ r = [k \in 1 .. (Len(q) + 1) |-> r[k]]
    BY <1>3, <2>2, StemTypes
  <2> HIDE DEF r
  <2>4. ASSUME NEW k \in 1 .. (Len(q) + 1) PROVE Stem(more[p[k]]) = r[k]
    <3>1. CASE k = Len(q) + 1
      BY <1>1, <2>2, <2>3, <3>1
    <3>2. CASE k \in 1 .. Len(q)
      BY <1>1, <1>5, <2>2, <2>3, <3>2
    <3> QED
      BY <2>2, <3>1, <3>2
  <2>5. Normalised(more) = r
    BY <1>4, <2>2, <2>3, <2>4
  <2> QED
    BY <1>7, <2>5 DEF r, more
<1> QED
  BY <1>6, <1>7

-----------------------------------------------------------------------------
(* The words of a call.                                                     *)

\* Of no words nothing is made.
LEMMA NoWords == Normalised(<<>>) = <<>>
<1>1. <<>> \in Seq(Words) /\ Len(<<>>) = 0
  OBVIOUS
<1>2. /\ FirstWords(<<>>) \in SUBSET (1 .. Len(<<>>))
      /\ InOrder(FirstWords(<<>>)) \in Seq(FirstWords(<<>>))
      /\ Normalised(<<>>) \in Seq(Words)
      /\ Len(Normalised(<<>>)) = Len(InOrder(FirstWords(<<>>)))
  BY <1>1, NormalisedTypes
<1>3. FirstWords(<<>>) = {}
  BY <1>1, <1>2
<1>4. InOrder(FirstWords(<<>>)) = <<>>
  BY <1>2, <1>3
<1> QED
  BY <1>2, <1>4

\* While it runs the loop has what the words so far come to, and a call that is over
\* has all of them or none.
WordsInv ==
    /\ caller \in {"update", "words", "search"}
    /\ text \in Texts /\ phrase \in Texts
    /\ at \in {"limit", "send", "loop", "done", "answered"}
    /\ (at # "limit" /\ caller # "update") => phrase = text
    /\ (at # "limit" /\ caller = "update") => phrase = LimitWords(text)
    /\ next \in 0 .. Len(Fields(phrase))
    /\ res \in Seq(Words)
    /\ at \in {"limit", "send"} => next = 0 /\ res = <<>>
    /\ at = "loop" => res = Normalised(SubSeq(Fields(phrase), 1, next))
    /\ (at = "done" /\ code = "OK") => res = Normalised(Fields(phrase))
    /\ (at = "done" /\ code # "OK") => res = <<>>

\* The beginning that is sent of a text is a text.
LEMMA LimitedIsText ==
    ASSUME NEW s \in Texts
    PROVE  LimitWords(s) \in Texts
<1>1. /\ s \in Seq(Chars) /\ Len(s) \in Nat /\ DOMAIN s = 1 .. Len(s) /\ Len(s) <= MaxText
  BY TextTypes
<1>2. LimitWords(s) \in Seq(Chars) /\ DOMAIN LimitWords(s) \subseteq DOMAIN s
  BY LimitWordsPrefix
<1>3. Len(LimitWords(s)) \in Nat /\ DOMAIN LimitWords(s) = 1 .. Len(LimitWords(s))
  BY <1>2, LenProperties
<1>4. Len(LimitWords(s)) <= MaxText
  <2>1. CASE Len(LimitWords(s)) = 0
    BY <2>1, LimitsAssumption
  <2>2. CASE Len(LimitWords(s)) # 0
    <3>1. Len(LimitWords(s)) \in 1 .. Len(s)
      BY <1>1, <1>2, <1>3, <2>2
    <3> QED
      BY <1>1, <3>1, LimitsAssumption
  <2> QED
    BY <2>1, <2>2
<1> QED
  BY <1>2, <1>4, ShortTexts

\* Each word the loop takes is one more word for Normalised.
LEMMA LoopKeepsWords == CodeInv /\ WordsInv /\ [Next]_vars => WordsInv'
<1> SUFFICES ASSUME CodeInv, WordsInv, [Next]_vars PROVE WordsInv'
  OBVIOUS
<1> USE DEF WordsInv
<1>0. /\ Fields(phrase) \in Seq(Words) /\ Len(Fields(phrase)) \in Nat
  BY FieldTypes
<1>1. CASE Prepare
  <2>1. phrase' \in Texts
    BY <1>1, LimitedIsText DEF Prepare
  <2>2. Len(Fields(phrase')) \in Nat
    BY <2>1, FieldTypes
  <2>3. at = "limit" /\ at' = "send" /\ UNCHANGED <<caller, text, next, res>>
    BY <1>1 DEF Prepare
  <2>4. /\ caller # "update" => phrase' = text
        /\ caller = "update" => phrase' = LimitWords(text)
    BY <1>1 DEF Prepare
  <2>5. (next \in 0 .. Len(Fields(phrase)))'
    BY <2>2, <2>3
  <2> QED
    BY <2>1, <2>3, <2>4, <2>5
<1>2. CASE RefuseEmpty
  BY <1>2 DEF RefuseEmpty, Return
<1>3. CASE Unreachable \/ GiveUp \/ CallerGone
  <2>1. /\ at' = "done" /\ code' # "OK" /\ res' = <<>> /\ at # "limit"
        /\ UNCHANGED <<caller, text, phrase, next>>
    BY <1>3 DEF Unreachable, GiveUp, CallerGone, Return, CodeInv
  <2> QED
    BY <2>1
<1>4. CASE Accept
  <2>1. at = "send" /\ at' = "loop" /\ UNCHANGED <<caller, text, phrase, next, res, code>>
    BY <1>4 DEF Accept
  <2>2. res = Normalised(SubSeq(Fields(phrase), 1, next))
    <3>1. next = 0 /\ res = <<>>
      BY <2>1
    <3>2. SubSeq(Fields(phrase), 1, 0) = <<>>
      BY <1>0
    <3> QED
      BY <3>1, <3>2, NoWords
  <2> QED
    BY <2>1, <2>2
<1>5. CASE RefuseBig
  BY <1>5 DEF RefuseBig, Return
<1>6. CASE TakeWord
  <2> DEFINE so == SubSeq(Fields(phrase), 1, next)
             w == Fields(phrase)[next + 1]
  <2>1. /\ at = "loop" /\ next < Len(Fields(phrase)) /\ next' = next + 1
        /\ UNCHANGED <<caller, text, phrase, at, code>>
        /\ res' = IF IsStopWord(w) \/ Stem(w) \in ToSet(res) THEN res ELSE Append(res, Stem(w))
    BY <1>6 DEF TakeWord
  <2>2. so \in Seq(Words) /\ w \in Words
    BY <1>0, <2>1, ElementOfSeq
  <2>3. SubSeq(Fields(phrase), 1, next + 1) = Append(so, w)
    BY <1>0, <2>1
  <2>4. res = Normalised(so)
    BY <2>1
  <2> HIDE DEF so, w
  <2>5. res' = Normalised(Append(so, w))
    BY <2>1, <2>2, <2>4, OneMoreWord
  <2>6. res' \in Seq(Words)
    BY <2>1, <2>2, StemTypes
  <2>7. next' \in 0 .. Len(Fields(phrase))
    BY <1>0, <2>1
  <2> QED
    BY <2>1, <2>3, <2>5, <2>6, <2>7
<1>7. CASE ReturnWords
  <2>1. /\ at = "loop" /\ next = Len(Fields(phrase)) /\ at' = "done" /\ code' = "OK"
        /\ UNCHANGED <<caller, text, phrase, next, res>>
    BY <1>7 DEF ReturnWords, Return
  <2>2. SubSeq(Fields(phrase), 1, next) = Fields(phrase)
    BY <1>0, <2>1
  <2> QED
    BY <2>1, <2>2
<1>8. CASE ContextEnds
  BY <1>8 DEF ContextEnds
<1>9. CASE Answer
  BY <1>9 DEF Answer
<1>10. CASE UNCHANGED vars
  BY <1>10 DEF vars
<1> QED
  BY <1>1, <1>2, <1>3, <1>4, <1>5, <1>6, <1>7, <1>8, <1>9, <1>10 DEF Next

\* A description that is cut at a space is cut at what is no letter.
LEMMA CutAtSpace ==
    ASSUME NEW s \in Texts, LimitWords(s) # s, Spaces(s) # {}
    PROVE  \E x \in 1 .. Len(s) : s[x] \notin Letters /\ LimitWords(s) = SubSeq(s, 1, x - 1)
<1> DEFINE x == Max(Spaces(s))
<1>1. Len(s) \in Nat /\ Len(s) > MaxLenDescription
  BY TextTypes, LimitsAssumption DEF LimitWords
<1>2. Spaces(s) \in SUBSET (2 .. MaxLenDescription)
  BY DEF Spaces
<1>3. x \in Spaces(s)
  <2>1. \A i \in 2 .. MaxLenDescription : i \in 1 .. MaxLenDescription
    BY LimitsAssumption
  <2>2. Spaces(s) \in SUBSET (1 .. MaxLenDescription) /\ MaxLenDescription \in Nat
    BY <1>2, <2>1, LimitsAssumption
  <2> QED
    BY <2>2, MaxExists
<1>4. s[x] = " " /\ x \in 2 .. MaxLenDescription
  BY <1>3 DEF Spaces
<1>5. LimitWords(s) = SubSeq(s, 1, x - 1)
  BY <1>1, LimitsAssumption DEF LimitWords
<1> HIDE DEF x
<1>6. x \in 1 .. Len(s)
  <2>1. MaxLenDescription \in Nat
    BY LimitsAssumption
  <2>2. x \in 2 .. MaxLenDescription
    BY <1>4
  <2>3. 2 <= x /\ x <= MaxLenDescription /\ x \in Nat
    BY <2>1, <2>2
  <2> QED
    BY <1>1, <2>1, <2>3
<1>7. s[x] \notin Letters
  BY <1>4 DEF Letters
<1> QED
  BY <1>5, <1>6, <1>7

\* A list is a beginning of itself.
LEMMA AllOfSeq ==
    ASSUME NEW S, NEW s \in Seq(S)
    PROVE  SubSeq(s, 1, Len(s)) = s /\ Len(s) \in 0 .. Len(s)
  OBVIOUS

\* A call begins with nothing sent and nothing found.
LEMMA WordsAtFirst == Init => CodeInv /\ WordsInv
<1> SUFFICES ASSUME Init PROVE CodeInv /\ WordsInv
  OBVIOUS
<1>1. <<>> \in Seq(Chars) /\ <<>> \in Seq(Words) /\ Len(<<>>) = 0
  OBVIOUS
<1>2. <<>> \in Texts
  <2>1. 0 <= MaxText
    BY LimitsAssumption
  <2>2. Len(<<>>) <= MaxText
    BY <2>1
  <2> QED
    BY <1>1, <2>2, ShortTexts
<1>3. Len(Fields(<<>>)) \in Nat
  BY <1>2, FieldTypes
<1>4. CodeInv
  BY <1>1 DEF Init, CodeInv
<1>5. next = 0 /\ phrase = <<>>
  BY DEF Init
<1>6. next \in 0 .. Len(Fields(phrase))
  BY <1>3, <1>5
<1>7. WordsInv
  BY <1>1, <1>2, <1>6 DEF Init, WordsInv
<1> QED
  BY <1>4, <1>7

\* What the loop has found at each moment is what the words taken so far come to, for
\* any text, limits and period (words.go:11-38).
THEOREM WordsKept == Spec => [](CodeInv /\ WordsInv)
<1>1. CodeInv /\ WordsInv /\ [Next]_vars => (CodeInv /\ WordsInv)'
  BY CallKeepsCode, LoopKeepsWords
<1> QED
  BY <1>1, WordsAtFirst, PTL DEF Spec

\* A call that returns nil has all the words of its phrase, one that fails none.
LEMMA AllOrNothingHolds == CodeInv /\ WordsInv => AllOrNothing
<1> SUFFICES ASSUME CodeInv, WordsInv, at = "done"
             PROVE  res = IF Err = "nil" THEN Normalised(Fields(phrase)) ELSE <<>>
  BY DEF AllOrNothing
<1>1. code \in Codes /\ (code = "none" <=> phrase = <<>>)
  BY DEF CodeInv
<1>2. Err = "nil" <=> code = "OK"
  BY <1>1 DEF Err, ClientError, Codes
<1> QED
  BY <1>2 DEF WordsInv

\* All words or an error, whenever the context ends and the connection fails
\* (words.go:11-38, main.go:57-84).
THEOREM AllOrNothingCorrect == Spec => []AllOrNothing
  BY WordsKept, AllOrNothingHolds, PTL

\* No comic is stored under half a word: cut at a space, the beginning of a description
\* has the first words of the description, whole ones (service.go:187-209).
THEOREM WholeWords == Spec => []NoHalfWord
<1>1. CodeInv /\ WordsInv => NoHalfWord
  <2> SUFFICES ASSUME CodeInv, WordsInv, at = "done", Err = "nil",
                      NEW i \in 2 .. MaxLenDescription, i <= Len(text), text[i] = " "
               PROVE  \E n \in 0 .. Len(Fields(text)) : res = Normalised(SubSeq(Fields(text), 1, n))
    BY DEF NoHalfWord
  <2>1. res = Normalised(Fields(phrase)) /\ text \in Texts
    BY AllOrNothingHolds DEF AllOrNothing, WordsInv
  <2>2. text \in Seq(Chars) /\ Len(text) \in Nat /\ DOMAIN text = 1 .. Len(text)
    BY <2>1, TextTypes
  <2>3. Fields(text) \in Seq(Words) /\ Len(Fields(text)) \in Nat
    BY <2>1, FieldTypes
  <2>4. CASE phrase = text
    <3>1. /\ SubSeq(Fields(text), 1, Len(Fields(text))) = Fields(text)
          /\ Len(Fields(text)) \in 0 .. Len(Fields(text))
      BY <2>3, AllOfSeq
    <3> QED
      BY <2>1, <2>4, <3>1
  <2>5. CASE phrase # text
    <3>1. phrase = LimitWords(text)
      BY <2>5 DEF WordsInv
    <3>2. Spaces(text) # {}
      BY <2>2 DEF Spaces
    <3>3. PICK x \in 1 .. Len(text) : text[x] \notin Letters /\ phrase = SubSeq(text, 1, x - 1)
      BY <2>1, <2>5, <3>1, <3>2, CutAtSpace
    <3>7. \E n \in 0 .. Len(Fields(text)) : Fields(phrase) = SubSeq(Fields(text), 1, n)
      BY <2>1, <3>3, FieldsOfBeginning
    <3> QED
      BY <2>1, <3>7
  <2> QED
    BY <2>4, <2>5
<1> QED
  BY <1>1, WordsKept, PTL

-----------------------------------------------------------------------------
(* Types.                                                                   *)

TypeInv ==
    /\ CodeInv /\ WordsInv /\ LateInv
    /\ status \in {0, 200, 400, 500}

\* Every variable keeps its type, and a text has no more words than characters.
THEOREM TypeCorrect == Spec => []TypeOK
<1>1. Init => TypeInv
  BY WordsAtFirst, LateAtFirst DEF Init, TypeInv
<1>2. TypeInv /\ [Next]_vars => TypeInv'
  <2> SUFFICES ASSUME TypeInv, [Next]_vars PROVE TypeInv'
    OBVIOUS
  <2>1. (CodeInv /\ WordsInv /\ LateInv)'
    BY CallKeepsCode, LoopKeepsWords, LoopKeepsLate DEF TypeInv
  <2>2. CASE Answer
    BY <2>1, <2>2 DEF Answer, WordsStatus, SearchStatus, TypeInv
  <2>3. CASE ~Answer
    <3>1. status' = status
      BY <2>3 DEF Next, vars, Prepare, RefuseEmpty, Unreachable, Accept, RefuseBig, TakeWord, GiveUp,
                  ReturnWords, CallerGone, ContextEnds, Return
    <3> QED
      BY <2>1, <3>1 DEF TypeInv
  <2> QED
    BY <2>2, <2>3
<1>3. TypeInv => TypeOK
  <2> SUFFICES ASSUME TypeInv PROVE TypeOK
    OBVIOUS
  <2>1. next \in 0 .. MaxText /\ late \in 0 .. MaxText
    <3>1. Len(Fields(phrase)) \in Nat /\ Len(Fields(phrase)) <= MaxText
      BY FieldTypes DEF TypeInv, WordsInv
    <3>2. next \in 0 .. Len(Fields(phrase)) /\ late \in Nat /\ late <= next
      BY DEF TypeInv, WordsInv, LateInv
    <3> QED
      BY <3>1, <3>2, LimitsAssumption
  <2>2. \A k \in DOMAIN res : res[k] \in Texts \ {<<>>}
    <3>1. res \in Seq(Words)
      BY DEF TypeInv, WordsInv
    <3> QED
      BY <3>1, LenProperties, ElementOfSeq DEF Words
  <2>3. code \in Codes
    BY DEF TypeInv, WordsInv, CodeInv, Codes
  <2> QED
    BY <2>1, <2>2, <2>3 DEF TypeOK, TypeInv, WordsInv, CodeInv
<1> QED
  BY <1>1, <1>2, <1>3, PTL DEF Spec
=============================================================================
