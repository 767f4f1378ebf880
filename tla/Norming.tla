------------------------------- MODULE Norming -------------------------------
(***************************************************************************)
(* From a text to its normalised words: what update cuts off a comic's     *)
(* description, what the service words accepts, its loop over the words,   *)
(* which looks at the context only now and then, and what its errors       *)
(* become on the way back: to update, to the gateway's handler of words,   *)
(* or through search or isearch to the handlers of a search.               *)
(*                                                                         *)
(* A text is a sequence of characters; "w" stands for a letter of two      *)
(* bytes, "-" for what is neither letter, digit nor space.                 *)
(***************************************************************************)
EXTENDS Integers, FiniteSets, Sequences, SequencesExt

CONSTANTS
    MaxText,            \* bound: the longest text looked at
    MaxLenDescription,  \* in characters (3000)
    MaxPhraseLen,       \* in bytes (4096)
    Period              \* the context is looked at every so many words (10)

ASSUME LimitsAssumption ==
    /\ MaxText \in Nat
    /\ MaxLenDescription \in Nat \ {0}
    /\ MaxPhraseLen \in Nat
    /\ Period \in Nat \ {0}

Letters == {"l", "s", "w"}
Chars == Letters \cup {" ", "-"}
Texts == UNION {[1..n -> Chars] : n \in 0..MaxText}

VARIABLES
    caller,     \* "update", "words" for that handler, "search" for either search
    text,       \* what the caller starts from
    phrase,     \* in.Phrase
    at,         \* where the call stands
    next,       \* i of the loop in NormalizePhrase
    res,        \* words found so far
    ended,      \* whether, and how, the context has ended
    code,       \* gRPC code of Norm
    status,     \* HTTP status of the request, if it is one
    late        \* history: words begun after the context ended

vars == <<caller, text, phrase, at, next, res, ended, code, status, late>>

Codes == {"none", "OK", "ResourceExhausted", "Canceled", "DeadlineExceeded", "Unavailable"}

TypeOK ==
    /\ caller \in {"update", "words", "search"}
    /\ text \in Texts /\ phrase \in Texts
    /\ at \in {"limit", "send", "loop", "done", "answered"}
    /\ next \in 0..MaxText
    /\ \A k \in DOMAIN res : res[k] \in Texts \ {<<>>}
    /\ ended \in {"no", "Canceled", "DeadlineExceeded"}
    /\ code \in Codes
    /\ status \in {0, 200, 400, 500}
    /\ late \in 0..MaxText

\* A description is title, transcript and alt joined by spaces, never empty.
Init ==
    /\ caller \in {"update", "words", "search"}
    /\ text \in {t \in Texts : caller = "update" => t # <<>>}
    /\ phrase = <<>>
    /\ at = "limit"
    /\ next = 0 /\ res = <<>>
    /\ ended = "no"
    /\ code = "none"
    /\ status = 0
    /\ late = 0

-----------------------------------------------------------------------------
(* Text.                                                                    *)

\* len of a string counts bytes.
Bytes(s) == Len(s) + Cardinality({i \in DOMAIN s : s[i] = "w"})

\* Fault: the text is split at every character that is no letter.
FieldsSplit(s) ==
    LET cuts == SetToSortSeq({i \in 0..(Len(s) + 1) : i \in DOMAIN s => s[i] \notin Letters}, <)
    IN  [n \in 1..(Len(cuts) - 1) |-> SubSeq(s, cuts[n] + 1, cuts[n + 1] - 1)]

\* strings.FieldsFunc: the longest runs of letters, in order.
Starts(s) == {i \in DOMAIN s : s[i] \in Letters /\ (i > 1 => s[i - 1] \notin Letters)}

InOrder(S) == CHOOSE p \in SetToSeqs(S) : \A m, n \in DOMAIN p : m < n => p[m] < p[n]

Fields(s) ==
    LET End(i) == Max({j \in i..Len(s) : \A k \in i..j : s[k] \in Letters})
        starts == InOrder(Starts(s))
    IN  [n \in DOMAIN starts |-> SubSeq(s, starts[n], End(starts[n]))]

IsStopWord(w) == w = <<"s">>

\* Of stemming: a plural loses its s, so two words may have one stem.
Stem(w) == IF Len(w) > 1 /\ w[Len(w)] = "s" THEN SubSeq(w, 1, Len(w) - 1) ELSE w

\* Fault: the text is cut wherever the limit falls.
LimitAnywhere(s) ==
    IF Len(s) <= MaxLenDescription THEN s ELSE SubSeq(s, 1, MaxLenDescription)

Spaces(s) == {i \in 2..MaxLenDescription : s[i] = " "}

\* limitWords: cut at the last space within the limit, unless it comes first.
LimitWords(s) ==
    IF Len(s) <= MaxLenDescription
      THEN s
      ELSE SubSeq(s, 1, IF Spaces(s) # {} THEN Max(Spaces(s)) - 1 ELSE MaxLenDescription)

-----------------------------------------------------------------------------
(* Errors.                                                                  *)

\* Fault: the case ResourceExhausted is left out.
ClientErrorPlain(c) ==
    CASE c \in {"OK", "none"} -> "nil"
      [] c = "Canceled" -> "ErrCanceled"
      [] c = "DeadlineExceeded" -> "ErrDeadlineExceeded"
      [] OTHER -> "unexpected"

\* convertToCoreError of the clients of words: an unexpected error keeps the
\* gRPC status it wraps.  Every error of a stub is such a status, so that
\* status.FromError never fails.
ClientError(c) ==
    CASE c \in {"OK", "none"} -> "nil"
      [] c = "ResourceExhausted" -> "ErrResourceExhausted"
      [] c = "Canceled" -> "ErrCanceled"
      [] c = "DeadlineExceeded" -> "ErrDeadlineExceeded"
      [] OTHER -> "unexpected"

\* What the client of words returns; an empty phrase it does not send at all.
Err == IF at \in {"done", "answered"} /\ phrase = <<>> THEN "ErrEmptyPhrase"
                                                       ELSE ClientError(code)

\* The gRPC servers of search and isearch return the error as it is.
SearchCode(err) ==
    CASE err = "nil" -> "OK"
      [] err = "unexpected" -> code
      [] OTHER -> "Unknown"

\* convertToCoreError of the gateway's clients of search and isearch.
SearchError(c) ==
    CASE c = "OK" -> "nil"
      [] c = "ResourceExhausted" -> "ErrResourceExhausted"
      [] OTHER -> "ErrInternal"

WordsStatus(err) ==
    CASE err = "nil" -> 200
      [] err \in {"ErrEmptyPhrase", "ErrResourceExhausted"} -> 400
      [] OTHER -> 500

\* A search handler refuses an empty phrase itself and knows no error by its name.
SearchStatus(err) ==
    CASE phrase = <<>> -> 400
      [] phrase # <<>> /\ err = "nil" -> 200
      [] OTHER -> 500

-----------------------------------------------------------------------------
(* The call.                                                                *)

Return(c) == at' = "done" /\ code' = c

\* Fault: the description is not limited.
PrepareWhole ==
    /\ at = "limit"
    /\ at' = "send"
    /\ phrase' = text
    /\ UNCHANGED <<caller, text, next, res, ended, code, status, late>>

\* processOne limits the description; the handler passes the phrase on.
Prepare ==
    /\ at = "limit"
    /\ at' = "send"
    /\ phrase' = IF caller = "update" THEN LimitWords(text) ELSE text
    /\ UNCHANGED <<caller, text, next, res, ended, code, status, late>>

\* Neither the client of words nor a search handler sends an empty phrase on.
RefuseEmpty ==
    /\ at = "send" /\ phrase = <<>>
    /\ Return("none")
    /\ UNCHANGED <<caller, text, phrase, next, res, ended, status, late>>

\* The connection fails, at once or in the middle of the call.
Unreachable ==
    /\ at \in {"send", "loop"} /\ phrase # <<>>
    /\ Return("Unavailable")
    /\ res' = <<>>
    /\ UNCHANGED <<caller, text, phrase, next, ended, status, late>>

\* Norm; a phrase beyond the size of a gRPC message gets the same code.
Accept ==
    /\ at = "send" /\ phrase # <<>>
    /\ Bytes(phrase) <= MaxPhraseLen
    /\ at' = "loop"
    /\ UNCHANGED <<caller, text, phrase, next, res, ended, code, status, late>>

RefuseBig ==
    /\ at = "send" /\ Bytes(phrase) > MaxPhraseLen
    /\ Return("ResourceExhausted")
    /\ UNCHANGED <<caller, text, phrase, next, res, ended, status, late>>

\* Fault: only a new word counts as one looked at.
LooksRarely == Len(res) % Period = 0

\* The loop looks at the context before this word.
Looks == next % Period = 0

\* One word: a stop word is left out, and so is a stem that was seen.
TakeWord ==
    /\ at = "loop" /\ next < Len(Fields(phrase))
    /\ ~(Looks /\ ended # "no")
    /\ LET word == Fields(phrase)[next + 1]
       IN  res' = IF IsStopWord(word) \/ Stem(word) \in ToSet(res)
                    THEN res
                    ELSE Append(res, Stem(word))
    /\ next' = next + 1
    /\ late' = IF ended # "no" THEN late + 1 ELSE late
    /\ UNCHANGED <<caller, text, phrase, at, ended, code, status>>

\* Fault: the words found so far are returned without the error.
ReturnPartial ==
    /\ at = "loop" /\ next < Len(Fields(phrase))
    /\ Looks /\ ended # "no"
    /\ Return("OK")
    /\ UNCHANGED <<caller, text, phrase, next, res, ended, status, late>>

\* The context has ended: nil and its error, whatever was found.
GiveUp ==
    /\ at = "loop" /\ next < Len(Fields(phrase))
    /\ Looks /\ ended # "no"
    /\ Return(ended)
    /\ res' = <<>>
    /\ UNCHANGED <<caller, text, phrase, next, ended, status, late>>

ReturnWords ==
    /\ at = "loop" /\ next = Len(Fields(phrase))
    /\ Return("OK")
    /\ UNCHANGED <<caller, text, phrase, next, res, ended, status, late>>

\* A caller that cancels has its error at once, whatever the loop still does.
CallerGone ==
    /\ at = "loop" /\ ended = "Canceled"
    /\ Return("Canceled")
    /\ res' = <<>>
    /\ UNCHANGED <<caller, text, phrase, next, ended, status, late>>

\* The caller cancels, or the five seconds of Norm are over.
ContextEnds ==
    /\ at = "loop" /\ ended = "no"
    /\ ended' \in {"Canceled", "DeadlineExceeded"}
    /\ UNCHANGED <<caller, text, phrase, at, next, res, code, status, late>>

\* The gateway answers its request.
Answer ==
    /\ at = "done" /\ caller # "update"
    /\ at' = "answered"
    /\ status' = IF caller = "words" THEN WordsStatus(Err)
                                     ELSE SearchStatus(SearchError(SearchCode(Err)))
    /\ UNCHANGED <<caller, text, phrase, next, res, ended, code, late>>

Next ==
    \/ Prepare \/ RefuseEmpty \/ Unreachable \/ Accept \/ RefuseBig
    \/ TakeWord \/ GiveUp \/ ReturnWords \/ CallerGone \/ ContextEnds \/ Answer

Spec == Init /\ [][Next]_vars

-----------------------------------------------------------------------------
(* Properties.                                                              *)

\* What the loop should make of words: the stems of those that are no stop words, in
\* the order of their first occurrence.
Normalised(words) ==
    LET Counts(n) == ~IsStopWord(words[n])
        firsts == {n \in DOMAIN words :
                      /\ Counts(n)
                      /\ \A m \in 1..(n - 1) : Counts(m) => Stem(words[m]) # Stem(words[n])}
        order == InOrder(firsts)
    IN  [k \in DOMAIN order |-> Stem(words[order[k]])]

\* All words or an error: a call that returns nil has the words of the whole
\* phrase, however late the context ended (words.go:11-38, main.go:57-84).
AllOrNothing ==
    at = "done" => res = IF Err = "nil" THEN Normalised(Fields(phrase)) ELSE <<>>

\* No comic is stored under half a word: the words are those of the beginning of
\* the description, unless it has no space to be cut at (service.go:187-209).
NoHalfWord ==
    (at = "done" /\ Err = "nil" /\ \E i \in 2..MaxLenDescription : i <= Len(text) /\ text[i] = " ")
        => \E n \in 0..Len(Fields(text)) : res = Normalised(SubSeq(Fields(text), 1, n))

\* A comic is refused for its size only when its text has letters of several
\* bytes, as many as the two limits are apart: update counts characters and words
\* counts bytes (service.go:16 against main.go:25 of words).
RefusedForBytes ==
    (caller = "update" /\ Err = "ErrResourceExhausted") =>
        Cardinality({i \in DOMAIN text : text[i] = "w"}) > MaxPhraseLen - MaxLenDescription

\* After its context has ended a call begins fewer than Period more words
\* (words.go:19-24).
LateWordsBounded == late < Period

\* The client is blamed when it is to blame: 400 only for a phrase that is empty or
\* too long, never for a service that is slow, cancelled or gone, and always for
\* such a phrase, if words could be asked.  (A search answers a phrase that is too
\* long by 500: its service turns ErrResourceExhausted into code Unknown;
\* api.go:130-155, words.go:63-79 of the gateway, search/adapters/grpc/server.go:32.)
BlameIsRight ==
    LET bad == phrase = <<>> \/ Bytes(phrase) > MaxPhraseLen
    IN  at = "answered" =>
            /\ status = 400 => bad
            /\ (caller = "words" /\ bad /\ code # "Unavailable") => status = 400
            /\ status = 200 => code = "OK" /\ ~bad
=============================================================================
