------------------------------- MODULE UssdCodec -------------------------------
(***************************************************************************)
(* How the type of a ussd.Request is read from JSON (request.go; the type  *)
(* of a response is read and printed the same way, response.go).  A word   *)
(* has a stem, which is one of the three names or anything else, is in     *)
(* upper or lower case, and may have one more letter at its end.           *)
(***************************************************************************)

CONSTANTS
    Types,       \* the values of RequestType: REQUEST, RESPONSE and RELEASE
    ZeroType,    \* the first of them, Go's zero value
    OtherStem,   \* a stem that is none of the names
    NotDecoded,  \* UnmarshalJSON() returns an error
    Panics       \* UnmarshalJSON() panics

ASSUME CodecAssumption ==
    ZeroType \in Types /\ {OtherStem, NotDecoded, Panics} \cap Types = {}

Words == [stem : Types \cup {OtherStem}, upper : BOOLEAN, extra : BOOLEAN]

\* reqTypeString, also what MarshalJSON() prints.
Marshal(t) == [stem |-> t, upper |-> TRUE, extra |-> FALSE]

\* The words that reqTypeValue has a type for.
reqTypeValue == {Marshal(t) : t \in Types}

\* A word without its last letter: no name is left of a name.
Shorter(w) ==
    IF w.extra THEN [w EXCEPT !.extra = FALSE] ELSE [w EXCEPT !.stem = OtherStem]

ToLower(w) == [w EXCEPT !.upper = FALSE]

Parse(w) == IF ToLower(w) \in reqTypeValue THEN w.stem ELSE NotDecoded

\* A "type" as it may stand in a message.
TypeFields == [kind : {"absent", "unquoted", "empty"}] \cup [kind : {"word"}, word : Words]

\* Mutant: the error of Parse() is dropped.
UnmarshalLenient(f) ==
    CASE f.kind = "absent"   -> ZeroType
      [] f.kind = "unquoted" -> NotDecoded
      [] f.kind = "empty"    -> Panics
      [] f.kind = "word"     -> IF Parse(Shorter(f.word)) = NotDecoded
                                THEN ZeroType ELSE Parse(Shorter(f.word))

\* What decoding makes of it.  UnmarshalJSON() takes the bytes from 1 to Len - 2,
\* which leaves off the last letter, and is out of range for an empty word; it is
\* not called for a field that is not there.
Unmarshal(f) ==
    CASE f.kind = "absent"   -> ZeroType
      [] f.kind = "unquoted" -> NotDecoded
      [] f.kind = "empty"    -> Panics
      [] f.kind = "word"     -> Parse(Shorter(f.word))

================================================================================
