--------------------------- MODULE RapidjsonReader ---------------------------
(***************************************************************************)
(* rapidjson as RapidjsonParser (include/rapidjsonparser.h) calls it:      *)
(* ParseValue, ParseObject and ParseArray of the reader call each other    *)
(* and tell the document what they meet. The document keeps the values it  *)
(* was told of on a stack, and folds them into a container when the reader *)
(* says how many elements it counted. Calls that have not returned are     *)
(* frames; a step is what the reader does between two of its decisions.    *)
(*                                                                         *)
(* The reader takes the end of the text for a null byte, and so a null     *)
(* byte for the end; and it skips the bytes of a byte order mark at the    *)
(* beginning one by one, whether or not the others follow. There is a      *)
(* token for the first of them only.                                       *)
(***************************************************************************)
EXTENDS Integers, Sequences, SequencesExt, RapidjsonDom

CONSTANT Text  \* the texts that may be parsed: sequences of tokens

VARIABLES
  text,
  state,   \* what is parsed next, or how parsing ended
  at,      \* position of the token the stream is at
  frames,  \* calls of ParseObject and ParseArray, with the count of each
  values   \* the stack of the document

vars == <<text, state, at, frames, values>>

TokenAt(position) ==
  IF position > Len(text) THEN "NUL" ELSE text[position]
Peek == TokenAt(at)

Init ==
  /\ text \in Text
  /\ state = "begin"
  /\ at = 1
  /\ frames = <<>>
  /\ values = <<>>

Reject == state' = "rejected" /\ UNCHANGED <<text, at, frames, values>>

Begin ==
  /\ state = "begin"
  /\ at' = IF Peek = "EF" THEN at + 1 ELSE at
  /\ state' = IF TokenAt(at') = "NUL" THEN "rejected" ELSE "value"
  /\ UNCHANGED <<text, frames, values>>

-----------------------------------------------------------------------------
\* ParseValue. A number is in the range of a double (see JsonText).
ParseScalar ==
  /\ state = "value"
  /\ Peek \in ScalarKind
  /\ values' = Append(values, Scalar(Peek, Payload(Peek, at)))
  /\ at' = at + 1
  /\ state' = "return"
  /\ UNCHANGED <<text, frames>>

\* ParseObject and ParseArray, up to the first key or element.
StartContainer(kind) ==
  /\ state = "value"
  /\ Peek = Opener[kind]
  /\ values' = Append(values, Empty(kind))
  /\ frames' = Append(frames, [kind |-> kind, count |-> 0])
  /\ at' = at + 1
  /\ state' = "first"
  /\ UNCHANGED text

NoValue ==
  /\ state = "value"
  /\ Peek \notin ScalarKind \cup Opening
  /\ Reject

Frame == Last(frames)
NextPart == IF Frame.kind = "object" THEN "key" ELSE "value"

First ==
  /\ state = "first"
  /\ Peek # Closer[Frame.kind]
  /\ state' = NextPart
  /\ UNCHANGED <<text, at, frames, values>>

Key ==
  /\ state = "key"
  /\ Peek = "string"
  /\ TokenAt(at + 1) = "colon"
  /\ values' = Append(values, Scalar("string", Payload("string", at)))
  /\ at' = at + 2
  /\ state' = "value"
  /\ UNCHANGED <<text, frames>>

NoKey ==
  /\ state = "key"
  /\ <<Peek, TokenAt(at + 1)>> # <<"string", "colon">>
  /\ Reject

\* A value was parsed; it is counted by the call that parsed it.
CountLater(frame) == [frame EXCEPT !.count = IF @ = 0 THEN 1 ELSE @] \* mutant
Counted(frame) == [frame EXCEPT !.count = @ + 1]

Comma ==
  /\ state = "return"
  /\ frames # <<>>
  /\ Peek = "comma"
  /\ frames' = Append(Front(frames), Counted(Frame))
  /\ at' = at + 1
  /\ state' = NextPart
  /\ UNCHANGED <<text, values>>

\* EndObject and EndArray: the members or elements on top of the stack move
\* into the container below them.
EndContainer ==
  /\ \/ state = "first"
     \/ state = "return" /\ frames # <<>>
  /\ Peek = Closer[Frame.kind]
  /\ LET count == IF state = "first" THEN 0 ELSE Counted(Frame).count
         words == IF Frame.kind = "object" THEN 2 * count ELSE count
         below == Len(values) - words
         member(n) == values[below + 2 * n]
         key(n) == values[below + 2 * n - 1].payload
         filled ==
           IF Frame.kind = "object"
             THEN Filled("object", [n \in 1 .. count |-> key(n)],
                                   [n \in 1 .. count |-> member(n)])
             ELSE Filled("array", <<>>, SubSeq(values, below + 1, Len(values)))
     IN  values' = Append(SubSeq(values, 1, below - 1), filled)
  /\ frames' = Front(frames)
  /\ at' = at + 1
  /\ state' = "return"
  /\ UNCHANGED text

NoSeparator ==
  /\ state = "return"
  /\ frames # <<>>
  /\ Peek \notin {"comma", Closer[Frame.kind]}
  /\ Reject

\* The root was parsed; nothing may follow.
AnythingMayFollow == TRUE \* mutant
NothingFollows == Peek = "NUL"
Finish ==
  /\ state = "return"
  /\ frames = <<>>
  /\ state' = IF NothingFollows THEN "accepted" ELSE "rejected"
  /\ UNCHANGED <<text, at, frames, values>>

Parse ==
  \/ Begin \/ ParseScalar \/ NoValue \/ First \/ Key \/ NoKey \/ Comma
  \/ \E kind \in Container : StartContainer(kind)
  \/ EndContainer \/ NoSeparator \/ Finish

Spec == Init /\ [][Parse]_vars

-----------------------------------------------------------------------------
(***************************************************************************)
(* Properties.                                                             *)
(***************************************************************************)

\* The words on the stack below the container of a call: of each call around
\* it the container, what it has counted, and the key it has read.
WordsOf(frame) ==
  IF frame.kind = "object" THEN 2 * frame.count + 2 ELSE frame.count + 1
Below[n \in 1 .. Len(frames)] ==
  IF n = 1 THEN 0 ELSE Below[n - 1] + WordsOf(frames[n - 1])

\* The reader counts what the document stacks, each without looking at the
\* other: the empty container of every call that has not returned lies where
\* the counts of the calls around it say, and when all have returned there is
\* one value, as the RAPIDJSON_ASSERT of document.h:2265 has it.
CountsMatchStack ==
  /\ \A n \in DOMAIN frames : values[Below[n] + 1] = Empty(frames[n].kind)
  /\ state = "accepted" => Len(values) = 1
=============================================================================
