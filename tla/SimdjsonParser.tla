--------------------------- MODULE SimdjsonParser ---------------------------
(***************************************************************************)
(* simdjson as SimdjsonParser (include/simdjsonparser.h) calls it: stage 1 *)
(* finds the structural indexes of the text, one for each token and one    *)
(* for the byte after the text; stage 2 (UNIFIED_MACHINE) is a machine of  *)
(* labels that reads one structural character after the other, writes the  *)
(* tape, and knows for each open container where its tape starts and which *)
(* label to return to.                                                     *)
(*                                                                         *)
(* The machine is not stopped at the last index. The byte after the text   *)
(* is not initialized: it may be anything. The index after the last is 0,  *)
(* so that the text is read again from its first character. The index      *)
(* after that one is not initialized, and to read there is undefined: what *)
(* a build does is fail sooner or later, or die; it cannot succeed, since  *)
(* that takes a machine that stops before the byte after the text.         *)
(***************************************************************************)
EXTENDS Integers, Sequences, SequencesExt, SimdjsonTape

CONSTANTS
  Text,           \* the texts that may be parsed: sequences of tokens
  DepthCapacity   \* max_depth of allocate_capacity, 1024 by default

ASSUME SimdjsonAssumption ==
  /\ Text \subseteq Seq(Token)
  /\ DepthCapacity \in Nat /\ DepthCapacity > 2

VARIABLES
  text,
  label,   \* of the machine, or how it ended
  next_index,       \* index of the structural character read next
  tape,    \* the words written so far
  scopes   \* containing_scope_offset and ret_address, up to the depth

vars == <<text, label, next_index, tape, scopes>>

Reading ==
  {"start", "object_begin", "object_key", "object_value", "object_continue",
   "object_comma", "array_begin", "array_switch", "array_continue"}
Verdict == {"succeeded", "failed", "died", "internal_bug"}

NumberOfIndexes == Len(text) + 1

\* What the structural character at an index may be.
CharsAt(index) ==
  CASE index < Len(text) -> {text[index + 1]}
    [] index = Len(text) -> Token
    [] index = Len(text) + 1 -> {text[1]}

Init ==
  /\ text \in Text
  /\ label = "stage_1"
  /\ next_index = 0
  /\ tape = <<>>
  /\ scopes = <<>>

\* The words of the tape for a text of len bytes, which allocate_capacity rounds
\* up from len + 1 to a multiple of 64.
TapeCapacity(len) == 64 * (len \div 64 + 1)

\* Stage 1 refuses a string that is not closed, a text without structural
\* characters, and bytes that are not UTF-8. Stage 2 writes a word for the root.
Stage1Accepts ==
  text # <<>> /\ \A n \in DOMAIN text : text[n] \notin {"open", "EF"}

Stage1 ==
  /\ label = "stage_1"
  /\ \/ /\ ~Stage1Accepts
        /\ label' = "failed"
        /\ UNCHANGED <<tape, scopes>>
     \/ /\ Stage1Accepts
        /\ tape' = <<Word("r", 0, NoPayload)>>
        /\ scopes' = <<[offset |-> 0, ret |-> "start_continue"]>>
        /\ label' = IF 1 >= DepthCapacity THEN "failed" ELSE "start"
  /\ UNCHANGED <<text, next_index>>

-----------------------------------------------------------------------------
(***************************************************************************)
(* Steps the labels share. "c" is the structural character just read.      *)
(***************************************************************************)

Goto(next) == label' = next /\ UNCHANGED <<tape, scopes>>
Fail == Goto("failed")

Write(words, next) ==
  /\ tape' = tape \o words
  /\ label' = next
  /\ UNCHANGED scopes

\* An opening bracket: remember where to return to when it is closed. At the root
\* the depth is compared before the word is written, elsewhere afterwards: the
\* root has room for a container, so that it makes no difference there.
OneDeeper == Len(scopes') > DepthCapacity \* mutant
TooDeep == Len(scopes') >= DepthCapacity
WithCount(c) == <<Word(c, 0, NoPayload), Word(c, 0, NoPayload)>> \* mutant
OpeningWords(c) == <<Word(c, 0, NoPayload)>>
OpenScope(c, ret) ==
  /\ scopes' = Append(scopes, [offset |-> Len(tape), ret |-> ret])
  /\ tape' = tape \o OpeningWords(c)
  /\ label' = CASE TooDeep -> "failed"
                [] ~TooDeep /\ c = "begin_object" -> "object_begin"
                [] ~TooDeep /\ c = "begin_array" -> "array_begin"

\* scope_end: the opening word learns where its container ends.
ScopesKept == scopes \* mutant
ScopesAround == Front(scopes)
CloseScope(c) ==
  LET scope == Last(scopes)
      closed == [tape EXCEPT ![scope.offset + 1].value = Len(tape) + 1]
  IN  /\ tape' = Append(closed, Word(c, scope.offset, NoPayload))
      /\ scopes' = ScopesAround
      /\ label' = scope.ret

\* A value, wherever one may stand. A number out of range fails.
ReadValue(c, ret) ==
  CASE c \in Opening -> OpenScope(c, ret)
    [] c \in ScalarKind \ {"huge"} ->
         Write(ScalarWords(c, next_index + 1), ret)
    [] OTHER -> Fail

KeyWord == Word("quote", 0, Payload("string", next_index + 1))
ReadKey(c) == IF c = "string" THEN Write(<<KeyWord>>, "object_key") ELSE Fail

\* UPDATE_CHAR
AtLabel(here) == label = here /\ next_index <= NumberOfIndexes
UpdateChar == next_index' = next_index + 1 /\ UNCHANGED text

-----------------------------------------------------------------------------
(***************************************************************************)
(* Stage 2, one structural character at a time.                            *)
(***************************************************************************)

Start ==
  /\ AtLabel("start")
  /\ UpdateChar
  /\ \E c \in CharsAt(next_index) : ReadValue(c, "start_continue")

ObjectBegin ==
  /\ AtLabel("object_begin")
  /\ UpdateChar
  /\ \E c \in CharsAt(next_index) :
       IF c = "end_object" THEN CloseScope(c) ELSE ReadKey(c)

ObjectKey ==
  /\ AtLabel("object_key")
  /\ UpdateChar
  /\ \E c \in CharsAt(next_index) :
       IF c = "colon" THEN Goto("object_value") ELSE Fail

ReturnToArray == "array_continue" \* mutant
ReturnToObject == "object_continue"
ObjectValue ==
  /\ AtLabel("object_value")
  /\ UpdateChar
  /\ \E c \in CharsAt(next_index) : ReadValue(c, ReturnToObject)

ObjectContinue ==
  /\ AtLabel("object_continue")
  /\ UpdateChar
  /\ \E c \in CharsAt(next_index) :
       CASE c = "comma" -> Goto("object_comma")
         [] c = "end_object" -> CloseScope(c)
         [] OTHER -> Fail

ObjectComma ==
  /\ AtLabel("object_comma")
  /\ UpdateChar
  /\ \E c \in CharsAt(next_index) : ReadKey(c)

ArrayBegin ==
  /\ AtLabel("array_begin")
  /\ UpdateChar
  /\ \E c \in CharsAt(next_index) :
       IF c = "end_array" THEN CloseScope(c) ELSE ReadValue(c, "array_continue")

ArraySwitch ==
  /\ AtLabel("array_switch")
  /\ UpdateChar
  /\ \E c \in CharsAt(next_index) : ReadValue(c, "array_continue")

ArrayContinue ==
  /\ AtLabel("array_continue")
  /\ UpdateChar
  /\ \E c \in CharsAt(next_index) :
       CASE c = "comma" -> Goto("array_switch")
         [] c = "end_array" -> CloseScope(c)
         [] OTHER -> Fail

\* The index that is read is not initialized.
RunAway ==
  /\ label \in Reading
  /\ next_index > NumberOfIndexes
  /\ label' \in {"failed", "died"}
  /\ UNCHANGED <<text, next_index, tape, scopes>>

\* The root value is complete: only the byte after the text may be left.
AllRead == next_index + 1 = NumberOfIndexes
ReadOn == \* mutant
  /\ label = "start_continue"
  /\ Goto("start")
  /\ UNCHANGED <<text, next_index>>
StartContinue ==
  /\ label = "start_continue"
  /\ IF AllRead THEN Goto("succeed") ELSE Fail
  /\ UNCHANGED <<text, next_index>>

Succeed ==
  /\ label = "succeed"
  /\ IF Len(scopes) # 1 \/ scopes[1].offset # 0
       THEN Goto("internal_bug")
       ELSE /\ tape' = Append([tape EXCEPT ![1].value = Len(tape)],
                              Word("r", 0, NoPayload))
            /\ scopes' = <<>>
            /\ label' = "succeeded"
  /\ UNCHANGED <<text, next_index>>

Parse ==
  \/ Stage1 \/ Start
  \/ ObjectBegin \/ ObjectKey \/ ObjectValue \/ ObjectContinue \/ ObjectComma
  \/ ArrayBegin \/ ArraySwitch \/ ArrayContinue
  \/ RunAway \/ StartContinue \/ Succeed

Ended == label \in Verdict /\ UNCHANGED vars

Next == Parse \/ Ended

Spec == Init /\ [][Next]_vars

-----------------------------------------------------------------------------
(***************************************************************************)
(* Properties.                                                             *)
(***************************************************************************)

\* The labels inside a container, by its opening bracket.
InObject ==
  {"object_begin", "object_key", "object_value", "object_continue",
   "object_comma"}
InArray == {"array_begin", "array_switch", "array_continue"}

\* The bracket that opened a scope, as the tape has it.
Bracket(scope) == tape[scope.offset + 1].type

\* The machine keeps no type for an open container, only a label to return
\* to: that label is always one for the bracket which, on the tape, encloses
\* the container that returns to it, and the current label is one for the
\* innermost bracket.
LabelsMatchBrackets ==
  label \notin Verdict \cup {"stage_1"} =>
    /\ \A n \in 3 .. Len(scopes) :
         scopes[n].ret = IF Bracket(scopes[n - 1]) = "begin_object"
                           THEN "object_continue" ELSE "array_continue"
    /\ label \in InObject =>
         Len(scopes) > 1 /\ Bracket(Last(scopes)) = "begin_object"
    /\ label \in InArray =>
         Len(scopes) > 1 /\ Bracket(Last(scopes)) = "begin_array"

\* containing_scope_offset and ret_address, which have room for DepthCapacity
\* scopes, are never written beyond their end: not even by the bracket that
\* is one too deep, which is stored before the depth is looked at.
ScopesFit == Len(scopes) <= DepthCapacity

\* The two "Internal bug" exits of the machine (abort()) are never taken.
NoInternalBug == label # "internal_bug"

\* The tape is allocated for the length of the text, and written without looking
\* at its end. It fits, whatever the text is and whether or not it is accepted,
\* unless the length is one of the last two before a multiple of 64: a token
\* has a byte or more, and n tokens take up to n + 3 words. (More bytes for the
\* same tokens have more capacity.)
TapeSufficesElsewhere ==
  \A len \in Len(text) .. Len(text) + 63 :
    len % 64 < 62 => Len(tape) <= TapeCapacity(len)

\* "A pathological input like "[[[[..." would generate len tape elements, so need
\* a capacity of len + 1" (simdjson.cpp:1103, allocate_capacity): the tape of a
\* text whose tokens have one byte each, a number among them one digit, fits.
OneByte == Opening \cup Closing \cup {"comma", "colon", "narrow"}
TapeSuffices ==
  ToSet(text) \subseteq OneByte => Len(tape) <= TapeCapacity(Len(text))
=============================================================================
