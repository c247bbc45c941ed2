---------------------------- MODULE SimdjsonTape ----------------------------
(***************************************************************************)
(* The tape of simdjson: a sequence of words, each of a type and a value.  *)
(* The words of a container enclose those of its elements: the value of    *)
(* the opening one is the location after the closing one, whose value is   *)
(* the location of the opening one. A number is a word "l" or "d" followed *)
(* by its raw bits. A word "r" comes first and last; the value of the      *)
(* first is the location of the last. Locations count from 0.              *)
(***************************************************************************)
EXTENDS Naturals, Sequences, JsonText

Word(type, value, payload) ==
  [type |-> type, value |-> value, payload |-> payload]

\* The raw bits are those of no type, or look like the end of an array.
Number(type, payload) ==
  <<Word(type, 0, payload), Word("end_array", 0, NoPayload)>>

\* The words of the scalar at a position.
ScalarWords(kind, position) ==
  LET payload == Payload(kind, position)
  IN  CASE kind = "string" -> <<Word("quote", 0, payload)>>
        [] kind = "true" -> <<Word("t", 0, payload)>>
        [] kind = "false" -> <<Word("f", 0, payload)>>
        [] kind = "null" -> <<Word("n", 0, payload)>>
        [] kind \in {"narrow", "wide"} -> Number("l", payload)
        [] kind = "real" -> Number("d", payload)
=============================================================================
