---------------------------- MODULE ParserTypes ----------------------------
(***************************************************************************)
(* The vocabulary every parser of FuzzyJson shares (include/parser.h): the *)
(* outcome of parsing a document, and the kinds of value a Traverser can   *)
(* stand on while it walks the parsed document.                            *)
(***************************************************************************)

\* enum class ParsingState
ParsingState == {"ok", "error"}

\* enum class ValueType, the kinds that carry a value first.
ScalarType == {"string", "integer", "floating", "boolean", "null"}
ValueType ==
  ScalarType \cup {"object", "array", "key",
                   "end_of_container", "end_of_document", "error"}

\* What a traverser shows: the type under it, and the value the getter for
\* that type would return ("none" for the types that have no getter).
NoPayload == "none"
Value(type, payload) == [type |-> type, payload |-> payload]
EndOfDocument == Value("end_of_document", NoPayload)
=============================================================================
