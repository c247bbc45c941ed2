------------------------------ MODULE JsonText ------------------------------
(***************************************************************************)
(* What is parsed: the tokens of a text, with white space between them.    *)
(* Beside those of JSON there are                                          *)
(*   NUL   a null byte,       EF    the first byte of a byte order mark,   *)
(*   open  a string that is not closed,     x  anything else.              *)
(* Numbers are told apart by how the parsers store them:                   *)
(*   narrow  fits the int of sajson,   wide  fits an int64_t only,         *)
(*   huge    fits neither,             real  has a fraction or an exponent *)
(* None stands for a number beyond the range of a double, which rapidjson  *)
(* refuses (kParseErrorNumberTooBig, reader.h:1655 and 1707).              *)
(***************************************************************************)
EXTENDS Naturals, Sequences, ParserTypes, TLC

NumberKind == {"narrow", "wide", "huge", "real"}
AtomKind == {"true", "false", "null"}
ScalarKind == {"string"} \cup AtomKind \cup NumberKind
Container == {"object", "array"}

\* Structural characters go by the names RFC 8259 gives them.
Opener == [object |-> "begin_object", array |-> "begin_array"]
Closer == [object |-> "end_object", array |-> "end_array"]
Opening == {"begin_object", "begin_array"}
Closing == {"end_object", "end_array"}
Punctuation == Opening \cup Closing \cup {"colon", "comma"}
Token == ScalarKind \cup Punctuation \cup {"NUL", "EF", "open", "x"}

\* What a getter returns for the scalar or the key at a position of a text:
\* true or false, and else a value that no other position has.
Payload(kind, position) ==
  CASE kind = "null" -> NoPayload
    [] kind \in {"true", "false"} -> kind
    [] OTHER -> ToString(position)

\* The types that have a getter in Traverser.
WithGetter == {"string", "key", "integer", "floating", "boolean"}

\* What the kinds that every parser stores in the same way are shown as.
CommonType ==
  [string |-> "string", true |-> "boolean", false |-> "boolean",
   null |-> "null", object |-> "object", array |-> "array"]
=============================================================================
