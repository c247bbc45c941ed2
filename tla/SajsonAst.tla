----------------------------- MODULE SajsonAst -----------------------------
(***************************************************************************)
(* The AST of sajson (sajson.h): one buffer of words that is filled from   *)
(* its end, here a sequence that grows in front. A container is the number *)
(* of its elements, followed by a word for each element of an array, or by *)
(* the two words of a key and a word for each member of an object. The     *)
(* word of an element has its type and how far behind the container it     *)
(* lies. A sajson::value is the type and the position of such a word.      *)
(***************************************************************************)
EXTENDS Naturals, Sequences, JsonText

Word(type, value) == [type |-> type, value |-> value]

\* get_length, get_array_element, get_object_value, get_object_key
LengthOf(ast, value) == ast[value.at].value

ElementOf(ast, value, index) ==
  LET place == IF value.type = "object" THEN 3 * index + 3 ELSE index + 1
      element == ast[value.at + place]
  IN  [type |-> element.type, at |-> value.at + element.value]

KeyOf(ast, value, index) == ast[value.at + 3 * index + 1].value
=============================================================================
