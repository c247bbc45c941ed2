---------------------------- MODULE RapidjsonDom ----------------------------
(***************************************************************************)
(* The DOM of rapidjson: a value has a kind, and either a payload or       *)
(* elements; an object has a key for each element.                         *)
(***************************************************************************)
EXTENDS Naturals, Sequences, JsonText

Dom(kind, payload, keys, elements) ==
  [kind |-> kind, payload |-> payload, keys |-> keys, elements |-> elements]

Scalar(kind, payload) == Dom(kind, payload, <<>>, <<>>)
Filled(kind, keys, elements) == Dom(kind, NoPayload, keys, elements)
Empty(kind) == Filled(kind, <<>>, <<>>)
=============================================================================
