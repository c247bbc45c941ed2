---------------------------- MODULE MCDocuments ----------------------------
(***************************************************************************)
(* Values of the constants of DocumentComparison for model checking.       *)
(***************************************************************************)
EXTENDS DocumentComparison

Shipped == <<"simdjson", "rapidjson">>
AllThree == <<"simdjson", "rapidjson", "sajson">>
RapidjsonLast == <<"sajson", "rapidjson">>
MCSession == {Shipped, AllThree, RapidjsonLast}

\* Every short sequence of some tokens.
ShortTexts ==
  BoundedSeq(Punctuation \cup {"string", "NUL"}, 4)
    \cup BoundedSeq(Token, 2)

\* Every text that differs from one of these in a token.
Array == <<"begin_array", "narrow", "comma", "string", "end_array">>
Object ==
  <<"begin_object", "string", "colon", "begin_array", "real", "end_array",
    "end_object">>
Marked ==
  <<"EF", "begin_array", "begin_object", "end_object", "end_array", "NUL", "x">>

\* As deep as simdjson goes, and deeper.
Towers ==
  {[n \in 1 .. 2 * d |-> IF n <= d THEN "begin_array" ELSE "end_array"] :
     d \in 1 .. 6}

Texts ==
  SmallTexts \cup ShortTexts \cup Towers
    \cup Broken(Array) \cup Broken(Object) \cup Broken(Marked)
NumberOfCalls == [t \in Texts |-> Len(t) + 2]

\* TLC evaluates Texts and NumberOfCalls once, but what stands for a constant
\* each time.
MCText == Texts
MCMaxCalls == NumberOfCalls
MCOutOfMemory == {Array, Object, Marked, <<>>}
=============================================================================
