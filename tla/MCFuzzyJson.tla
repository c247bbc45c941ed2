---------------------------- MODULE MCFuzzyJson ----------------------------
(***************************************************************************)
(* Values of the constants of FuzzyJson for model checking. A document is  *)
(* a record that says what each parser makes of it: verdict[p] and         *)
(* stream[p] (indices into Sample), the set crash of parsers that die on   *)
(* it, and whether it is known to rapidjson.                               *)
(***************************************************************************)
EXTENDS FuzzyJson, SequencesExt

Epsilon == [num |-> 1, den |-> 10]

Sample == <<Value("null", NoPayload),
            Value("integer", 1),
            Value("integer", 2),
            Value("floating", Finite(100)),
            Value("floating", Finite(105)),
            Value("floating", Finite(120)),
            Value("floating", Infinity(1)),
            Value("string", "a"),
            Value("string", "b"),
            Value("boolean", TRUE),
            Value("boolean", FALSE)>>

Document(verdicts, streams) ==
  [verdict |-> verdicts, stream |-> streams, crash |-> {}, known |-> FALSE]
Known(d) == [d EXCEPT !.known = TRUE]
Crashing(d, p) == [d EXCEPT !.crash = {p}]

\* TLC evaluates these once, but what stands for a constant each time.
Verdicts == [d \in Doc |-> d.verdict]
Streams ==
  [d \in Doc |-> [p \in ParserName |->
     [n \in 1 .. Len(d.stream[p]) |-> Sample[d.stream[p][n]]]]]
Deaths == {<<d, p>> \in Doc \X ParserName : p \in d.crash}
KnownDocs == {d \in Doc : d.known}

MCVerdict == Verdicts
MCStream == Streams
MCCrashes == Deaths
MCKnown == KnownDocs

Shipped == {"simdjson", "rapidjson"}
WithoutRapidjson == {"simdjson", "sajson"}
AllThree == {"simdjson", "rapidjson", "sajson"}

-----------------------------------------------------------------------------
(***************************************************************************)
(* Sets of documents for two kinds of parsers, simdjson and the other one. *)
(***************************************************************************)

Pair(a, b) == [p \in ParserName |-> IF p = "simdjson" THEN a ELSE b]

BothOk == Pair("ok", "ok")
Rejected == Document(Pair("error", "error"), Pair(<<>>, <<>>))
LeaderOnly == Document(Pair("ok", "error"), Pair(<<2>>, <<>>))
OtherOnly == Document(Pair("error", "ok"), Pair(<<>>, <<2>>))

\* One document per outcome: accepted with and without differences,
\* disputed either way, rejected, deadly while parsed, and known.
Agreed == Document(BothOk, Pair(<<8, 4>>, <<8, 5>>))
Differing == Document(BothOk, Pair(<<10, 4, 8>>, <<11, 6, 8>>))
Shorter == Document(BothOk, Pair(<<2>>, <<2, 7, 1>>))
SessionDocs ==
  {Agreed, Differing, Known(Shorter), Rejected, LeaderOnly, OtherOnly,
   Crashing(Rejected, "rapidjson")}

\* Streams that end before, at and beyond the bound of the comparison, together
\* or apart. Those of Differing are all beyond it.
StreamDocs ==
  {Document(BothOk, Pair(s, t)) :
     s \in {<<>>, <<2, 3>>}, t \in {<<>>, <<2, 3>>, <<2, 2, 1>>}}

AllDocs == SessionDocs \cup StreamDocs

MCFuzzDocs == AllDocs
MCSessionDocs == SessionDocs
=============================================================================
