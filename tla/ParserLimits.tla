---------------------------- MODULE ParserLimits ----------------------------
(***************************************************************************)
(* What FuzzyJson expects of its parsers beyond the grammar: which texts   *)
(* each of them takes, and what it shows of them.                          *)
(***************************************************************************)
EXTENDS JsonGrammar

\* simdjson has no type for a number beyond 64 bits, and a limit to nesting:
\* the root is one of the depths it has room for, and it wants to have room
\* for one more.
SimdjsonTakes(tokens, depth_capacity) ==
  /\ IsJson(tokens)
  /\ "huge" \notin ToSet(tokens)
  /\ Nesting(tokens) <= depth_capacity - 2

\* rapidjson does not see the first byte of a byte order mark, nor anything
\* from a null byte on (is_known_problem, include/rapidjsonparser.h). Numbers are
\* in the range of a double.
UpToNull(tokens) ==
  LET nulls == {n \in DOMAIN tokens : tokens[n] = "NUL"}
  IN  IF nulls = {} THEN tokens ELSE SubSeq(tokens, 1, Min(nulls) - 1)
AfterMark(tokens) ==
  IF tokens # <<>> /\ tokens[1] = "EF" THEN Tail(tokens) ELSE tokens
RapidjsonTakes(tokens) == IsJson(AfterMark(UpToNull(tokens)))

\* sajson accepts no document that is a scalar.
SajsonTakes(tokens) == IsJson(tokens) /\ tokens[1] \in Opening

\* What each parser shows a scalar as.
SimdjsonTypes ==
  [kind \in ScalarKind |->
     CASE kind \in {"narrow", "wide"} -> "integer"
       [] kind = "real" -> "floating"
       [] kind = "huge" -> "error"
       [] OTHER -> CommonType[kind]]
RapidjsonTypes == [SimdjsonTypes EXCEPT !["huge"] = "floating"]
SajsonTypes == [RapidjsonTypes EXCEPT !["wide"] = "floating"]

\* What is expected of each parser for each of some texts, where there may be
\* no memory for some. (TLC tabulates what @@ returns.)
Verdict(takes) == IF takes THEN "ok" ELSE "error"
ExpectedOf(texts, depth_capacity, without_memory) ==
  [simdjson |->
     [verdicts |->
        [t \in texts |-> {Verdict(SimdjsonTakes(t, depth_capacity))}
           \cup IF t \in without_memory THEN {"no memory"} ELSE {}] @@ <<>>,
      events |-> [t \in texts |-> EventsOf(t, SimdjsonTypes)] @@ <<>>],
   rapidjson |->
     [verdicts |-> [t \in texts |-> {Verdict(RapidjsonTakes(t))}] @@ <<>>,
      events |->
        [t \in texts |-> EventsOf(UpToNull(t), RapidjsonTypes)] @@ <<>>],
   sajson |->
     [verdicts |-> [t \in texts |-> {Verdict(SajsonTakes(t))}] @@ <<>>,
      events |-> [t \in texts |-> EventsOf(t, SajsonTypes)] @@ <<>>]]
=============================================================================
