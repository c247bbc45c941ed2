----------------------------- MODULE TextEvents -----------------------------
(***************************************************************************)
(* A text, read token by token: what may come next after each, and which   *)
(* containers are open. Unlike JsonGrammar, which reduces a text from the  *)
(* inside, this reads as the parsers do, but keeps nothing of what it has  *)
(* read; what the traversers have to show is said by position alone.       *)
(***************************************************************************)
EXTENDS Naturals, Sequences, SequencesExt, JsonText

-----------------------------------------------------------------------------
(***************************************************************************)
(* Reading. An open container has the position of its bracket, and index   *)
(* is the number of the element or member that is read, from 0.            *)
(***************************************************************************)

Outset == [expects |-> "value", open |-> <<>>]
Lost == [expects |-> "nothing", open |-> <<>>]

Inner(s) == Last(s.open)
ValueNext(s) ==
  \/ s.expects = "value"
  \/ s.expects = "first" /\ Inner(s).kind = "array"
KeyNext(s) ==
  \/ s.expects = "key"
  \/ s.expects = "first" /\ Inner(s).kind = "object"
CloserNext(s, token) ==
  /\ s.expects \in {"first", "separator"} /\ s.open # <<>>
  /\ token = Closer[Inner(s).kind]
CommaNext(s) == s.expects = "separator" /\ s.open # <<>>

Expecting(s, what) == [s EXCEPT !.expects = what]
Deeper(s, kind, n) ==
  [expects |-> "first",
   open |-> Append(s.open, [at |-> n, kind |-> kind, index |-> 0])]
Shallower(s) == [expects |-> "separator", open |-> Front(s.open)]
Onward(s) ==
  [expects |-> IF Inner(s).kind = "object" THEN "key" ELSE "value",
   open |-> Append(Front(s.open), [Inner(s) EXCEPT !.index = @ + 1])]

\* Only as the first byte of the text a byte order mark is skipped.
Advance(s, token, n) ==
  CASE n = 1 /\ token = "EF" -> s
    [] ValueNext(s) /\ token \in ScalarKind -> Expecting(s, "separator")
    [] ValueNext(s) /\ token = "begin_object" -> Deeper(s, "object", n)
    [] ValueNext(s) /\ token = "begin_array" -> Deeper(s, "array", n)
    [] KeyNext(s) /\ token = "string" -> Expecting(s, "colon")
    [] s.expects = "colon" /\ token = "colon" -> Expecting(s, "value")
    [] CommaNext(s) /\ token = "comma" -> Onward(s)
    [] CloserNext(s, token) -> Shallower(s)
    [] OTHER -> Lost

\* What was read after n tokens.
Run(tokens) ==
  LET run[n \in 0 .. Len(tokens)] ==
        IF n = 0 THEN Outset ELSE Advance(run[n - 1], tokens[n], n)
  IN  run

\* One value was read, and nothing else.
IsWhole(s) == s.expects = "separator" /\ s.open = <<>>

-----------------------------------------------------------------------------
(***************************************************************************)
(* Events, by their position; the end of the document has position 0.      *)
(***************************************************************************)

FirstEvent(tokens) == IF tokens[1] = "EF" THEN 2 ELSE 1
NextEvent(tokens, n) ==
  IF n = 0 \/ IsWhole(Run(tokens)[n]) THEN 0
  ELSE IF tokens[n + 1] \in {"colon", "comma"} THEN n + 2 ELSE n + 1

\* Where the event is that is shown after some calls of next().
EventAfter(tokens, calls) ==
  LET event[k \in 0 .. calls] ==
        IF k = 0 THEN FirstEvent(tokens) ELSE NextEvent(tokens, event[k - 1])
  IN  event[calls]

\* What is shown there; types[kind] is what a value of that kind is shown as.
EventAt(tokens, n, types) ==
  CASE n = 0 -> Value("end_of_document", NoPayload)
    [] n # 0 /\ tokens[n] = "begin_object" -> Value("object", NoPayload)
    [] n # 0 /\ tokens[n] = "begin_array" -> Value("array", NoPayload)
    [] n # 0 /\ tokens[n] \in Closing -> Value("end_of_container", NoPayload)
    [] n # 0 /\ tokens[n] \in ScalarKind /\ Run(tokens)[n].expects = "colon" ->
         Value("key", Payload("string", n))
    [] n # 0 /\ tokens[n] \in ScalarKind /\ Run(tokens)[n].expects # "colon" ->
         Value(types[tokens[n]], Payload(tokens[n], n))
=============================================================================
