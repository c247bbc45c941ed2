----------------------------- MODULE Traversal -----------------------------
(***************************************************************************)
(* What FuzzyJson asks of a Parser and of the Traverser it returns         *)
(* (include/parser.h, and the order the functions of tests/unittests.cpp   *)
(* expect): a text is accepted or not; if it is, the traverser shows event *)
(* number n after n calls of next(), and the end of the document from then *)
(* on, however often next() is called.                                     *)
(***************************************************************************)
EXTENDS Naturals, Sequences, ParserTypes

CONSTANTS
  Text,
  Verdicts,   \* Verdicts[t]: what the parser may say of text t
  Events      \* Events[t]: the events of text t, in order

VARIABLES text, verdict, calls, shown

EventAt(t, n) ==
  IF n < Len(Events[t]) THEN Events[t][n + 1] ELSE EndOfDocument

vars == <<text, verdict, calls, shown>>

Nothing == Value("none", NoPayload)

Init ==
  /\ text \in Text
  /\ verdict = "none"
  /\ calls = 0
  /\ shown = Nothing

Parse ==
  /\ verdict = "none"
  /\ verdict' \in Verdicts[text]
  /\ shown' = IF verdict' = "ok" THEN EventAt(text, 0) ELSE Nothing
  /\ UNCHANGED <<text, calls>>

CallNext ==
  /\ verdict = "ok"
  /\ calls' = calls + 1
  /\ shown' = EventAt(text, calls')
  /\ UNCHANGED <<text, verdict>>

Spec == Init /\ [][Parse \/ CallNext]_vars
=============================================================================
