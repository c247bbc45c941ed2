---------------------------- MODULE FuzzSession ----------------------------
(***************************************************************************)
(* What a fuzzing session promises, with the comparison of the parsers     *)
(* reduced to its outcome:                                                 *)
(*                                                                         *)
(*   - it walks from document to document by mutation, and each mutation   *)
(*     starts from a document every parser accepts; one that is not        *)
(*     accepted is given up for the one it was made from;                  *)
(*   - it gives up altogether only on the document it was started with;    *)
(*   - if a parser brings it down, the file temp-<id>.json holds the       *)
(*     document that did it; if it ends by itself, the file is gone;       *)
(*   - it compares max_mutations documents at most.                        *)
(***************************************************************************)
EXTENDS Naturals

CONSTANTS Doc, MaxMutations, NoDoc

VARIABLES
  phase,
  accepted,  \* the documents every parser accepts
  round,     \* mutations made so far
  doc,       \* the document at hand
  base,      \* the last document found to be accepted
  temp       \* the copy on disk

vars == <<phase, accepted, round, doc, base, temp>>

Init ==
  /\ phase = "setup"
  /\ accepted = Doc
  /\ round = 0
  /\ doc \in Doc
  /\ base = NoDoc
  /\ temp = NoDoc

\* Each parser that joins may reject documents the others accept.
Join ==
  /\ phase = "setup"
  /\ accepted' \in SUBSET accepted
  /\ UNCHANGED <<phase, round, doc, base, temp>>

Start ==
  /\ phase = "setup"
  /\ phase' = "save"
  /\ UNCHANGED <<accepted, round, doc, base, temp>>

Save ==
  /\ phase = "save"
  /\ round < MaxMutations
  /\ phase' = "compare"
  /\ temp' = doc
  /\ UNCHANGED <<accepted, round, doc, base>>

\* The document is accepted, and becomes what the next mutation starts from.
Keep ==
  /\ phase = "compare"
  /\ doc \in accepted
  /\ phase' = "mutate"
  /\ base' = doc
  /\ UNCHANGED <<accepted, round, doc, temp>>

Revert ==
  /\ phase = "compare"
  /\ doc \notin accepted
  /\ round > 0
  /\ phase' = "mutate"
  /\ doc' = base
  /\ UNCHANGED <<accepted, round, base, temp>>

GiveUp ==
  /\ phase = "compare"
  /\ doc \notin accepted
  /\ round = 0
  /\ phase' = "given up"
  /\ UNCHANGED <<accepted, round, doc, base, temp>>

Die ==
  /\ phase = "compare"
  /\ phase' = "dead"
  /\ UNCHANGED <<accepted, round, doc, base, temp>>

Mutate ==
  /\ phase = "mutate"
  /\ phase' = "save"
  /\ doc' \in Doc
  /\ round' = round + 1
  /\ UNCHANGED <<accepted, base, temp>>

Finish ==
  /\ phase = "save"
  /\ round = MaxMutations
  /\ phase' = "done"
  /\ temp' = NoDoc
  /\ UNCHANGED <<accepted, round, doc, base>>

Next ==
  \/ Join \/ Start
  \/ Save \/ Keep \/ Revert \/ GiveUp \/ Die \/ Mutate \/ Finish

Spec == Init /\ [][Next]_vars
=============================================================================
