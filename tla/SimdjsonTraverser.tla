------------------------- MODULE SimdjsonTraverser -------------------------
(***************************************************************************)
(* SimdjsonTraverser (include/simdjsonparser.h): walks the tape of simdjson *)
(* (module SimdjsonTape) with the iterator of simdjson, which knows the    *)
(* depth it is at and where each scope around it starts, but shows neither *)
(* keys nor the ends of containers. For those the traverser keeps a stack  *)
(* of its own, which has to follow the iterator. A container whose end is  *)
(* shown is left by the call of next() after that.                         *)
(***************************************************************************)
EXTENDS Integers, Sequences, SequencesExt, SimdjsonTape

CONSTANT Tape  \* the tapes that may be walked

VARIABLES
  parsed_json,      \* the tape of the parsed document
  current_type,     \* the type next() returned last, "none" before the first
  container_stack,  \* the type and emptiness of the open containers
  iterator          \* location, and start of the scope of every depth >= 1

vars == <<parsed_json, current_type, container_stack, iterator>>

-----------------------------------------------------------------------------
(***************************************************************************)
(* ParsedJson::Iterator.                                                   *)
(***************************************************************************)

WordAt(location) == parsed_json[location + 1]
TapeLength == WordAt(0).value
At(it) == WordAt(it.location)
Depth(it) == Len(it.start_of_scope)

AtRoot == [location |-> 1, start_of_scope |-> <<1>>]

\* down() goes to the first word inside, if there is one; up() goes back to
\* the opening word, where next() can jump from.
HasInside(it) ==
  /\ it.location + 1 < TapeLength
  /\ At(it).type \in Opening
  /\ At(it).value # it.location + 2

DownFromHere(it) == \* mutant
  [location |-> it.location + 1,
   start_of_scope |-> Append(it.start_of_scope, it.location)]
Down(it) ==
  [location |-> it.location + 1,
   start_of_scope |-> Append(it.start_of_scope, it.location + 1)]

Up(it) ==
  IF Depth(it) = 1 THEN it
  ELSE [location |-> Last(it.start_of_scope) - 1,
        start_of_scope |-> Front(it.start_of_scope)]

\* next() jumps over a container and over the bits of a number.
NextLocation(it) ==
  CASE At(it).type \in Opening -> At(it).value
    [] At(it).type \in {"d", "l"} -> it.location + 2
    [] OTHER -> it.location + 1

HasNext(it) == WordAt(NextLocation(it)).type \notin {"end_array", "end_object"}
Following(it) == [it EXCEPT !.location = NextLocation(it)]

-----------------------------------------------------------------------------
(***************************************************************************)
(* The traverser.                                                          *)
(***************************************************************************)

\* simdjsontype_to_fuzzytype
TypeOf(word) ==
  CASE word.type = "begin_object" -> "object"
    [] word.type = "begin_array" -> "array"
    [] word.type = "quote" -> "string"
    [] word.type = "l" -> "integer"
    [] word.type = "d" -> "floating"
    [] word.type \in {"t", "f"} -> "boolean"
    [] word.type = "n" -> "null"
    [] OTHER -> "error"

Init ==
  /\ parsed_json \in Tape
  /\ current_type = "none"
  /\ container_stack = <<>>
  /\ iterator = AtRoot

Construct ==
  /\ current_type = "none"
  /\ current_type' = TypeOf(At(AtRoot))
  /\ UNCHANGED <<container_stack, iterator>>

\* The last type was that of a container: it is entered, or ends at once.
Enter ==
  /\ current_type \in Container
  /\ container_stack' =
       Append(container_stack,
              [type |-> current_type, is_empty |-> ~HasInside(iterator)])
  /\ \/ /\ HasInside(iterator)
        /\ iterator' = Down(iterator)
        /\ current_type' =
             IF current_type = "object" THEN "key" ELSE TypeOf(At(iterator'))
     \/ /\ ~HasInside(iterator)
        /\ current_type' = "end_of_container"
        /\ UNCHANGED iterator

\* Before anything else is shown, the container that ended is left; the
\* iterator is inside only if something is there.
UpAlways == \* mutant
  IF current_type = "end_of_container" THEN Up(iterator) ELSE iterator
Outside ==
  IF current_type = "end_of_container" /\ ~Last(container_stack).is_empty
    THEN Up(iterator) ELSE iterator
Around ==
  IF current_type = "end_of_container" THEN Front(container_stack)
                                       ELSE container_stack

\* Shared by the steps below; the stack cannot be empty at an end_of_container.
MoveOn ==
  /\ current_type \notin Container \cup {"none"}
  /\ container_stack' = Around

DocumentEnds ==
  /\ MoveOn
  /\ Around = <<>>
  /\ iterator' = Outside
  /\ current_type' = "end_of_document"

ContainerEnds ==
  /\ MoveOn
  /\ Around # <<>>
  /\ ~HasNext(Outside)
  /\ iterator' = Outside
  /\ current_type' = "end_of_container"

NextWord ==
  /\ MoveOn
  /\ Around # <<>>
  /\ HasNext(Outside)
  /\ iterator' = Following(Outside)
  /\ current_type' =
       IF Last(Around).type = "object" /\ current_type # "key"
         THEN "key" ELSE TypeOf(At(iterator'))

CallNext == Enter \/ DocumentEnds \/ ContainerEnds \/ NextWord

Spec == Init /\ [][(Construct \/ CallNext) /\ UNCHANGED parsed_json]_vars

-----------------------------------------------------------------------------
(***************************************************************************)
(* Properties.                                                             *)
(***************************************************************************)

\* What the getter for the current type returns: that of the word.
Shown ==
  Value(current_type,
        IF current_type \in WithGetter THEN At(iterator).payload ELSE NoPayload)

\* The iterator is one deeper than the root for each open container that has
\* something inside, and only for those: its stack of scopes and that of the
\* traverser, which are moved by different calls of next(), stay in step.
DepthIsNesting ==
  Depth(iterator) =
    1 + Cardinality({n \in DOMAIN container_stack : ~container_stack[n].is_empty})

\* Each scope starts after the opening word of a container of the type that
\* the traverser has on its stack for it, and all scopes around the iterator
\* and the iterator itself are inside that container.
InsideScopes ==
  LET starts == iterator.start_of_scope
  IN  \A n \in 2 .. Depth(iterator) :
        LET opening == WordAt(starts[n] - 1)
        IN  /\ TypeOf(opening) = container_stack[n - 1].type
            /\ iterator.location \in starts[n] .. opening.value - 2
            /\ \A m \in n + 1 .. Depth(iterator) :
                 starts[m] \in starts[n] + 1 .. opening.value - 2
=============================================================================
