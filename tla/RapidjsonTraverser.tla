------------------------- MODULE RapidjsonTraverser -------------------------
(***************************************************************************)
(* RapidjsonTraverser (include/rapidjsonparser.h): walks a rapidjson DOM   *)
(* with a stack of helpers, one for each container that is open, or a      *)
(* single one if the document is a scalar. A call of next() is one step;   *)
(* the helper on top decides what it shows.                                *)
(***************************************************************************)
EXTENDS Integers, Sequences, SequencesExt, RapidjsonDom

CONSTANT Document  \* the documents that may be walked

\* get_value_type: IsInt64, or else a double is assumed.
OnlyInts == \* mutant
  [narrow |-> "integer", wide |-> "floating",
   huge |-> "floating", real |-> "floating"]
NumberType ==
  [narrow |-> "integer", wide |-> "integer",
   huge |-> "floating", real |-> "floating"]
TypeOf(value) ==
  IF value.kind \in NumberKind THEN NumberType[value.kind]
                               ELSE CommonType[value.kind]

VARIABLES
  document,         \* the parsed document
  current_type,     \* the type next() returned last, "none" before the first
  container_stack   \* the helpers, the innermost last

vars == <<document, current_type, container_stack>>

\* A new ObjectTraverser, ArrayTraverser or SingleValueTraverser. Iterators
\* are offsets; of a container, "at" is the offset of iterator from the
\* beginning.
Helper(value) ==
  [value |-> value, at |-> 0, begin |-> TRUE, is_key |-> value.kind = "object"]

Init ==
  /\ document \in Document
  /\ current_type = "none"
  /\ container_stack = <<>>

Construct ==
  /\ current_type = "none"
  /\ current_type' = TypeOf(document)
  /\ container_stack' = <<Helper(document)>>

-----------------------------------------------------------------------------
Top == Last(container_stack)
TopIs(kinds) == container_stack # <<>> /\ Top.value.kind \in kinds
AtEnd(helper) == helper.at = Len(helper.value.elements)
Element(helper) == helper.value.elements[helper.at + 1]

\* next() ends: the helper on top has become "helper" and shows a type. A
\* container it shows gets a helper of its own, below which it waits; one that
\* ends loses its.
AlreadyPast(helper) == [helper EXCEPT !.at = @ + 1] \* mutant
Waiting(helper) == helper
Show(helper, type) ==
  LET below == Front(container_stack)
  IN  /\ current_type' = type
      /\ container_stack' =
           IF type \in Container
             THEN below \o <<Waiting(helper), Helper(Element(helper))>>
             ELSE Append(below, helper)
Leave ==
  /\ current_type' = "end_of_container"
  /\ container_stack' = Front(container_stack)

\* ObjectTraverser::next
LeaveEmptyObject == TopIs({"object"}) /\ AtEnd(Top) /\ Leave

FirstKey ==
  /\ TopIs({"object"}) /\ ~AtEnd(Top)
  /\ Top.begin
  /\ Show([Top EXCEPT !.begin = FALSE], "key")

MemberValue ==
  /\ TopIs({"object"}) /\ ~AtEnd(Top)
  /\ ~Top.begin /\ Top.is_key
  /\ Show([Top EXCEPT !.is_key = FALSE], TypeOf(Element(Top)))

NextMember(helper) == [helper EXCEPT !.at = @ + 1, !.is_key = TRUE]

NextKey ==
  /\ TopIs({"object"}) /\ ~AtEnd(Top)
  /\ ~Top.begin /\ ~Top.is_key
  /\ IF AtEnd(NextMember(Top)) THEN Leave ELSE Show(NextMember(Top), "key")

\* ArrayTraverser::next
StillAtBegin(helper) == \* mutant
  [helper EXCEPT !.at = IF helper.begin THEN @ ELSE @ + 1]
NextElement(helper) ==
  [helper EXCEPT !.begin = FALSE, !.at = IF helper.begin THEN @ ELSE @ + 1]

ArrayNext ==
  /\ TopIs({"array"})
  /\ LET next == NextElement(Top)
     IN  IF AtEnd(next) THEN Leave ELSE Show(next, TypeOf(Element(next)))

\* SingleValueTraverser::next
SingleValueNext == TopIs(ScalarKind) /\ Show(Top, "end_of_document")

DocumentEnded ==
  /\ current_type # "none"
  /\ container_stack = <<>>
  /\ current_type' = "end_of_document"
  /\ UNCHANGED container_stack

CallNext ==
  \/ LeaveEmptyObject \/ FirstKey \/ MemberValue \/ NextKey
  \/ ArrayNext \/ SingleValueNext \/ DocumentEnded

Spec == Init /\ [][(Construct \/ CallNext) /\ UNCHANGED document]_vars

-----------------------------------------------------------------------------
(***************************************************************************)
(* Properties.                                                             *)
(***************************************************************************)

\* What the getter for the current type returns: of the element the helper on
\* top stands on, its key if that is what is shown.
Getter ==
  CASE Top.value.kind = "object" /\ Top.is_key -> Top.value.keys[Top.at + 1]
    [] Top.value.kind = "object" /\ ~Top.is_key -> Element(Top).payload
    [] Top.value.kind = "array" -> Element(Top).payload
    [] Top.value.kind \notin Container -> Top.value.payload

Shown ==
  Value(current_type, IF current_type \in WithGetter THEN Getter ELSE NoPayload)

\* Each helper below another one stands on the very container the one above
\* walks: iterators are never advanced past a container that is open.
IteratorsNest ==
  \A n \in 1 .. Len(container_stack) - 1 :
    /\ ~AtEnd(container_stack[n])
    /\ Element(container_stack[n]) = container_stack[n + 1].value

\* compare_parsing reads a value by its type: a getter is called only while a
\* helper is there to answer, and stands on an element.
GettersAnswer ==
  current_type \in WithGetter =>
    /\ container_stack # <<>>
    /\ Top.value.kind \in Container => ~Top.begin /\ ~AtEnd(Top)
=============================================================================
