-------------------------- MODULE SajsonTraverser --------------------------
(***************************************************************************)
(* SajsonTraverser (include/sajsonparser.h): walks the AST of sajson with *)
(* a stack of helpers, one for each container that is open. Unlike those   *)
(* of rapidjson, a helper starts before its first element and finds out    *)
(* from the type it showed last what to show next.                         *)
(*                                                                         *)
(* sajson accepts no document that is a scalar ("sajson does not support   *)
(* it", tests/unittests.cpp), so that the helper for one is never built.   *)
(***************************************************************************)
EXTENDS Integers, Sequences, SequencesExt, SajsonAst

CONSTANT Ast  \* the pairs of an AST and a type that may be walked

VARIABLES
  ast,              \* the parsed document: its AST
  root_type,        \* and the type of its root
  current_type,     \* the type next() returned last, "none" before the first
  container_stack   \* the helpers, the innermost last

vars == <<ast, root_type, current_type, container_stack>>

\* sajsontype_to_fuzzytype: sajson stores an integer in an int and every other
\* number in a double.
TypeOf(value) ==
  CASE value.type = "integer" -> "integer"
    [] value.type = "double" -> "floating"
    [] OTHER -> CommonType[value.type]

\* A new ObjectTraverser or ArrayTraverser.
Helper(value) == [value |-> value, current_type |-> value.type, index |-> -1]

Root == [type |-> root_type, at |-> 1]

Init ==
  /\ <<ast, root_type>> \in Ast
  /\ current_type = "none"
  /\ container_stack = <<>>

Construct ==
  /\ current_type = "none"
  /\ current_type' = TypeOf(Root)
  /\ container_stack' = <<Helper(Root)>>

-----------------------------------------------------------------------------
Top == Last(container_stack)
TopIs(type) == container_stack # <<>> /\ Top.value.type = type

Element(helper) == ElementOf(ast, helper.value, helper.index)

\* next() ends: the helper on top moves to index and shows a type; it is gone
\* if it shows its end, and a container it shows gets a helper of its own.
MovedOnly(index, type) == [Top EXCEPT !.index = index] \* mutant
Moved(index, type) == [Top EXCEPT !.index = index, !.current_type = type]
Show(index, type) ==
  LET helper == Moved(index, type)
      below == Front(container_stack)
  IN  /\ current_type' = type
      /\ container_stack' =
           CASE type = "end_of_container" -> below
             [] type \in Container ->
                  below \o <<helper, Helper(Element(helper))>>
             [] OTHER -> Append(below, helper)

Ended(index) == index >= LengthOf(ast, Top.value)

\* ObjectTraverser::next: a key is followed by its value, at the same index.
EachTime == Top.index + 1 \* mutant
NextMember == IF Top.current_type = "key" THEN Top.index ELSE Top.index + 1

ObjectNext ==
  /\ TopIs("object")
  /\ \/ /\ Ended(NextMember)
        /\ Show(NextMember, "end_of_container")
     \/ /\ ~Ended(NextMember)
        /\ Top.current_type # "key"
        /\ Show(NextMember, "key")
     \/ /\ ~Ended(NextMember)
        /\ Top.current_type = "key"
        /\ Show(NextMember, TypeOf(Element([Top EXCEPT !.index = NextMember])))

\* ArrayTraverser::next
ArrayNext ==
  /\ TopIs("array")
  /\ LET index == Top.index + 1
     IN  \/ Ended(index) /\ Show(index, "end_of_container")
         \/ /\ ~Ended(index)
            /\ Show(index, TypeOf(Element([Top EXCEPT !.index = index])))

DocumentEnded ==
  /\ current_type # "none"
  /\ container_stack = <<>>
  /\ current_type' = "end_of_document"
  /\ UNCHANGED container_stack

CallNext == ObjectNext \/ ArrayNext \/ DocumentEnded

Spec == Init /\ [][(Construct \/ CallNext) /\ UNCHANGED <<ast, root_type>>]_vars

-----------------------------------------------------------------------------
(***************************************************************************)
(* Properties.                                                             *)
(***************************************************************************)

\* What the getter for the current type returns; a boolean is a type.
Getter ==
  LET element == Element(Top)
  IN  CASE Top.current_type = "key" -> KeyOf(ast, Top.value, Top.index)
        [] Top.current_type = "boolean" -> element.type
        [] OTHER -> ast[element.at].value

Shown ==
  Value(current_type, IF current_type \in WithGetter THEN Getter ELSE NoPayload)

\* Each helper below another one stands on the very container the one above
\* walks, and knows it as what it showed last: an object that is resumed
\* after its member was walked goes on with the next key.
IndicesNest ==
  \A n \in 1 .. Len(container_stack) - 1 :
    LET outer == container_stack[n]
        inner == container_stack[n + 1].value
    IN  /\ outer.index \in 0 .. LengthOf(ast, outer.value) - 1
        /\ Element(outer) = inner
        /\ outer.current_type = inner.type
=============================================================================
