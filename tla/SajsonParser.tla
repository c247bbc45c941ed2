---------------------------- MODULE SajsonParser ----------------------------
(***************************************************************************)
(* sajson (dependencies/sajson/include/sajson.h) as SajsonParser           *)
(* (include/sajsonparser.h) calls it: a machine with a stack of the        *)
(* elements of the containers that are open and the AST of the values that *)
(* are complete (module SajsonAst). The bottom of a container's part of    *)
(* the stack has the type and the base of the container around it. Where a *)
(* value lies is counted from the end of the AST while it is parsed, and   *)
(* from the container that holds it once that is installed.                *)
(*                                                                         *)
(* Objects keep the order of their keys: sajsonparser.h defines            *)
(* SAJSON_UNSORTED_OBJECT_KEYS.                                            *)
(***************************************************************************)
EXTENDS Integers, Sequences, SequencesExt, SajsonAst

CONSTANT Text  \* the texts that may be parsed: sequences of tokens

VARIABLES
  text,
  label,                   \* of the machine, or how it ended
  p,                       \* position of the token parsed next
  stack,
  ast,
  current_base,            \* where the part of the current container starts
  current_structure_type

vars == <<text, label, p, stack, ast, current_base, current_structure_type>>

RootMarker == -1
NumberType ==
  [narrow |-> "integer", wide |-> "double",
   huge |-> "double", real |-> "double"]

Init ==
  /\ text \in Text
  /\ label = "begin"
  /\ p = 1
  /\ stack = <<>>
  /\ ast = <<>>
  /\ current_base = 0
  /\ current_structure_type = "none"

Here(token) == p <= Len(text) /\ text[p] = token

Reject ==
  /\ label' = "rejected"
  /\ UNCHANGED <<text, p, stack, ast, current_base, current_structure_type>>

\* A container opens; the bottom of its part of the stack is pushed.
Open(type, bottom) ==
  /\ Here(Opener[type])
  /\ current_base' = Len(stack)
  /\ stack' = Append(stack, bottom)
  /\ current_structure_type' = type
  /\ p' = p + 1
  /\ label' = "close_or_first"
  /\ UNCHANGED <<text, ast>>

Begin ==
  /\ label = "begin"
  /\ \/ \E type \in Container : Open(type, Word(type, RootMarker))
     \/ ~Here("begin_object") /\ ~Here("begin_array") /\ Reject

-----------------------------------------------------------------------------
(***************************************************************************)
(* Values: a string reserves two words of the AST, a number one.           *)
(***************************************************************************)

NextElement == label = "next_element"

\* An element of the current container, which lies where the AST ends.
Push(type) == Append(stack, Word(type, Len(ast')))

ScalarElement(type, words) ==
  /\ ast' = words \o ast
  /\ stack' = Push(type)
  /\ p' = p + 1
  /\ label' = "close_or_comma"
  /\ UNCHANGED <<text, current_base, current_structure_type>>

Held == Word("text", Payload(text[p], p))

AtomElement ==
  /\ NextElement
  /\ \E kind \in AtomKind : Here(kind) /\ ScalarElement(kind, <<>>)
NumberElement ==
  /\ NextElement
  /\ \E kind \in NumberKind :
       Here(kind) /\ ScalarElement(NumberType[kind], <<Held>>)
StringElement ==
  /\ NextElement
  /\ Here("string")
  /\ ScalarElement("string", <<Held, Held>>)

OpenElement ==
  /\ NextElement
  /\ \E type \in Container :
       Open(type, Word(current_structure_type, current_base))

NoElement ==
  /\ NextElement
  /\ \A token \in ScalarKind \cup Opening : ~Here(token)
  /\ Reject

-----------------------------------------------------------------------------
(***************************************************************************)
(* Containers.                                                             *)
(***************************************************************************)

AfterSeparator ==
  IF current_structure_type = "object" THEN "object_key" ELSE "next_element"

\* array_close_or_element and object_close_or_element
First ==
  /\ label = "close_or_first"
  /\ p <= Len(text)
  /\ ~Here(Closer[current_structure_type])
  /\ label' = AfterSeparator
  /\ UNCHANGED <<text, p, stack, ast, current_base, current_structure_type>>

\* structure_close_or_comma
Comma ==
  /\ label = "close_or_comma"
  /\ Here("comma")
  /\ p' = p + 1
  /\ label' = AfterSeparator
  /\ UNCHANGED <<text, stack, ast, current_base, current_structure_type>>

NoSeparator ==
  /\ \/ label = "close_or_first" /\ p > Len(text)
     \/ /\ label = "close_or_comma"
        /\ ~Here("comma") /\ ~Here(Closer[current_structure_type])
  /\ Reject

\* The two words of a key are on the stack, not in the AST.
ObjectKey ==
  /\ label = "object_key"
  /\ \/ /\ Here("string")
        /\ p < Len(text) /\ text[p + 1] = "colon"
        /\ stack' = stack \o <<Held, Held>>
        /\ p' = p + 2
        /\ label' = "next_element"
        /\ UNCHANGED <<text, ast, current_base, current_structure_type>>
     \/ /\ ~(Here("string") /\ p < Len(text) /\ text[p + 1] = "colon")
        /\ Reject

\* install_array and install_object: the part of the stack above its bottom
\* becomes a container in the AST.
IsElement(n) == current_structure_type = "array" \/ n % 3 = 0
NewBase(part) == Len(ast) + Len(part) + 1
Installed(part) ==
  LET count == IF current_structure_type = "array" THEN Len(part)
                                                   ELSE Len(part) \div 3
  IN  <<Word("length", count)>>
        \o [n \in DOMAIN part |->
              IF IsElement(n) THEN [part[n] EXCEPT !.value = NewBase(part) - @]
                              ELSE part[n]]
        \o ast

NotReset == stack \* mutant
StackAround == SubSeq(stack, 1, current_base)

\* pop: the container becomes an element of the one around it, or the root;
\* after the root nothing may follow.
Close ==
  /\ label \in {"close_or_first", "close_or_comma"}
  /\ Here(Closer[current_structure_type])
  /\ p' = p + 1
  /\ ast' = Installed(SubSeq(stack, current_base + 2, Len(stack)))
  /\ LET bottom == stack[current_base + 1]
     IN  \/ /\ bottom.value = RootMarker
            /\ label' = IF p' > Len(text) THEN "accepted" ELSE "rejected"
            /\ UNCHANGED <<stack, current_base, current_structure_type>>
         \/ /\ bottom.value # RootMarker
            /\ stack' = Append(StackAround, Word(current_structure_type, Len(ast')))
            /\ current_base' = bottom.value
            /\ current_structure_type' = bottom.type
            /\ label' = "close_or_comma"
  /\ UNCHANGED text

Parse ==
  \/ Begin
  \/ AtomElement \/ NumberElement \/ StringElement \/ OpenElement \/ NoElement
  \/ First \/ Comma \/ NoSeparator \/ ObjectKey \/ Close

Spec == Init /\ [][Parse]_vars

-----------------------------------------------------------------------------
(***************************************************************************)
(* Properties.                                                             *)
(***************************************************************************)

\* The parts of the stack, that of the innermost container first. The bottom
\* of a part tells of the part below it; below the root's there is none.
Part[n \in 0 .. Len(stack)] ==
  IF n = 0
    THEN [base |-> current_base, end |-> Len(stack),
          type |-> current_structure_type]
    ELSE LET inner == Part[n - 1]
             bottom == stack[inner.base + 1]
         IN  IF bottom.value = RootMarker THEN inner
             ELSE [base |-> bottom.value, end |-> inner.base,
                   type |-> bottom.type]

\* The root's part, and no other, starts where the stack does.
PartFits(part) ==
  /\ part.base \in 0 .. part.end - 1
  /\ part.base = 0 <=> stack[part.base + 1].value = RootMarker
  /\ \A n \in part.base + 2 .. part.end :
       IF part.type = "array" \/ (n - part.base - 1) % 3 = 0
         THEN stack[n].type # "text" /\ stack[n].value \in 0 .. Len(ast)
         ELSE stack[n].type = "text"

\* The stack has a part for each open container, down to the root's: the part
\* of an object holds two words of a key before each element (the assertion of
\* install_object), and every element lies inside the AST.
StackFits ==
  stack # <<>> => \A n \in 0 .. Len(stack) : PartFits(Part[n])
=============================================================================
