---------------------------- MODULE SajsonProofs ----------------------------
(***************************************************************************)
(* Proofs about SajsonParser and SajsonTraverser, for texts and documents  *)
(* of any size and depth.                                                  *)
(*                                                                         *)
(* That an object is resumed where it was left is not inductive: it needs  *)
(* that a helper which showed a key stands on a member of its object       *)
(* (Stands), since the value of that key is shown at the index of the key, *)
(* by a call that does not compare it with the length. That the stack fits *)
(* needs what an element that is open has on the stack and that the tree   *)
(* written so far, from the end of its buffer backwards, is well formed:   *)
(* each reference leads to a part that lies behind it (ParserInv). That    *)
(* the traverser shows the text needs that each part written stands for a  *)
(* value of the text, place by place, and that the elements of an open     *)
(* container are those read so far (FollowInv); an AST whose root was      *)
(* reached has the whole text, and the helpers stand where the text is.    *)
(* Whether the text is taken is known from where the parser stops          *)
(* (VerdictInv).                                                           *)
(***************************************************************************)
EXTENDS SajsonTraverser, StackLemmas

SajsonType ==
  {"object", "array", "string", "integer", "double", "true", "false", "null"}

ShownTypes ==
  {"object", "array", "string", "integer", "floating", "boolean", "null", "key",
   "end_of_container"}

\* A set of values of an AST that has the elements of each of its containers,
\* and the root.
IsValuesOf(V, a, root) ==
  /\ root \in V
  /\ \A v \in V :
       /\ v.type \in SajsonType
       /\ v.type \in Container =>
            /\ LengthOf(a, v) \in Nat
            /\ \A n \in 0 .. LengthOf(a, v) - 1 : ElementOf(a, v, n) \in V

Walked(V) == {v \in V : v.type \in Container}
HelperOf(V) ==
  [value : Walked(V), current_type : ShownTypes, index : Int]

Stands(helper) ==
  /\ helper.index >= -1
  /\ helper.current_type = "key" =>
       helper.index \in 0 .. LengthOf(ast, helper.value) - 1

\* The helper of a container waits below that of the element it stands on.
WaitsFor(below, above) ==
  /\ below.index \in 0 .. LengthOf(ast, below.value) - 1
  /\ Element(below) = above.value
  /\ below.current_type = above.value.type

IInv(V) ==
  /\ IsValuesOf(V, ast, Root)
  /\ root_type \in Container
  /\ container_stack \in Seq(HelperOf(V))
  /\ \A n \in 1 .. Len(container_stack) : Stands(container_stack[n])
  /\ \A n \in 1 .. Len(container_stack) - 1 :
       WaitsFor(container_stack[n], container_stack[n + 1])

-----------------------------------------------------------------------------
(***************************************************************************)
(* Types and helpers.                                                      *)
(***************************************************************************)

\* Only a container is shown as one.
LEMMA ShownType ==
  ASSUME NEW v, v.type \in SajsonType
  PROVE  /\ TypeOf(v) \in ShownTypes \ {"key", "end_of_container"}
         /\ TypeOf(v) \in Container => TypeOf(v) = v.type
<1>1. v.type \in {"integer", "double"} =>
        TypeOf(v) \in {"integer", "floating"}
  BY DEF TypeOf
<1>2. v.type \notin {"integer", "double"} => TypeOf(v) = CommonType[v.type]
  BY DEF TypeOf
<1>3. v.type \notin {"integer", "double"} =>
        /\ CommonType[v.type] \in ShownTypes \ {"key", "end_of_container"}
        /\ CommonType[v.type] \in Container => CommonType[v.type] = v.type
  BY DEF CommonType, Container, SajsonType, ShownTypes
<1> QED
  BY <1>1, <1>2, <1>3 DEF Container, ShownTypes

LEMMA NewHelper ==
  ASSUME NEW V, NEW v \in Walked(V)
  PROVE  /\ Helper(v) \in HelperOf(V)
         /\ Helper(v).value = v
         /\ Stands(Helper(v))
BY DEF Helper, HelperOf, Walked, Stands, Container, ShownTypes

LEMMA MovedType ==
  ASSUME NEW V, Top \in HelperOf(V), NEW index \in Int, NEW type \in ShownTypes
  PROVE  /\ Moved(index, type) \in HelperOf(V)
         /\ Moved(index, type).value = Top.value
         /\ Moved(index, type).index = index
         /\ Moved(index, type).current_type = type
BY DEF HelperOf, Moved

LEMMA TopFacts ==
  ASSUME NEW V, IInv(V), container_stack # <<>>
  PROVE  /\ Top \in HelperOf(V)
         /\ Stands(Top)
         /\ Top.value \in Walked(V)
         /\ LengthOf(ast, Top.value) \in Nat
         /\ Top.index \in Int /\ Top.index >= -1
<1>1. Top = container_stack[Len(container_stack)] /\ Top \in HelperOf(V)
  BY FrontFacts DEF IInv, Top
<1>2. Len(container_stack) \in 1 .. Len(container_stack)
  BY FrontFacts DEF IInv
<1>3. Stands(Top)
  BY <1>1, <1>2 DEF IInv
<1> QED
  BY <1>1, <1>3 DEF IInv, HelperOf, IsValuesOf, Walked, Stands

-----------------------------------------------------------------------------
(***************************************************************************)
(* A call of next() that shows a type at an index.                         *)
(***************************************************************************)

LEMMA EndKeeps ==
  ASSUME NEW V, IInv(V), container_stack # <<>>, NEW index,
         Show(index, "end_of_container"), UNCHANGED <<ast, root_type>>
  PROVE  IInv(V)'
<1> DEFINE below == Front(container_stack)
<1>1. /\ below \in Seq(HelperOf(V))
      /\ Len(container_stack) \in Nat
      /\ Len(below) = Len(container_stack) - 1
      /\ \A n \in 1 .. Len(container_stack) - 1 : below[n] = container_stack[n]
  BY FrontFacts DEF IInv
<1>2. container_stack' = below
  BY DEF Show, Container
<1> HIDE DEF below
<1>3. \A n \in 1 .. Len(below) : Stands(below[n])
  BY <1>1 DEF IInv
<1>4. \A n \in 1 .. Len(below) - 1 : WaitsFor(below[n], below[n + 1])
  BY <1>1 DEF IInv
<1> QED
  BY <1>1, <1>2, <1>3, <1>4 DEF IInv, Stands, WaitsFor, Element, Root

\* The index is that of an element; what is shown is its key or itself.
LEMMA ShowKeeps ==
  ASSUME NEW V, IInv(V), container_stack # <<>>,
         NEW index \in 0 .. LengthOf(ast, Top.value) - 1,
         NEW type \in ShownTypes \ {"end_of_container"},
         type \in Container =>
           type = ElementOf(ast, Top.value, index).type,
         Show(index, type), UNCHANGED <<ast, root_type>>
  PROVE  IInv(V)'
<1> DEFINE size == Len(container_stack)
           helper == Moved(index, type)
<1>1. size \in Nat \ {0} /\ Top = container_stack[size]
  BY FrontFacts DEF IInv, Top
<1>2. /\ helper \in HelperOf(V)
      /\ helper.value = Top.value
      /\ helper.index = index
      /\ helper.current_type = type
  BY TopFacts, MovedType
<1>3. Stands(helper)
  BY <1>2 DEF Stands
<1> HIDE DEF helper
<1>4. \A n \in 1 .. size - 1 : Stands(container_stack[n])
  BY <1>1 DEF IInv
<1>5. \A n \in 1 .. size - 2 : WaitsFor(container_stack[n], container_stack[n + 1])
  BY <1>1 DEF IInv
<1>6. size - 1 >= 1 => WaitsFor(container_stack[size - 1], helper)
  <2>1. size - 1 >= 1 => WaitsFor(container_stack[size - 1], container_stack[size - 1 + 1])
    BY <1>1 DEF IInv
  <2> QED
    BY <1>1, <1>2, <2>1 DEF WaitsFor
<1> HIDE DEF size
<1>7. CASE type \notin Container
  <2>1. container_stack' = Append(Front(container_stack), helper)
    BY <1>7 DEF Show, helper
  <2>2. /\ container_stack' \in Seq(HelperOf(V))
        /\ Len(container_stack') = size
        /\ \A n \in 1 .. size - 1 : container_stack'[n] = container_stack[n]
        /\ container_stack'[size] = helper
    BY <1>2, <2>1, ReplaceTop DEF IInv, size
  <2>3. \A n \in 1 .. size : Stands(container_stack'[n])
    BY <1>1, <1>3, <1>4, <2>2
  <2>4. ASSUME NEW n \in 1 .. size - 1
        PROVE  WaitsFor(container_stack'[n], container_stack'[n + 1])
    <3>1. CASE n = size - 1
      BY <1>1, <1>6, <2>2, <3>1
    <3>2. CASE n \in 1 .. size - 2
      BY <1>1, <1>5, <2>2, <3>2
    <3> QED
      BY <1>1, <3>1, <3>2
  <2> QED
    BY <2>2, <2>3, <2>4 DEF IInv, Stands, WaitsFor, Element, Root
<1>8. CASE type \in Container
  <2> DEFINE element == Element(helper)
             inner == Helper(element)
  <2>1. container_stack' = Front(container_stack) \o <<helper, inner>>
    BY <1>8 DEF Show, helper, Container
  <2>2. element = ElementOf(ast, Top.value, index)
    BY <1>2 DEF Element
  <2>3. element \in Walked(V)
    BY <1>8, <2>2, TopFacts DEF IInv, IsValuesOf, Walked
  <2>4. inner \in HelperOf(V) /\ inner.value = element /\ Stands(inner)
    BY <2>3, NewHelper
  <2>5. WaitsFor(helper, inner)
    BY <1>2, <1>8, <2>2, <2>4 DEF WaitsFor
  <2> HIDE DEF element, inner
  <2>6. /\ container_stack' \in Seq(HelperOf(V))
        /\ Len(container_stack') = size + 1
        /\ \A n \in 1 .. size - 1 : container_stack'[n] = container_stack[n]
        /\ container_stack'[size] = helper
        /\ container_stack'[size + 1] = inner
    BY <1>2, <2>1, <2>4, ReplaceAndPush DEF IInv, size
  <2>7. \A n \in 1 .. size + 1 : Stands(container_stack'[n])
    <3>1. \A n \in 1 .. size + 1 : n \in 1 .. size - 1 \/ n = size \/ n = size + 1
      BY <1>1
    <3> QED
      BY <1>3, <1>4, <2>4, <2>6, <3>1
  <2>8. ASSUME NEW n \in 1 .. size
        PROVE  WaitsFor(container_stack'[n], container_stack'[n + 1])
    <3>1. CASE n = size
      BY <2>5, <2>6, <3>1
    <3>2. CASE n = size - 1
      BY <1>1, <1>6, <2>6, <3>2
    <3>3. CASE n \in 1 .. size - 2
      <4>1. n \in 1 .. size - 1 /\ n + 1 \in 1 .. size - 1
        BY <1>1, <3>3
      <4> QED
        BY <1>5, <2>6, <3>3, <4>1
    <3> QED
      BY <1>1, <3>1, <3>2, <3>3
  <2>9. Len(container_stack') - 1 = size
    BY <1>1, <2>6
  <2> QED
    BY <2>6, <2>7, <2>8, <2>9 DEF IInv, Stands, WaitsFor, Element, Root
<1> QED
  BY <1>7, <1>8

\* What is shown is the element at an index.
LEMMA ElementShown ==
  ASSUME NEW V, IInv(V), container_stack # <<>>,
         NEW index \in 0 .. LengthOf(ast, Top.value) - 1,
         Show(index, TypeOf(Element([Top EXCEPT !.index = index]))),
         UNCHANGED <<ast, root_type>>
  PROVE  IInv(V)'
<1> DEFINE element == ElementOf(ast, Top.value, index)
<1>1. Element([Top EXCEPT !.index = index]) = element
  BY TopFacts DEF Element, HelperOf
<1>2. element \in V /\ element.type \in SajsonType
  BY TopFacts DEF IInv, IsValuesOf, Walked
<1>3. /\ TypeOf(element) \in ShownTypes \ {"key", "end_of_container"}
      /\ TypeOf(element) \in Container => TypeOf(element) = element.type
  BY <1>2, ShownType
<1> QED
  BY <1>1, <1>3, ShowKeeps

-----------------------------------------------------------------------------
(***************************************************************************)
(* The steps.                                                              *)
(***************************************************************************)

LEMMA ObjectKeeps ==
  ASSUME NEW V, IInv(V), ObjectNext, UNCHANGED <<ast, root_type>>
  PROVE  IInv(V)'
<1> DEFINE index == NextMember
<1>1. container_stack # <<>>
  BY DEF ObjectNext, TopIs
<1>2. index \in Int /\ index >= 0
  BY <1>1, TopFacts DEF NextMember, Stands
<1>3. ~Ended(index) => index \in 0 .. LengthOf(ast, Top.value) - 1
  BY <1>1, <1>2, TopFacts DEF Ended
<1> HIDE DEF index
<1>4. CASE Ended(index) /\ Show(index, "end_of_container")
  BY <1>1, <1>4, EndKeeps
<1>5. CASE ~Ended(index) /\ Show(index, "key")
  BY <1>1, <1>3, <1>5, ShowKeeps DEF Container, ShownTypes
<1>6. CASE /\ ~Ended(index)
           /\ Show(index, TypeOf(Element([Top EXCEPT !.index = index])))
  BY <1>1, <1>3, <1>6, ElementShown
<1> QED
  BY <1>4, <1>5, <1>6 DEF ObjectNext, index

LEMMA ArrayKeeps ==
  ASSUME NEW V, IInv(V), ArrayNext, UNCHANGED <<ast, root_type>>
  PROVE  IInv(V)'
<1> DEFINE index == Top.index + 1
<1>1. container_stack # <<>>
  BY DEF ArrayNext, TopIs
<1>2. index \in Int /\ index >= 0
  BY <1>1, TopFacts
<1>3. ~Ended(index) => index \in 0 .. LengthOf(ast, Top.value) - 1
  BY <1>1, <1>2, TopFacts DEF Ended
<1> HIDE DEF index
<1>4. CASE Ended(index) /\ Show(index, "end_of_container")
  BY <1>1, <1>4, EndKeeps
<1>5. CASE /\ ~Ended(index)
           /\ Show(index, TypeOf(Element([Top EXCEPT !.index = index])))
  BY <1>1, <1>3, <1>5, ElementShown
<1> QED
  BY <1>4, <1>5 DEF ArrayNext, index

LEMMA ConstructKeeps ==
  ASSUME NEW V, IInv(V), Construct, UNCHANGED <<ast, root_type>>
  PROVE  IInv(V)'
<1> DEFINE helper == Helper(Root)
<1>1. Root \in Walked(V)
  BY DEF IInv, IsValuesOf, Walked, Root
<1>2. /\ helper \in HelperOf(V)
      /\ Stands(helper)
  BY <1>1, NewHelper
<1>3. container_stack' = <<helper>>
  BY DEF Construct
<1> HIDE DEF helper
<1>4. /\ container_stack' \in Seq(HelperOf(V))
      /\ Len(container_stack') = 1
      /\ container_stack'[1] = helper
  BY <1>2, <1>3
<1> QED
  BY <1>2, <1>4 DEF IInv, Stands, WaitsFor, Element, Root

-----------------------------------------------------------------------------
(***************************************************************************)
(* The property.                                                           *)
(***************************************************************************)

\* Values[<<a, type>>]: the values of the document whose AST is a and whose
\* root has that type. Each document that is walked has such a set.
HaveValues(Values) ==
  \A document \in Ast :
    /\ document[2] \in Container
    /\ IsValuesOf(Values[document], document[1],
                  [type |-> document[2], at |-> 1])

\* A helper that waits stands on the container above it and knows it as what
\* it showed last, so that next() of ObjectTraverser goes on with the next
\* key, in a document of any size and depth.
THEOREM IndicesNestAlways ==
  ASSUME NEW CONSTANT Values, HaveValues(Values)
  PROVE  Spec => []IndicesNest
<1> DEFINE Inv == IInv(Values[<<ast, root_type>>])
<1>1. Init => Inv
  <2> SUFFICES ASSUME Init PROVE Inv
    OBVIOUS
  <2> DEFINE document == <<ast, root_type>>
  <2>1. document \in Ast /\ document[1] = ast /\ document[2] = root_type
    BY DEF Init
  <2>2. /\ root_type \in Container
        /\ IsValuesOf(Values[document], ast, Root)
    BY <2>1 DEF HaveValues, Root
  <2> HIDE DEF document
  <2>3. IInv(Values[document])
    BY <2>2 DEF Init, IInv
  <2> QED
    BY <2>3 DEF document
<1>2. Inv /\ [(Construct \/ CallNext) /\ UNCHANGED <<ast, root_type>>]_vars
        => Inv'
  <2> SUFFICES ASSUME Inv,
                      [(Construct \/ CallNext) /\ UNCHANGED <<ast, root_type>>]_vars
               PROVE  Inv'
    OBVIOUS
  <2> DEFINE V == Values[<<ast, root_type>>]
  <2>1. IInv(V) /\ UNCHANGED <<ast, root_type>>
    BY DEF vars
  <2>2. V' = V
    BY <2>1
  <2> HIDE DEF V
  <2>3. CASE ObjectNext
    BY <2>1, <2>3, ObjectKeeps
  <2>4. CASE ArrayNext
    BY <2>1, <2>4, ArrayKeeps
  <2>5. CASE Construct
    BY <2>1, <2>5, ConstructKeeps
  <2>6. CASE UNCHANGED container_stack
    BY <2>1, <2>6 DEF IInv, Stands, WaitsFor, Element, Root
  <2> QED
    BY <2>3, <2>4, <2>5, <2>6 DEF CallNext, DocumentEnded, vars
<1>3. Inv => IndicesNest
  BY DEF IInv, WaitsFor, IndicesNest
<1> QED
  BY <1>1, <1>2, <1>3, PTL DEF Spec

-----------------------------------------------------------------------------
(***************************************************************************)
(* The parser. An element of a container that is open is a word of a type  *)
(* and a place counted from the end of the AST, so that it stays the same  *)
(* while the AST grows in front.                                           *)
(***************************************************************************)

CONSTANT Text
VARIABLES text, label, p, stack, current_base

Parser == INSTANCE SajsonParser WITH current_structure_type <- root_type

Elements == [type : SajsonType, value : Nat]
HeldWords == {Word("text", Payload(kind, n)) : kind \in ScalarKind, n \in Nat}
Words == [type : SajsonType \cup {"length"}, value : Int] \cup HeldWords

\* The word at a distance from the end of an AST.
Back(a, distance) == a[Len(a) - distance + 1]

\* How far behind a container the word of its n-th element lies, from 0.
PlaceOf(type, n) == IF type = "object" THEN 3 * n + 3 ELSE n + 1

\* The container u of an AST has all its elements in U.
ContainerFits(U, a, u) ==
  /\ u.value \in 1 .. Len(a)
  /\ Back(a, u.value).value \in Nat
  /\ \A n \in 0 .. Back(a, u.value).value - 1 :
       LET distance == u.value - PlaceOf(u.type, n)
           word == Back(a, distance)
       IN  /\ distance \in 1 .. Len(a)
           /\ word \in [type : SajsonType, value : Int]
           /\ Word(word.type, u.value - word.value) \in U

\* U has the elements of each of its containers.
ElementsFit(U, a) ==
  /\ a \in Seq(Words)
  /\ U \subseteq Elements
  /\ \A u \in U :
       /\ u.value \in 0 .. Len(a)
       /\ u.type \in Container => ContainerFits(U, a, u)

\* What is written in front is not seen from behind.
LEMMA FrontUnseen ==
  ASSUME NEW a \in Seq(Words), NEW front \in Seq(Words),
         NEW b, b = front \o a
  PROVE  /\ b \in Seq(Words)
         /\ Len(b) = Len(front) + Len(a)
         /\ Len(a) \in Nat /\ Len(front) \in Nat
         /\ \A n \in 1 .. Len(front) : b[n] = front[n]
         /\ \A d \in 1 .. Len(a) : Back(b, d) = Back(a, d)
<1>1. /\ b \in Seq(Words) /\ Len(b) = Len(front) + Len(a)
      /\ \A n \in 1 .. Len(front) + Len(a) :
           b[n] = IF n <= Len(front) THEN front[n] ELSE a[n - Len(front)]
  BY ConcatProperties
<1>2. PICK size \in Nat, more \in Nat : size = Len(a) /\ more = Len(front)
  BY LenProperties
<1>3. ASSUME NEW d \in 1 .. size
      PROVE  Back(b, d) = Back(a, d)
  <2>1. more + size - d + 1 \in 1 .. more + size
    BY <1>3, <1>2
  <2>2. PICK n \in 1 .. more + size : n = more + size - d + 1
    BY <2>1
  <2>3. ~(n <= more) /\ n - more = size - d + 1
    BY <2>2, <1>2, <1>3
  <2>4. b[n] = a[n - more]
    BY <1>1, <1>2, <2>2, <2>3
  <2> QED
    BY <1>1, <1>2, <2>2, <2>3, <2>4 DEF Back
<1>4. ASSUME NEW n \in 1 .. more
      PROVE  b[n] = front[n]
  <2>1. n \in 1 .. more + size /\ n <= more
    BY <1>2
  <2> QED
    BY <1>1, <1>2, <2>1
<1> QED
  BY <1>1, <1>2, <1>3, <1>4

LEMMA AstGrows ==
  ASSUME NEW U, NEW a, ElementsFit(U, a), NEW front \in Seq(Words),
         NEW b, b = front \o a
  PROVE  ElementsFit(U, b)
<1>1. a \in Seq(Words)
  BY DEF ElementsFit
<1>2. /\ b \in Seq(Words) /\ Len(b) = Len(front) + Len(a)
      /\ Len(a) \in Nat /\ Len(front) \in Nat
      /\ \A d \in 1 .. Len(a) : Back(b, d) = Back(a, d)
  BY <1>1, FrontUnseen
<1>3. ASSUME NEW u \in U, u.type \in Container
      PROVE  ContainerFits(U, b, u)
  <2>1. ContainerFits(U, a, u)
    BY <1>3 DEF ElementsFit
  <2>2. u.value \in 1 .. Len(b) /\ Back(b, u.value) = Back(a, u.value)
    BY <1>2, <2>1 DEF ContainerFits
  <2> HIDE DEF Back
  <2>3. ASSUME NEW n \in 0 .. Back(a, u.value).value - 1,
               NEW distance, distance = u.value - PlaceOf(u.type, n),
               NEW word, word = Back(b, distance)
        PROVE  /\ distance \in 1 .. Len(b)
               /\ word \in [type : SajsonType, value : Int]
               /\ Word(word.type, u.value - word.value) \in U
    <3>1. /\ distance \in 1 .. Len(a)
          /\ Back(a, distance) \in [type : SajsonType, value : Int]
          /\ Word(Back(a, distance).type, u.value - Back(a, distance).value) \in U
      BY <2>1, <2>3 DEF ContainerFits
    <3> QED
      BY <1>2, <2>3, <3>1
  <2> QED
    BY <2>1, <2>2, <2>3 DEF ContainerFits
<1>4. ASSUME NEW u \in U
      PROVE  u.value \in 0 .. Len(b)
  BY <1>2 DEF ElementsFit
<1> QED
  BY <1>2, <1>3, <1>4 DEF ElementsFit

\* A value is put in front.
LEMMA ElementAdded ==
  ASSUME NEW U, NEW a, ElementsFit(U, a), NEW u \in Elements,
         u.value \in 0 .. Len(a), NEW W, W = U \cup {u},
         u.type \in Container => ContainerFits(W, a, u)
  PROVE  ElementsFit(W, a)
<1>1. ASSUME NEW w \in U, ContainerFits(U, a, w)
      PROVE  ContainerFits(W, a, w)
  BY <1>1 DEF ContainerFits
<1> QED
  BY <1>1 DEF ElementsFit

\* install_array, install_object
Complete(type, part) == type = "object" => Len(part) % 3 = 0
CountOf(type, part) == IF type = "array" THEN Len(part) ELSE Len(part) \div 3
AnElement(type, n) == type = "array" \/ n % 3 = 0

LEMMA PlaceOfElement ==
  ASSUME NEW type \in Container, NEW part \in Seq(Words), Complete(type, part)
  PROVE  /\ CountOf(type, part) \in Nat
         /\ \A n \in 0 .. CountOf(type, part) - 1 :
              /\ PlaceOf(type, n) \in 1 .. Len(part)
              /\ AnElement(type, PlaceOf(type, n))
<1>1. PICK size \in Nat : size = Len(part)
  BY LenProperties
<1>2. CASE type = "array"
  BY <1>1, <1>2 DEF CountOf, PlaceOf, AnElement
<1>3. CASE type = "object"
  <2>1. PICK count \in Nat : count = size \div 3 /\ 3 * count = size
    BY <1>1, <1>3 DEF Complete
  <2>2. ASSUME NEW n \in 0 .. count - 1
        PROVE  3 * n + 3 \in 1 .. size /\ (3 * n + 3) % 3 = 0
    BY <2>1, <2>2
  <2> QED
    BY <1>1, <1>3, <2>1, <2>2 DEF CountOf, PlaceOf, AnElement
<1> QED
  BY <1>2, <1>3 DEF Container

\* A length and words in front of an AST.
Joined(b, length, middle, a) ==
  /\ \E front \in Seq(Words) : b = front \o a
  /\ Len(a) \in Nat /\ Len(middle) \in Nat
  /\ Len(b) = Len(middle) + Len(a) + 1
  /\ b[1] = length
  /\ \A n \in 1 .. Len(middle) : b[n + 1] = middle[n]

\* The words of the elements of a part tell how far behind b they lie.
Relative(type, part, b, middle) ==
  \A n \in 1 .. Len(part) :
    AnElement(type, n) =>
      middle[n] = [part[n] EXCEPT !.value = Len(b) - part[n].value]

LEMMA InFront ==
  ASSUME NEW a \in Seq(Words), NEW middle \in Seq(Words), NEW length \in Words,
         NEW b, b = <<length>> \o middle \o a
  PROVE  Joined(b, length, middle, a)
<1>1. PICK one : one = <<length>>
  OBVIOUS
<1>2. one \in Seq(Words) /\ Len(one) = 1 /\ one[1] = length
  BY <1>1
<1>3. PICK front : front = one \o middle
  OBVIOUS
<1>4. /\ front \in Seq(Words) /\ Len(front) = 1 + Len(middle)
      /\ \A n \in 1 .. 1 + Len(middle) :
           front[n] = IF n <= 1 THEN one[n] ELSE middle[n - 1]
  <2>1. /\ front \in Seq(Words) /\ Len(front) = Len(one) + Len(middle)
        /\ \A n \in 1 .. Len(one) + Len(middle) :
             front[n] = IF n <= Len(one) THEN one[n] ELSE middle[n - Len(one)]
    BY <1>2, <1>3, ConcatProperties
  <2> QED
    BY <1>2, <2>1
<1>5. b = front \o a
  BY <1>1, <1>3
<1>6. /\ Len(b) = Len(front) + Len(a) /\ Len(a) \in Nat
      /\ \A n \in 1 .. Len(front) : b[n] = front[n]
  BY <1>4, <1>5, FrontUnseen
<1>7. PICK size \in Nat : size = Len(middle)
  BY LenProperties
<1>8. b[1] = length
  BY <1>2, <1>4, <1>6, <1>7
<1>9. ASSUME NEW n \in 1 .. size
      PROVE  b[n + 1] = middle[n]
  <2>1. n + 1 \in 1 .. 1 + size /\ ~(n + 1 <= 1) /\ n + 1 - 1 = n
    BY <1>7
  <2> QED
    BY <1>4, <1>6, <1>7, <2>1
<1>10. \E x \in Seq(Words) : b = x \o a
  BY <1>4, <1>5
<1>11. Len(b) = Len(middle) + Len(a) + 1
  BY <1>4, <1>6, <1>7
<1> QED
  BY <1>6, <1>7, <1>8, <1>9, <1>10, <1>11 DEF Joined

LEMMA Installed ==
  ASSUME NEW U, NEW a, ElementsFit(U, a), NEW type \in Container,
         NEW part \in Seq(Words), Complete(type, part),
         \A n \in 1 .. Len(part) : AnElement(type, n) => part[n] \in U,
         NEW middle \in Seq(Words), Len(middle) = Len(part),
         NEW length, length = Word("length", CountOf(type, part)),
         NEW b, Joined(b, length, middle, a), Relative(type, part, b, middle),
         NEW W, W = U \cup {Word(type, Len(b))}
  PROVE  ElementsFit(W, b) /\ Len(b) \in Nat \ {0}
<1>1. /\ length \in Words /\ length.value = CountOf(type, part)
      /\ CountOf(type, part) \in Nat
  BY PlaceOfElement DEF Word, Words
<1>2. ElementsFit(U, b)
  BY AstGrows DEF Joined
<1>3. PICK size \in Nat, rest \in Nat : size = Len(part) /\ rest = Len(a)
  BY DEF Joined
<1>4. b[1] = length
  BY DEF Joined
<1>5. \A n \in 1 .. size : b[n + 1] = middle[n]
  BY <1>3 DEF Joined
<1>6. PICK total \in Nat : total = Len(b) /\ total = size + rest + 1
  BY <1>3 DEF Joined
<1>7. Back(b, total) = length
  BY <1>4, <1>6 DEF Back
<1>8. \A n \in 1 .. size : Back(b, total - n) = middle[n]
  <2> TAKE n \in 1 .. size
  <2>1. total - (total - n) + 1 = n + 1
    BY <1>6
  <2> QED
    BY <1>5, <1>6, <2>1 DEF Back
<1>9. PICK u : u = Word(type, total)
  OBVIOUS
<1>10. u \in Elements /\ u.type = type /\ u.value = total
  BY <1>9 DEF Elements, Word, SajsonType, Container
<1> HIDE DEF Back
<1>11. ASSUME NEW n \in 0 .. CountOf(type, part) - 1,
              NEW distance, distance = total - PlaceOf(type, n),
              NEW word, word = Back(b, distance)
       PROVE  /\ distance \in 1 .. total
              /\ word \in [type : SajsonType, value : Int]
              /\ Word(word.type, total - word.value) \in W
  <2>1. PICK k \in 1 .. size : k = PlaceOf(type, n) /\ AnElement(type, k)
    BY <1>3, PlaceOfElement
  <2>2. distance \in 1 .. total
    BY <1>3, <1>6, <1>11, <2>1
  <2>3. word = middle[k]
    BY <1>8, <1>11, <2>1
  <2>4. PICK element \in Elements : element = part[k] /\ element \in U
    BY <1>3, <2>1 DEF ElementsFit
  <2>5. word = [element EXCEPT !.value = total - element.value]
    BY <1>3, <1>6, <2>1, <2>3, <2>4 DEF Relative
  <2>6. /\ element.type \in SajsonType /\ element.value \in Nat
        /\ element = [type |-> element.type, value |-> element.value]
        /\ word = [type |-> element.type, value |-> total - element.value]
    BY <2>5 DEF Elements
  <2>7. word \in [type : SajsonType, value : Int]
    BY <1>6, <2>6
  <2>8. Word(word.type, total - word.value) = element
    <3>1. total - (total - element.value) = element.value
      BY <1>6, <2>6
    <3> QED
      BY <2>6, <3>1 DEF Word
  <2> QED
    BY <2>2, <2>4, <2>7, <2>8
<1>12. ContainerFits(W, b, u)
  <2>1. u.value \in 1 .. Len(b)
    BY <1>6, <1>10
  <2> QED
    BY <1>1, <1>6, <1>7, <1>10, <1>11, <2>1 DEF ContainerFits
<1>13. W = U \cup {u} /\ u.value \in 0 .. Len(b)
  BY <1>6, <1>9, <1>10
<1>14. ElementsFit(W, b)
  BY <1>2, <1>10, <1>12, <1>13, ElementAdded
<1> QED
  BY <1>6, <1>14

\* The values of the AST, where the traverser sees them.
LEMMA ElementsAreValues ==
  ASSUME NEW U, NEW a, ElementsFit(U, a), NEW type \in SajsonType,
         Word(type, Len(a)) \in U
  PROVE  IsValuesOf({[type |-> u.type, at |-> Len(a) - u.value + 1] : u \in U},
                    a, [type |-> type, at |-> 1])
<1> DEFINE Seen(u) == [type |-> u.type, at |-> Len(a) - u.value + 1]
           V == {Seen(u) : u \in U}
<1>1. PICK size \in Nat : size = Len(a)
  BY LenProperties DEF ElementsFit
<1>2. [type |-> type, at |-> 1] \in V
  <2>1. Seen(Word(type, Len(a))) = [type |-> type, at |-> 1]
    BY <1>1 DEF Word
  <2> QED
    BY <2>1
<1>3. ASSUME NEW v \in V
      PROVE  /\ v.type \in SajsonType
             /\ v.type \in Container =>
                  /\ LengthOf(a, v) \in Nat
                  /\ \A n \in 0 .. LengthOf(a, v) - 1 : ElementOf(a, v, n) \in V
  <2>1. PICK u \in U : v = Seen(u)
    BY <1>3
  <2>2. u.type \in SajsonType /\ v.type = u.type /\ u.value \in Nat
          /\ v.at = size - u.value + 1
    BY <1>1, <2>1 DEF ElementsFit, Elements
  <2>3. ASSUME u.type \in Container
        PROVE  /\ LengthOf(a, v) \in Nat
               /\ \A n \in 0 .. LengthOf(a, v) - 1 : ElementOf(a, v, n) \in V
    <3>1. ContainerFits(U, a, u)
      BY <2>3 DEF ElementsFit
    <3>2. LengthOf(a, v) = Back(a, u.value).value /\ LengthOf(a, v) \in Nat
      BY <1>1, <2>2, <3>1 DEF LengthOf, Back, ContainerFits
    <3>3. ASSUME NEW n \in 0 .. LengthOf(a, v) - 1
          PROVE  ElementOf(a, v, n) \in V
      <4>1. PICK place \in Int : place = PlaceOf(u.type, n)
        BY <3>2, <3>3 DEF PlaceOf
      <4>2. PICK word : word = Back(a, u.value - place)
        OBVIOUS
      <4>3. /\ word \in [type : SajsonType, value : Int]
            /\ Word(word.type, u.value - word.value) \in U
        BY <3>1, <3>2, <3>3, <4>1, <4>2 DEF ContainerFits
      <4>4. size - (u.value - place) + 1 = v.at + place
        BY <2>2, <4>1
      <4>5. word = a[v.at + place]
        BY <1>1, <4>2, <4>4 DEF Back
      <4>6. place = IF v.type = "object" THEN 3 * n + 3 ELSE n + 1
        BY <2>2, <4>1 DEF PlaceOf
      <4>7. ElementOf(a, v, n) = [type |-> word.type, at |-> v.at + word.value]
        BY <4>5, <4>6 DEF ElementOf
      <4>8. size - (u.value - word.value) + 1 = v.at + word.value
        BY <2>2, <4>3
      <4>9. Seen(Word(word.type, u.value - word.value)) =
              [type |-> word.type, at |-> v.at + word.value]
        BY <1>1, <4>8 DEF Word
      <4> QED
        BY <4>3, <4>7, <4>9
    <3> QED
      BY <3>2, <3>3
  <2> QED
    BY <2>2, <2>3
<1> QED
  BY <1>2, <1>3 DEF IsValuesOf

-----------------------------------------------------------------------------
(***************************************************************************)
(* The parts of the stack, that of the root first.                         *)
(***************************************************************************)

Parts == [base : Nat, type : Container]

\* The elements of a part that ends there are in U, with its keys between.
PartFilled(U, s, part, end) ==
  \A n \in part.base + 2 .. end :
    IF AnElement(part.type, n - part.base - 1) THEN s[n] \in U
                                               ELSE s[n].type = "text"

\* An object has a key that waits for its value, or is complete.
Waits(part, end) == part.type = "object" => (end - part.base - 1) % 3 = 2
Full(part, end) == part.type = "object" => (end - part.base - 1) % 3 = 0

\* The parts below the last one, and the bottoms of all.
Nest(U, s, parts) ==
  /\ parts \in Seq(Parts)
  /\ Len(parts) >= 1
  /\ parts[1].base = 0
  /\ \A m, n \in 1 .. Len(parts) : m < n => parts[m].base < parts[n].base
  /\ parts[Len(parts)].base < Len(s)
  /\ s[1].value = -1
  /\ \A n \in 2 .. Len(parts) :
       s[parts[n].base + 1] = Word(parts[n - 1].type, parts[n - 1].base)
  /\ \A n \in 1 .. Len(parts) - 1 :
       /\ PartFilled(U, s, parts[n], parts[n + 1].base)
       /\ Waits(parts[n], parts[n + 1].base)

LEMMA PartFacts ==
  ASSUME NEW U, NEW s \in Seq(Words), NEW parts, Nest(U, s, parts)
  PROVE  /\ Len(parts) \in Nat /\ Len(s) \in Nat
         /\ \A n \in 1 .. Len(parts) :
              /\ parts[n] \in Parts
              /\ parts[n].base \in Nat /\ parts[n].type \in Container
              /\ parts[n].base <= parts[Len(parts)].base
<1>1. \A n \in 1 .. Len(parts) : parts[n] \in Parts
  BY ElementOfSeq DEF Nest
<1>2. Len(parts) \in Nat /\ Len(s) \in Nat
  BY LenProperties DEF Nest
<1>3. ASSUME NEW n \in 1 .. Len(parts)
      PROVE  parts[n].base <= parts[Len(parts)].base
  <2>1. CASE n = Len(parts)
    BY <1>1, <1>2, <2>1 DEF Parts
  <2>2. CASE n # Len(parts)
    <3>1. n < Len(parts) /\ Len(parts) \in 1 .. Len(parts)
      BY <1>2, <2>2
    <3>2. parts[n].base < parts[Len(parts)].base
      BY <3>1 DEF Nest
    <3>3. parts[n].base \in Nat /\ parts[Len(parts)].base \in Nat
      BY <1>1, <3>1 DEF Parts
    <3> QED
      BY <3>2, <3>3
  <2> QED
    BY <2>1, <2>2
<1> QED
  BY <1>1, <1>2, <1>3 DEF Parts

\* The stack may change above the bottom of the last part.
LEMMA NestKept ==
  ASSUME NEW U, NEW s \in Seq(Words), NEW parts, Nest(U, s, parts),
         NEW last, last = parts[Len(parts)].base,
         NEW W, U \subseteq W,
         NEW t, last < Len(t), \A n \in 1 .. last + 1 : t[n] = s[n]
  PROVE  Nest(W, t, parts)
<1>1. /\ Len(parts) \in Nat /\ Len(parts) >= 1 /\ last \in Nat
      /\ \A n \in 1 .. Len(parts) : parts[n].base \in Nat /\ parts[n].base <= last
  <2>1. Len(parts) \in Nat /\ Len(parts) >= 1
    BY PartFacts DEF Nest
  <2>2. Len(parts) \in 1 .. Len(parts)
    BY <2>1
  <2> QED
    BY <2>1, <2>2, PartFacts
<1>2. t[1].value = -1
  <2>1. 1 \in 1 .. last + 1
    BY <1>1
  <2> QED
    BY <2>1 DEF Nest
<1>3. ASSUME NEW n \in 2 .. Len(parts)
      PROVE  t[parts[n].base + 1] = Word(parts[n - 1].type, parts[n - 1].base)
  <2>1. parts[n].base + 1 \in 1 .. last + 1
    BY <1>1
  <2> QED
    BY <2>1 DEF Nest
<1>4. ASSUME NEW n \in 1 .. Len(parts) - 1
      PROVE  PartFilled(W, t, parts[n], parts[n + 1].base)
  <2>1. n \in 1 .. Len(parts) /\ n + 1 \in 1 .. Len(parts)
    BY <1>1
  <2>2. \A k \in parts[n].base + 2 .. parts[n + 1].base : t[k] = s[k]
    BY <1>1, <2>1, SMTT(20)
  <2> QED
    BY <2>2 DEF Nest, PartFilled
<1> QED
  BY <1>2, <1>3, <1>4 DEF Nest

\* An element on top of the stack, or the two words of a key.
Pushed(s, element, t) ==
  /\ Len(s) \in Nat /\ Len(t) = Len(s) + 1
  /\ \A n \in 1 .. Len(s) : t[n] = s[n]
  /\ t[Len(s) + 1] = element

KeyPushed(s, t) ==
  /\ Len(s) \in Nat /\ Len(t) = Len(s) + 2
  /\ \A n \in 1 .. Len(s) : t[n] = s[n]
  /\ t[Len(s) + 1].type = "text" /\ t[Len(s) + 2].type = "text"

LEMMA OneMore ==
  ASSUME NEW S, NEW s \in Seq(S), NEW x \in S, NEW t, t = Append(s, x)
  PROVE  t \in Seq(S) /\ Pushed(s, x, t)
<1>1. Len(s) \in Nat
  BY LenProperties
<1>2. /\ t \in Seq(S) /\ Len(t) = Len(s) + 1
      /\ \A n \in 1 .. Len(s) : t[n] = s[n]
      /\ t[Len(s) + 1] = x
  BY AppendProperties
<1> QED
  BY <1>1, <1>2 DEF Pushed

\* The last part gets another element.
LEMMA ElementStacked ==
  ASSUME NEW U, NEW s, NEW part \in Parts,
         PartFilled(U, s, part, Len(s)), Waits(part, Len(s)),
         NEW W, U \subseteq W, NEW t, NEW element \in W, Pushed(s, element, t)
  PROVE  PartFilled(W, t, part, Len(t)) /\ Full(part, Len(t))
<1>1. PICK size \in Nat, base \in Nat :
        /\ size = Len(s) /\ base = part.base /\ Len(t) = size + 1
        /\ t[size + 1] \in W
  BY DEF Pushed, Parts
<1>2. \A n \in 1 .. size : t[n] = s[n]
  BY <1>1 DEF Pushed
<1>3. PICK more \in Int : more = size - base - 1
  BY <1>1
<1>4. part.type = "object" => (more + 1) % 3 = 0
  <2>1. part.type = "object" => more % 3 = 2
    BY <1>1, <1>3 DEF Waits
  <2>2. more % 3 = 2 => (more + 1) % 3 = 0
    OBVIOUS
  <2> QED
    BY <2>1, <2>2
<1>5. ASSUME NEW n \in base + 2 .. size + 1
      PROVE  IF AnElement(part.type, n - base - 1) THEN t[n] \in W
                                                   ELSE t[n].type = "text"
  <2>1. CASE n = size + 1
    <3>1. n - base - 1 = more + 1
      BY <1>3, <2>1
    <3>2. AnElement(part.type, more + 1)
      BY <1>4 DEF AnElement, Parts, Container
    <3> QED
      BY <1>1, <2>1, <3>1, <3>2
  <2>2. CASE n \in 1 .. size
    <3>1. n \in base + 2 .. size /\ t[n] = s[n]
      BY <1>2, <2>2
    <3> QED
      BY <1>1, <3>1 DEF PartFilled
  <2> QED
    BY <1>1, <2>1, <2>2
<1>6. Full(part, Len(t))
  <2>1. size + 1 - base - 1 = more + 1
    BY <1>1, <1>3
  <2>2. part.base = base
    BY <1>1
  <2>3. Full(part, size + 1)
    BY <1>4, <2>1, <2>2 DEF Full
  <2> QED
    BY <1>1, <2>3
<1>7. PartFilled(W, t, part, Len(t))
  BY <1>1, <1>5 DEF PartFilled
<1> QED
  BY <1>6, <1>7

\* The last part gets a key.
LEMMA TwoMore ==
  ASSUME NEW s \in Seq(Words), NEW w \in Words, w.type = "text",
         NEW t, t = s \o <<w, w>>
  PROVE  t \in Seq(Words) /\ KeyPushed(s, t)
<1>1. PICK key : key = <<w, w>>
  OBVIOUS
<1>2. key \in Seq(Words) /\ Len(key) = 2 /\ key[1] = w /\ key[2] = w
  BY <1>1
<1>3. PICK size \in Nat : size = Len(s)
  BY LenProperties
<1>4. /\ t \in Seq(Words) /\ Len(t) = size + 2
      /\ \A n \in 1 .. size + 2 : t[n] = IF n <= size THEN s[n] ELSE key[n - size]
  <2>1. /\ t \in Seq(Words) /\ Len(t) = Len(s) + Len(key)
        /\ \A n \in 1 .. Len(s) + Len(key) :
             t[n] = IF n <= Len(s) THEN s[n] ELSE key[n - Len(s)]
    BY <1>1, <1>2, ConcatProperties
  <2> QED
    BY <1>2, <1>3, <2>1
<1>5. t[size + 1] = w /\ t[size + 2] = w /\ \A n \in 1 .. size : t[n] = s[n]
  BY <1>2, <1>3, <1>4
<1> QED
  BY <1>3, <1>4, <1>5 DEF KeyPushed

LEMMA KeyStacked ==
  ASSUME NEW U, NEW s, NEW part \in Parts, part.type = "object",
         PartFilled(U, s, part, Len(s)), Full(part, Len(s)),
         NEW t, KeyPushed(s, t)
  PROVE  PartFilled(U, t, part, Len(t)) /\ Waits(part, Len(t))
<1>1. PICK size \in Nat, base \in Nat :
        /\ size = Len(s) /\ base = part.base /\ Len(t) = size + 2
        /\ t[size + 1].type = "text" /\ t[size + 2].type = "text"
  BY DEF KeyPushed, Parts
<1>2. \A n \in 1 .. size : t[n] = s[n]
  BY <1>1 DEF KeyPushed
<1>3. PICK more \in Int : more = size - base - 1
  BY <1>1
<1>4. (more + 1) % 3 = 1 /\ (more + 2) % 3 = 2
  <2>1. more % 3 = 0
    BY <1>1, <1>3 DEF Full
  <2> QED
    BY <2>1
<1>5. ASSUME NEW n \in base + 2 .. size + 2
      PROVE  IF AnElement(part.type, n - base - 1) THEN t[n] \in U
                                                   ELSE t[n].type = "text"
  <2>1. CASE n \in 1 .. size
    BY <1>1, <1>2, <2>1 DEF PartFilled
  <2>2. CASE n = size + 1
    <3>1. n - base - 1 = more + 1
      BY <1>3, <2>2
    <3> QED
      BY <1>1, <1>4, <2>2, <3>1 DEF AnElement
  <2>3. CASE n = size + 2
    <3>1. n - base - 1 = more + 2
      BY <1>3, <2>3
    <3> QED
      BY <1>1, <1>4, <2>3, <3>1 DEF AnElement
  <2> QED
    BY <1>1, <2>1, <2>2, <2>3, SMTT(20)
<1>6. Waits(part, Len(t))
  <2>1. size + 2 - base - 1 = more + 2
    BY <1>1, <1>3
  <2>2. part.base = base
    BY <1>1
  <2>3. Waits(part, size + 2)
    BY <1>4, <2>1, <2>2 DEF Waits
  <2> QED
    BY <1>1, <2>3
<1>7. PartFilled(U, t, part, Len(t))
  BY <1>1, <1>5 DEF PartFilled
<1> QED
  BY <1>6, <1>7

\* A container opens in the last part.
LEMMA NestOpens ==
  ASSUME NEW U, NEW s \in Seq(Words), NEW parts, Nest(U, s, parts),
         NEW outer, outer = parts[Len(parts)],
         PartFilled(U, s, outer, Len(s)), Waits(outer, Len(s)),
         NEW new \in Parts, new.base = Len(s),
         NEW t, NEW bottom, bottom = Word(outer.type, outer.base),
         Pushed(s, bottom, t),
         NEW more \in Seq(Parts), Pushed(parts, new, more)
  PROVE  Nest(U, t, more)
<1>1. PICK depth \in Nat : depth = Len(parts)
  BY PartFacts
<1>2. PICK size \in Nat :
         /\ size = Len(s) /\ Len(t) = size + 1
         /\ \A n \in 1 .. size : t[n] = s[n]
         /\ t[size + 1] = bottom
  BY DEF Pushed
<1>3. /\ PartFilled(U, s, parts[depth], size) /\ Waits(parts[depth], size)
       /\ new.base = size
       /\ t[size + 1] = Word(parts[depth].type, parts[depth].base)
  BY <1>1, <1>2
<1>4. parts \in Seq(Parts) /\ depth >= 1 /\ depth \in 1 .. depth
  BY <1>1 DEF Nest
<1>5. PICK last \in Nat : last = parts[depth].base /\ last < size
  BY <1>1, <1>4, <1>2, PartFacts DEF Nest
<1>6. /\ more \in Seq(Parts) /\ Len(more) = depth + 1
      /\ \A n \in 1 .. depth : more[n] = parts[n]
      /\ more[depth + 1] = new
  BY <1>1, <1>4 DEF Pushed
<1>7. Nest(U, t, parts)
  <2>1. last < Len(t)
    BY <1>5, <1>2
  <2>2. \A n \in 1 .. last + 1 : t[n] = s[n]
    BY <1>5, <1>2
  <2> QED
    BY <1>1, <1>5, <2>1, <2>2, NestKept
<1>8. \A n \in 1 .. depth : more[n].base \in Nat /\ more[n].base < size
  <2> TAKE n \in 1 .. depth
  <2>1. parts[n].base \in Nat /\ parts[n].base <= last
    BY <1>1, <1>5, PartFacts
  <2> QED
    BY <1>5, <1>6, <2>1
<1>9. ASSUME NEW m \in 1 .. depth + 1, NEW n \in 1 .. depth + 1, m < n
      PROVE  more[m].base < more[n].base
  <2>1. m \in 1 .. depth
    BY <1>9
  <2>2. CASE n = depth + 1
    BY <1>6, <1>8, <1>3, <2>1, <2>2
  <2>3. CASE n \in 1 .. depth
    <3>1. parts[m].base < parts[n].base
      BY <1>1, <1>9, <2>1, <2>3 DEF Nest
    <3> QED
      BY <1>6, <2>1, <2>3, <3>1
  <2>4. n = depth + 1 \/ n \in 1 .. depth
    OBVIOUS
  <2> QED
    BY <2>2, <2>3, <2>4
<1>10. ASSUME NEW n \in 2 .. depth + 1
      PROVE  t[more[n].base + 1] = Word(more[n - 1].type, more[n - 1].base)
  <2>1. n - 1 \in 1 .. depth /\ more[n - 1] = parts[n - 1]
    BY <1>6
  <2>2. CASE n = depth + 1
    <3>1. n - 1 = depth /\ more[n].base = size
      BY <1>6, <1>3, <2>2
    <3> QED
      BY <1>3, <2>1, <3>1
  <2>3. CASE n \in 2 .. depth
    <3>1. t[parts[n].base + 1] = Word(parts[n - 1].type, parts[n - 1].base)
      BY <1>1, <1>7, <2>3 DEF Nest
    <3>2. more[n] = parts[n]
      BY <1>6, <2>3
    <3> QED
      BY <2>1, <3>1, <3>2
  <2>4. n = depth + 1 \/ n \in 2 .. depth
    OBVIOUS
  <2> QED
    BY <2>2, <2>3, <2>4
<1>11. ASSUME NEW n \in 1 .. depth
      PROVE  /\ PartFilled(U, t, more[n], more[n + 1].base)
             /\ Waits(more[n], more[n + 1].base)
  <2>1. CASE n = depth
    <3>1. more[n] = parts[depth] /\ more[n + 1].base = size
      BY <1>6, <1>3, <2>1
    <3>2. PartFilled(U, t, parts[depth], size)
      <4>1. \A k \in parts[depth].base + 2 .. size : t[k] = s[k]
        <5>1. parts[depth].base \in Nat
          BY <1>5
        <5> QED
          BY <1>2, <5>1
      <4> QED
        BY <1>3, <4>1 DEF PartFilled
    <3> QED
      BY <1>3, <3>1, <3>2
  <2>2. CASE n \in 1 .. depth - 1
    <3>1. more[n] = parts[n] /\ more[n + 1] = parts[n + 1]
      <4>1. n + 1 \in 1 .. depth
        BY <1>1, <2>2
      <4> QED
        BY <1>6, <4>1
    <3> QED
      BY <1>1, <1>7, <2>2, <3>1 DEF Nest
  <2>3. n = depth \/ n \in 1 .. depth - 1
    OBVIOUS
  <2> QED
    BY <2>1, <2>2, <2>3
<1>12. more[1].base = 0 /\ t[1].value = -1
  BY <1>1, <1>4, <1>6, <1>7 DEF Nest
<1> QED
  <2>1. Len(more) >= 1 /\ more[Len(more)].base < Len(t) /\ Len(more) - 1 = depth
    BY <1>4, <1>6, <1>2, <1>3
  <2> QED
    BY <1>6, <1>9, <1>10, <1>11, <1>12, <2>1 DEF Nest

\* The last part is gone; the one below it waits for the container.
Uncovers(U, t, fewer, outer) ==
  /\ t \in Seq(Words) /\ Nest(U, t, fewer)
  /\ Len(fewer) \in Nat /\ fewer[Len(fewer)] = outer
  /\ PartFilled(U, t, outer, Len(t)) /\ Waits(outer, Len(t))

LEMMA NestCloses ==
  ASSUME NEW U, NEW s \in Seq(Words), NEW parts, Nest(U, s, parts),
         NEW depth \in Nat, depth = Len(parts), depth >= 2,
         NEW last, last = parts[depth].base,
         NEW outer, outer = parts[depth - 1],
         NEW t, t = SubSeq(s, 1, last),
         NEW fewer, fewer = Front(parts)
  PROVE  Uncovers(U, t, fewer, outer)
<1>1. PICK size \in Nat : size = Len(s)
  BY PartFacts
<1>2. parts \in Seq(Parts) /\ depth \in 1 .. depth /\ depth - 1 \in 1 .. depth
  BY DEF Nest
<1>3. last \in Nat /\ last < size
  BY <1>1, <1>2, PartFacts DEF Nest
<1>4. t \in Seq(Words) /\ Len(t) = last /\ \A n \in 1 .. last : t[n] = s[n]
  <2>1. \A n \in 1 .. last : s[n] \in Words
    BY <1>1, <1>3, ElementOfSeq
  <2>2. 1 \in Int /\ last \in Int
    BY <1>3
  <2>3. /\ t \in Seq(Words)
        /\ Len(t) = IF 1 <= last THEN last - 1 + 1 ELSE 0
        /\ \A n \in 1 .. last - 1 + 1 : t[n] = s[1 + n - 1]
    BY <2>1, <2>2, SubSeqProperties
  <2> QED
    BY <1>3, <2>3
<1>5. parts # <<>>
  BY EmptySeq
<1>6. /\ fewer \in Seq(Parts) /\ Len(fewer) = depth - 1
      /\ \A n \in 1 .. depth - 1 : fewer[n] = parts[n]
  BY <1>2, <1>5, FrontFacts
<1>7. PICK below \in Nat : below = parts[depth - 1].base /\ below < last
  <2>1. parts[depth - 1].base < parts[depth].base
    BY <1>2 DEF Nest
  <2> QED
    BY <1>2, <2>1, PartFacts
<1>8. ASSUME NEW n \in 1 .. depth - 1
      PROVE  parts[n].base \in Nat /\ parts[n].base <= below /\ fewer[n] = parts[n]
  <2>1. n \in 1 .. depth /\ parts[n].base \in Nat
    BY <1>2, <1>8, PartFacts
  <2>2. CASE n = depth - 1
    BY <1>6, <1>7, <2>1, <2>2
  <2>3. CASE n # depth - 1
    <3>1. n < depth - 1
      BY <1>8, <2>3
    <3>2. parts[n].base < parts[depth - 1].base
      BY <1>2, <2>1, <3>1 DEF Nest
    <3> QED
      BY <1>6, <1>7, <2>1, <3>2
  <2> QED
    BY <2>2, <2>3
<1>9. ASSUME NEW n \in 1 .. depth - 1
      PROVE  /\ PartFilled(U, t, parts[n], parts[n + 1].base)
             /\ Waits(parts[n], parts[n + 1].base)
  <2>1. n + 1 \in 1 .. depth /\ parts[n + 1].base \in Nat
          /\ parts[n + 1].base <= last
    <3>1. n + 1 \in 1 .. depth
      OBVIOUS
    <3> QED
      BY <3>1, PartFacts
  <2>2. \A k \in parts[n].base + 2 .. parts[n + 1].base : t[k] = s[k]
    <3>1. PICK low, high : /\ low = parts[n].base /\ high = parts[n + 1].base
                           /\ low \in Nat /\ high \in Nat /\ high <= last
      BY <1>8, <2>1
    <3>2. low + 2 .. high \subseteq 1 .. last
      BY <1>3, <3>1, SMTT(20)
    <3> QED
      BY <1>4, <3>1, <3>2
  <2>3. /\ PartFilled(U, s, parts[n], parts[n + 1].base)
        /\ Waits(parts[n], parts[n + 1].base)
    BY DEF Nest
  <2> QED
    BY <2>2, <2>3 DEF PartFilled
<1>10. fewer[1].base = 0 /\ t[1].value = -1
  <2>1. 1 \in 1 .. depth - 1 /\ 1 \in 1 .. last
    BY <1>3, <1>7
  <2> QED
    BY <1>4, <1>6, <2>1 DEF Nest
<1>11. ASSUME NEW n \in 2 .. depth - 1
       PROVE  t[fewer[n].base + 1] = Word(fewer[n - 1].type, fewer[n - 1].base)
  <2>1. n \in 1 .. depth - 1 /\ n - 1 \in 1 .. depth - 1 /\ n \in 2 .. depth
    OBVIOUS
  <2>2. parts[n].base + 1 \in 1 .. last
    <3>1. PICK base \in Nat : base = parts[n].base /\ base <= below
      BY <1>8, <2>1
    <3>2. base < last
      BY <1>3, <1>7, <3>1, SMTT(20)
    <3>3. base + 1 \in 1 .. last
      BY <1>3, <3>1, <3>2, SMTT(20)
    <3> QED
      BY <3>1, <3>3
  <2>3. s[parts[n].base + 1] = Word(parts[n - 1].type, parts[n - 1].base)
    BY <2>1 DEF Nest
  <2> QED
    BY <1>4, <1>8, <2>1, <2>2, <2>3
<1>12. ASSUME NEW n \in 1 .. depth - 2
       PROVE  /\ PartFilled(U, t, fewer[n], fewer[n + 1].base)
              /\ Waits(fewer[n], fewer[n + 1].base)
  <2>1. n \in 1 .. depth - 1 /\ n + 1 \in 1 .. depth - 1
    OBVIOUS
  <2> QED
    BY <1>6, <1>9, <2>1
<1>13. ASSUME NEW m \in 1 .. depth - 1, NEW n \in 1 .. depth - 1, m < n
       PROVE  fewer[m].base < fewer[n].base
  <2>1. m \in 1 .. depth /\ n \in 1 .. depth
    OBVIOUS
  <2>2. parts[m].base < parts[n].base
    BY <1>13, <2>1 DEF Nest
  <2> QED
    BY <1>6, <2>2
<1>14. Nest(U, t, fewer)
  <2>1. Len(fewer) >= 1 /\ Len(fewer) - 1 = depth - 2
    BY <1>6
  <2>2. fewer[Len(fewer)].base < Len(t)
    BY <1>2, <1>4, <1>6, <1>7, <1>8
  <2> QED
    BY <1>6, <1>10, <1>11, <1>12, <1>13, <2>1, <2>2 DEF Nest
<1>15. PartFilled(U, t, parts[depth - 1], last) /\ Waits(parts[depth - 1], last)
  <2>1. depth - 1 \in 1 .. depth - 1 /\ depth - 1 + 1 = depth
    OBVIOUS
  <2> QED
    BY <1>9, <2>1
<1>16. fewer[depth - 1] = parts[depth - 1]
  <2>1. depth - 1 \in 1 .. depth - 1
    OBVIOUS
  <2> QED
    BY <1>6, <2>1
<1> QED
  BY <1>3, <1>4, <1>6, <1>14, <1>15, <1>16 DEF Uncovers

-----------------------------------------------------------------------------
(***************************************************************************)
(* The invariant of the parser, and its steps.                             *)
(***************************************************************************)

Current == [base |-> current_base, type |-> root_type]

LabelFits(U) ==
  /\ label \in {"close_or_first", "close_or_comma", "object_key",
                "next_element", "accepted", "rejected"}
  /\ label = "object_key" => root_type = "object"
  /\ label = "next_element" => Waits(Current, Len(stack))
  /\ label \in {"close_or_first", "close_or_comma", "object_key"} =>
       Full(Current, Len(stack))
  /\ label = "accepted" => Word(root_type, Len(ast)) \in U

ParserFits(U, parts) ==
  /\ ElementsFit(U, ast)
  /\ stack \in Seq(Words)
  /\ Nest(U, stack, parts)
  /\ parts[Len(parts)] = Current
  /\ PartFilled(U, stack, Current, Len(stack))
  /\ LabelFits(U)

ParserInv ==
  /\ p \in Nat
  /\ \/ stack = <<>> /\ ast = <<>> /\ label \in {"begin", "rejected"}
     \/ \E U, parts : ParserFits(U, parts)

LEMMA SameAst ==
  /\ \A type, value : Parser!Word(type, value) = Word(type, value)
  /\ \A kind, n : Parser!Payload(kind, n) = Payload(kind, n)
  /\ Parser!Container = Container /\ Parser!ScalarKind = ScalarKind
BY DEF Parser!Word, Word, Parser!Payload, Payload, Parser!NoPayload, NoPayload,
       Parser!Container, Container, Parser!ScalarKind, ScalarKind,
       Parser!AtomKind, AtomKind, Parser!NumberKind, NumberKind

LEMMA CurrentFacts ==
  ASSUME NEW U, NEW parts, ParserFits(U, parts)
  PROVE  /\ Current \in Parts /\ Current.base = current_base
         /\ Current.type = root_type
         /\ root_type \in Container /\ current_base \in Nat
         /\ Len(stack) \in Nat /\ current_base < Len(stack)
         /\ Len(parts) \in Nat /\ Len(parts) >= 1
         /\ parts[Len(parts)] = Current
<1>1. Len(parts) \in Nat /\ Len(parts) >= 1 /\ Len(stack) \in Nat
  BY PartFacts DEF ParserFits, Nest
<1>2. Len(parts) \in 1 .. Len(parts)
  BY <1>1
<1>3. parts[Len(parts)] \in Parts /\ parts[Len(parts)].base < Len(stack)
  BY <1>2, PartFacts DEF ParserFits, Nest
<1>4. Current \in Parts /\ Current.base < Len(stack)
  BY <1>3 DEF ParserFits
<1>5. Current.base = current_base /\ Current.type = root_type
  BY DEF Current
<1> QED
  BY <1>1, <1>4, <1>5 DEF Parts, ParserFits

LEMMA HeldType ==
  ASSUME p \in Nat, NEW kind \in ScalarKind, Parser!Here(kind)
  PROVE  Parser!Held \in Words /\ Parser!Held.type = "text"
<1>1. Parser!Held = Word("text", Payload(kind, p))
  BY SameAst DEF Parser!Held, Parser!Here
<1> QED
  BY <1>1 DEF Words, HeldWords, Word

\* First, Comma and what is refused.
LEMMA LabelKeeps ==
  ASSUME NEW U, NEW parts, ParserFits(U, parts),
         UNCHANGED <<stack, ast, current_base, root_type>>, LabelFits(U)'
  PROVE  ParserFits(U, parts)'
BY DEF ParserFits, Current

LEMMA RejectKeeps ==
  ASSUME ParserInv, Parser!Reject
  PROVE  ParserInv'
<1>1. UNCHANGED <<p, stack, ast, current_base, root_type>> /\ label' = "rejected"
  BY DEF Parser!Reject
<1>2. CASE stack = <<>> /\ ast = <<>>
  BY <1>1, <1>2 DEF ParserInv
<1>3. ASSUME NEW U, NEW parts, ParserFits(U, parts)
      PROVE  ParserFits(U, parts)'
  <2>1. LabelFits(U)'
    BY <1>1 DEF LabelFits
  <2> QED
    BY <1>1, <1>3, <2>1, LabelKeeps
<1> QED
  BY <1>1, <1>2, <1>3 DEF ParserInv

LEMMA FirstKeeps ==
  ASSUME NEW U, NEW parts, ParserFits(U, parts), Parser!First
  PROVE  ParserFits(U, parts)'
<1>1. /\ UNCHANGED <<stack, ast, current_base, root_type>>
      /\ label = "close_or_first"
      /\ label' = IF root_type = "object" THEN "object_key" ELSE "next_element"
  BY DEF Parser!First, Parser!AfterSeparator
<1>2. LabelFits(U)'
  BY <1>1 DEF ParserFits, LabelFits, Current, Waits, Full
<1> QED
  BY <1>1, <1>2, LabelKeeps

LEMMA CommaKeeps ==
  ASSUME NEW U, NEW parts, ParserFits(U, parts), Parser!Comma
  PROVE  ParserFits(U, parts)'
<1>1. /\ UNCHANGED <<stack, ast, current_base, root_type>>
      /\ label = "close_or_comma"
      /\ label' = IF root_type = "object" THEN "object_key" ELSE "next_element"
  BY DEF Parser!Comma, Parser!AfterSeparator
<1>2. LabelFits(U)'
  BY <1>1 DEF ParserFits, LabelFits, Current, Waits, Full
<1> QED
  BY <1>1, <1>2, LabelKeeps

LEMMA ScalarKeeps ==
  ASSUME NEW U, NEW parts, ParserFits(U, parts), label = "next_element",
         NEW type \in SajsonType \ Container, NEW words \in Seq(Words),
         Parser!ScalarElement(type, words)
  PROVE  \E W : ParserFits(W, parts)'
<1>1. PICK a : a = words \o ast
  OBVIOUS
<1>2. PICK w : w = Word(type, Len(a))
  OBVIOUS
<1>3. /\ ast' = a /\ stack' = Append(stack, w) /\ label' = "close_or_comma"
      /\ UNCHANGED <<current_base, root_type>>
  BY <1>1, <1>2, SameAst DEF Parser!ScalarElement, Parser!Push
<1>4. ElementsFit(U, a)
  BY <1>1, AstGrows DEF ParserFits
<1>5. Len(a) \in Nat
  BY <1>4, LenProperties DEF ElementsFit
<1>6. w \in Elements /\ w \in Words /\ w.value \in 0 .. Len(a) /\ w.type \notin Container
  BY <1>2, <1>5 DEF Elements, Words, Word
<1>7. PICK W : W = U \cup {w}
  OBVIOUS
<1>8. ElementsFit(W, a)
  BY <1>4, <1>6, <1>7, ElementAdded
<1>9. PICK size \in Nat, part \in Parts :
         /\ size = Len(stack) /\ part = Current
         /\ part.base = current_base
         /\ current_base \in Nat /\ current_base < size
  BY CurrentFacts
<1>10. PICK t \in Seq(Words) : stack' = t /\ Pushed(stack, w, t)
  <2>1. stack \in Seq(Words)
    BY DEF ParserFits
  <2> QED
    BY <1>3, <1>6, <2>1, OneMore
<1>11. PartFilled(W, t, part, Len(t)) /\ Full(part, Len(t))
  <2>1. /\ PartFilled(U, stack, part, Len(stack)) /\ Waits(part, Len(stack))
        /\ U \subseteq W /\ w \in W
    BY <1>7, <1>9 DEF ParserFits, LabelFits
  <2> QED
    BY <1>10, <2>1, ElementStacked
<1>12. Nest(W, t, parts)
  <2>1. current_base < Len(t) /\ \A n \in 1 .. current_base + 1 : t[n] = stack[n]
    BY <1>9, <1>10 DEF Pushed
  <2>2. parts[Len(parts)].base = current_base
    BY CurrentFacts
  <2> QED
    BY <1>7, <2>1, <2>2, NestKept DEF ParserFits
<1>13. Current' = part
  BY <1>3, <1>9 DEF Current
<1>14. LabelFits(W)'
  BY <1>3, <1>10, <1>13, <1>11 DEF LabelFits
<1>15. ParserFits(W, parts)'
  BY <1>3, <1>8, <1>9, <1>10, <1>12, <1>13, <1>14, <1>11 DEF ParserFits
<1> QED
  BY <1>15

LEMMA KeyKeeps ==
  ASSUME p \in Nat, NEW U, NEW parts, ParserFits(U, parts),
         Parser!ObjectKey, label' # "rejected"
  PROVE  ParserFits(U, parts)'
<1>1. PICK w : w = Parser!Held
  OBVIOUS
<1>2. /\ label = "object_key" /\ Parser!Here("string")
      /\ stack' = stack \o <<w, w>> /\ label' = "next_element"
      /\ UNCHANGED <<ast, current_base, root_type>>
  BY <1>1 DEF Parser!ObjectKey, Parser!Reject
<1>3. w \in Words /\ w.type = "text"
  BY <1>1, <1>2, HeldType DEF ScalarKind
<1>4. PICK size \in Nat, part \in Parts :
        /\ size = Len(stack) /\ part = Current
        /\ part.base = current_base /\ part.type = "object"
        /\ current_base \in Nat /\ current_base < size
  BY <1>2, CurrentFacts DEF ParserFits, LabelFits
<1>5. PartFilled(U, stack, part, Len(stack)) /\ Full(part, Len(stack))
  BY <1>2, <1>4 DEF ParserFits, LabelFits
<1>6. PICK t \in Seq(Words) : stack' = t /\ KeyPushed(stack, t)
  <2>1. stack \in Seq(Words)
    BY DEF ParserFits
  <2> QED
    BY <1>2, <1>3, <2>1, TwoMore
<1>7. PartFilled(U, t, part, Len(t)) /\ Waits(part, Len(t))
  BY <1>4, <1>5, <1>6, KeyStacked
<1>8. Nest(U, t, parts)
  <2>1. current_base < Len(t) /\ \A n \in 1 .. current_base + 1 : t[n] = stack[n]
    BY <1>4, <1>6 DEF KeyPushed
  <2>2. parts[Len(parts)].base = current_base
    BY CurrentFacts
  <2> QED
    BY <2>1, <2>2, NestKept DEF ParserFits
<1>9. Current' = part
  BY <1>2, <1>4 DEF Current
<1>10. LabelFits(U)'
  BY <1>2, <1>6, <1>7, <1>9 DEF LabelFits
<1> QED
  BY <1>2, <1>4, <1>6, <1>7, <1>8, <1>9, <1>10 DEF ParserFits

\* A container opens in another one.
LEMMA OpenKeeps ==
  ASSUME NEW U, NEW parts, ParserFits(U, parts), Parser!OpenElement
  PROVE  \E new : ParserFits(U, new)'
<1>1. PICK type \in Container :
        Parser!Open(type, Parser!Word(root_type, current_base))
  BY SameAst DEF Parser!OpenElement
<1>2. PICK w : w = Word(root_type, current_base)
  OBVIOUS
<1>3. PICK size \in Nat : size = Len(stack) /\ current_base < size
  BY CurrentFacts
<1>4. /\ current_base' = size /\ stack' = Append(stack, w) /\ root_type' = type
      /\ label' = "close_or_first" /\ ast' = ast /\ label = "next_element"
  BY <1>1, <1>2, <1>3, SameAst
     DEF Parser!Open, Parser!OpenElement, Parser!NextElement
<1>5. w \in Words
  BY <1>2, CurrentFacts DEF Word, Words, SajsonType, Container
<1>6. PICK t \in Seq(Words) : stack' = t /\ Pushed(stack, w, t)
  <2>1. stack \in Seq(Words)
    BY DEF ParserFits
  <2> QED
    BY <1>4, <1>5, <2>1, OneMore
<1>7. PICK new \in Parts : new = [base |-> size, type |-> type]
  BY DEF Parts
<1>8. new.base = size /\ new.type = type /\ Current' = new
  BY <1>4, <1>7 DEF Current
<1>9. PICK more \in Seq(Parts) : Pushed(parts, new, more)
  BY OneMore DEF ParserFits, Nest
<1>10. Nest(U, t, more) /\ more[Len(more)] = new
  <2>1. PICK outer : outer = parts[Len(parts)]
    OBVIOUS
  <2>2. outer = Current /\ outer.type = root_type /\ outer.base = current_base
    BY <2>1, CurrentFacts
  <2>3. /\ stack \in Seq(Words) /\ Nest(U, stack, parts)
        /\ PartFilled(U, stack, outer, Len(stack)) /\ Waits(outer, Len(stack))
    BY <1>4, <2>2 DEF ParserFits, LabelFits
  <2>4. w = Word(outer.type, outer.base)
    BY <1>2, <2>2
  <2>5. new.base = Len(stack)
    BY <1>3, <1>8
  <2>6. Nest(U, t, more)
    BY <1>6, <1>9, <2>1, <2>3, <2>4, <2>5, NestOpens
  <2> QED
    BY <1>9, <2>6, CurrentFacts DEF Pushed
<1>11. PartFilled(U, t, new, Len(t)) /\ Full(new, Len(t))
  <2>1. size + 1 - size - 1 = 0 /\ 0 % 3 = 0
    OBVIOUS
  <2>2. Full(new, size + 1)
    BY <1>8, <2>1 DEF Full
  <2>3. PartFilled(U, t, new, size + 1)
    BY <1>8 DEF PartFilled
  <2> QED
    BY <1>3, <1>6, <2>2, <2>3 DEF Pushed
<1>12. LabelFits(U)'
  BY <1>4, <1>6, <1>8, <1>11 DEF LabelFits
<1>13. ParserFits(U, more)'
  BY <1>4, <1>6, <1>8, <1>10, <1>11, <1>12 DEF ParserFits
<1> QED
  BY <1>13

LEMMA BeginKeeps ==
  ASSUME ParserInv, Parser!Begin, label' # "rejected"
  PROVE  \E new : ParserFits({}, new)'
<1>1. PICK type \in Container :
        label = "begin" /\ Parser!Open(type, Parser!Word(type, Parser!RootMarker))
  BY SameAst DEF Parser!Begin, Parser!Reject
<1>2. stack = <<>> /\ ast = <<>>
  BY <1>1 DEF ParserInv, ParserFits, LabelFits
<1>3. PICK w : w = Word(type, -1)
  OBVIOUS
<1>4. w \in Words /\ w.value = -1
  BY <1>3 DEF Word, Words, SajsonType, Container
<1>5. /\ current_base' = 0 /\ stack' = <<w>> /\ root_type' = type
      /\ label' = "close_or_first" /\ ast' = <<>>
  BY <1>1, <1>2, <1>3, SameAst DEF Parser!Open, Parser!RootMarker
<1>6. PICK t : t = <<w>>
  OBVIOUS
<1>7. t \in Seq(Words) /\ Len(t) = 1 /\ t[1].value = -1
  BY <1>4, <1>6
<1>8. PICK new \in Parts : new = [base |-> 0, type |-> type]
  BY DEF Parts
<1>9. new.base = 0 /\ Current' = new
  BY <1>5, <1>8 DEF Current
<1>10. PICK parts : parts = <<new>>
  OBVIOUS
<1>11. parts \in Seq(Parts) /\ Len(parts) = 1 /\ parts[1] = new
  BY <1>10
<1>12. Nest({}, t, parts)
  <2>1. 2 .. Len(parts) = {} /\ 1 .. Len(parts) - 1 = {} /\ 1 .. Len(parts) = {1}
    BY <1>11
  <2> QED
    BY <1>7, <1>9, <1>11, <2>1 DEF Nest
<1>13. PartFilled({}, t, new, 1) /\ Full(new, 1)
  <2>1. 1 - 0 - 1 = 0 /\ 0 % 3 = 0
    OBVIOUS
  <2>2. Full(new, 1)
    BY <1>9, <2>1 DEF Full
  <2> QED
    BY <1>9, <2>2 DEF PartFilled
<1>14. ElementsFit({}, <<>>)
  BY EmptySeq DEF ElementsFit
<1>15. LabelFits({})'
  BY <1>5, <1>6, <1>7, <1>9, <1>13 DEF LabelFits
<1>16. ParserFits({}, parts)'
  BY <1>5, <1>6, <1>7, <1>9, <1>11, <1>12, <1>13, <1>14, <1>15 DEF ParserFits
<1> QED
  BY <1>16

\* The part of the stack that becomes a container.
Sliced(s, base, part) ==
  /\ part \in Seq(Words)
  /\ Len(part) = Len(s) - base - 1
  /\ \A n \in 1 .. Len(part) : part[n] = s[base + 1 + n]

LEMMA Slice ==
  ASSUME NEW s \in Seq(Words), NEW base \in Nat, base < Len(s)
  PROVE  Sliced(s, base, SubSeq(s, base + 2, Len(s)))
<1> DEFINE part == SubSeq(s, base + 2, Len(s))
<1>1. PICK size \in Nat, first \in Int, count \in Nat :
        size = Len(s) /\ first = base + 2 /\ count = size - base - 1
  BY LenProperties
<1>2. /\ part \in Seq(Words)
      /\ Len(part) = IF first <= size THEN size - first + 1 ELSE 0
      /\ \A n \in 1 .. size - first + 1 : part[n] = s[first + n - 1]
  <2>1. \A n \in first .. size : s[n] \in Words
    BY <1>1, ElementOfSeq
  <2>2. part = SubSeq(s, first, size)
    BY <1>1
  <2> HIDE DEF part
  <2>3. /\ SubSeq(s, first, size) \in Seq(Words)
        /\ Len(SubSeq(s, first, size)) =
             IF first <= size THEN size - first + 1 ELSE 0
        /\ \A n \in 1 .. size - first + 1 :
             SubSeq(s, first, size)[n] = s[first + n - 1]
    BY <2>1, SubSeqProperties
  <2> QED
    BY <2>2, <2>3, Zenon
<1> HIDE DEF part
<1>3. Len(part) = count
  BY <1>1, <1>2
<1>4. ASSUME NEW n \in 1 .. count
      PROVE  part[n] = s[base + 1 + n]
  <2>1. n \in 1 .. size - first + 1 /\ first + n - 1 = base + 1 + n
    BY <1>1
  <2> QED
    BY <1>2, <2>1
<1>5. Sliced(s, base, part)
  BY <1>1, <1>2, <1>3, <1>4 DEF Sliced
<1> QED
  BY <1>5 DEF part

LEMMA TopPart ==
  ASSUME NEW U, NEW s \in Seq(Words), NEW current \in Parts,
         current.base < Len(s),
         PartFilled(U, s, current, Len(s)), Full(current, Len(s)),
         NEW part, Sliced(s, current.base, part)
  PROVE  /\ part \in Seq(Words) /\ Complete(current.type, part)
         /\ \A n \in 1 .. Len(part) :
              AnElement(current.type, n) => part[n] \in U
<1>1. PICK size \in Nat, base \in Nat :
        size = Len(s) /\ base = current.base /\ base < size
  BY LenProperties DEF Parts
<1>2. PICK count \in Nat : count = size - base - 1
  BY <1>1
<1>3. /\ part \in Seq(Words) /\ Len(part) = count
      /\ \A n \in 1 .. count : part[n] = s[base + 1 + n]
  BY <1>1, <1>2 DEF Sliced
<1>4. Complete(current.type, part)
  <2>1. current.type = "object" => count % 3 = 0
    BY <1>1, <1>2 DEF Full
  <2> QED
    BY <1>3, <2>1 DEF Complete
<1>5. ASSUME NEW n \in 1 .. count, AnElement(current.type, n)
      PROVE  part[n] \in U
  <2>1. PICK k \in base + 2 .. size : k = base + 1 + n
    <3>1. base + 1 + n \in base + 2 .. size
      BY <1>1, <1>2
    <3> QED
      BY <3>1
  <2>2. k - base - 1 = n
    BY <1>1, <2>1, SMTT(20)
  <2>3. s[k] \in U
    <3>1. AnElement(current.type, k - current.base - 1)
      BY <1>1, <1>5, <2>2
    <3>2. k \in current.base + 2 .. Len(s)
      BY <1>1, <2>1
    <3> QED
      BY <3>1, <3>2 DEF PartFilled
  <2> QED
    BY <1>3, <2>1, <2>3
<1> QED
  BY <1>3, <1>4, <1>5

\* What install_array and install_object write in front of the AST.
Written(part, b, middle) ==
  /\ middle \in Seq(Words) /\ Len(middle) = Len(part)
  /\ Joined(b, Word("length", CountOf(root_type, part)), middle, ast)
  /\ Relative(root_type, part, b, middle)
  /\ \A n \in 1 .. Len(part) : ~AnElement(root_type, n) => middle[n] = part[n]

LEMMA PartWritten ==
  ASSUME NEW U, ElementsFit(U, ast), root_type \in Container,
         NEW part \in Seq(Words), Complete(root_type, part),
         \A n \in 1 .. Len(part) : AnElement(root_type, n) => part[n] \in U,
         NEW b, b = Parser!Installed(part)
  PROVE  \E middle : Written(part, b, middle)
<1>1. PICK count : count = CountOf(root_type, part)
  OBVIOUS
<1>2. PICK length : length = Word("length", count)
  OBVIOUS
<1>3. PICK size \in Nat, rest \in Nat, base \in Nat :
        size = Len(part) /\ rest = Len(ast) /\ base = rest + size + 1
  BY LenProperties DEF ElementsFit
<1>4. PICK middle :
        middle = [n \in 1 .. size |->
                    IF AnElement(root_type, n)
                      THEN [part[n] EXCEPT !.value = base - part[n].value]
                      ELSE part[n]]
  OBVIOUS
<1>5. DOMAIN part = 1 .. size
  BY <1>3
<1>6. b = <<length>> \o middle \o ast
  BY <1>1, <1>2, <1>3, <1>4, <1>5, SameAst
     DEF Parser!Installed, Parser!IsElement, Parser!NewBase, CountOf, AnElement
<1>7. \A n \in 1 .. size : part[n] \in Words
  BY <1>3, ElementOfSeq
<1>8. ASSUME NEW n \in 1 .. size
      PROVE  middle[n] \in Words
  <2>1. CASE AnElement(root_type, n)
    <3>1. PICK u \in Elements : u = part[n]
      BY <1>3, <2>1 DEF ElementsFit
    <3>2. /\ middle[n] = [u EXCEPT !.value = base - u.value]
          /\ u.type \in SajsonType /\ u.value \in Nat
          /\ u = [type |-> u.type, value |-> u.value]
      BY <1>4, <2>1, <3>1 DEF Elements
    <3>3. middle[n] = [type |-> u.type, value |-> base - u.value]
      BY <3>2
    <3> QED
      BY <3>2, <3>3 DEF Words
  <2>2. CASE ~AnElement(root_type, n)
    BY <1>4, <1>7, <2>2
  <2> QED
    BY <2>1, <2>2
<1>9. middle \in Seq(Words) /\ Len(middle) = size
  <2>1. middle \in [1 .. size -> Words]
    BY <1>4, <1>8
  <2>2. middle \in Seq(Words)
    BY <1>3, <2>1, SeqDef, Zenon
  <2> QED
    BY <1>3, <2>1, <2>2
<1>10. length \in Words
  BY <1>1, <1>2, PlaceOfElement DEF Word, Words
<1>11. Joined(b, length, middle, ast)
  BY <1>6, <1>9, <1>10, InFront DEF ElementsFit
<1>12. Len(b) = base
  BY <1>3, <1>9, <1>11 DEF Joined
<1>13. Relative(root_type, part, b, middle)
  BY <1>3, <1>4, <1>12 DEF Relative
<1>14. \A n \in 1 .. Len(part) : ~AnElement(root_type, n) => middle[n] = part[n]
  BY <1>3, <1>4
<1>15. Len(middle) = Len(part)
  BY <1>3, <1>9
<1> QED
  BY <1>1, <1>2, <1>9, <1>11, <1>13, <1>14, <1>15 DEF Written

\* install_array and install_object give a container that has its elements.
LEMMA ContainerInstalled ==
  ASSUME NEW U, ElementsFit(U, ast), root_type \in Container,
         NEW part \in Seq(Words), Complete(root_type, part),
         \A n \in 1 .. Len(part) : AnElement(root_type, n) => part[n] \in U,
         NEW b, b = Parser!Installed(part),
         NEW W, W = U \cup {Word(root_type, Len(b))}
  PROVE  ElementsFit(W, b) /\ Len(b) \in Nat \ {0}
<1>1. PICK middle : Written(part, b, middle)
  BY PartWritten
<1>2. PICK length : length = Word("length", CountOf(root_type, part))
  OBVIOUS
<1>3. /\ middle \in Seq(Words) /\ Len(middle) = Len(part)
      /\ Joined(b, length, middle, ast) /\ Relative(root_type, part, b, middle)
  BY <1>1, <1>2 DEF Written
<1> QED
  BY <1>2, <1>3, Installed

\* The container of a closing bracket is the root, or an element of the one
\* around it.
LEMMA CloseKeeps ==
  ASSUME NEW U, NEW parts, ParserFits(U, parts), Parser!Close
  PROVE  \E W, new : ParserFits(W, new)'
<1>1. /\ stack \in Seq(Words) /\ ElementsFit(U, ast) /\ Nest(U, stack, parts)
      /\ PartFilled(U, stack, Current, Len(stack))
      /\ Full(Current, Len(stack))
      /\ label \in {"close_or_first", "close_or_comma"}
  BY DEF ParserFits, LabelFits, Parser!Close
<1>2. PICK part : part = SubSeq(stack, current_base + 2, Len(stack))
  OBVIOUS
<1>3. Sliced(stack, current_base, part)
  BY <1>1, <1>2, Slice, CurrentFacts
<1>4. /\ part \in Seq(Words) /\ Complete(root_type, part)
      /\ \A n \in 1 .. Len(part) : AnElement(root_type, n) => part[n] \in U
  <2>1. /\ Current \in Parts /\ Current.base = current_base
        /\ Current.base < Len(stack) /\ Current.type = root_type
    BY CurrentFacts
  <2> QED
    BY <1>1, <1>3, <2>1, TopPart
<1>5. PICK b : b = Parser!Installed(part)
  OBVIOUS
<1>6. PICK element : element = Word(root_type, Len(b))
  OBVIOUS
<1>7. PICK W : W = U \cup {element}
  OBVIOUS
<1>8. ElementsFit(W, b) /\ Len(b) \in Nat /\ U \subseteq W /\ element \in W
  BY <1>1, <1>4, <1>5, <1>6, <1>7, ContainerInstalled, CurrentFacts
<1>9. element \in Words /\ element \in Elements
  BY <1>8, <1>6, CurrentFacts DEF Word, Words, Elements, SajsonType, Container
<1>10. ast' = b
  BY <1>2, <1>5 DEF Parser!Close
<1>11. PICK bottom : bottom = stack[current_base + 1]
  OBVIOUS
<1>12. CASE bottom.value = -1
  <2>1. /\ label' \in {"accepted", "rejected"}
        /\ UNCHANGED <<stack, current_base, root_type>>
    BY <1>11, <1>12 DEF Parser!Close, Parser!RootMarker
  <2>2. Nest(W, stack, parts) /\ PartFilled(W, stack, Current, Len(stack))
    <3>1. parts[Len(parts)].base = current_base /\ current_base < Len(stack)
      BY CurrentFacts
    <3>2. Nest(W, stack, parts)
      BY <1>1, <1>8, <3>1, NestKept
    <3> QED
      BY <1>1, <1>8, <3>2 DEF PartFilled
  <2>3. LabelFits(W)'
    BY <1>6, <1>8, <1>10, <2>1 DEF LabelFits
  <2> QED
    BY <1>1, <1>8, <1>10, <2>1, <2>2, <2>3 DEF ParserFits, Current
<1>13. CASE bottom.value # -1
  <2>1. /\ stack' = Append(SubSeq(stack, 1, current_base), element)
        /\ current_base' = bottom.value /\ root_type' = bottom.type
        /\ label' = "close_or_comma"
    BY <1>6, <1>10, <1>11, <1>13, SameAst
       DEF Parser!Close, Parser!RootMarker, Parser!StackAround
  <2>2. PICK depth \in Nat :
          /\ depth = Len(parts) /\ depth >= 2
          /\ current_base = parts[depth].base
    <3>1. Len(parts) # 1
      BY <1>11, <1>13, CurrentFacts DEF Nest, ParserFits
    <3> QED
      BY <3>1, CurrentFacts, SMTT(20)
  <2>3. PICK outer \in Parts : outer = parts[depth - 1]
    <3>1. depth - 1 \in 1 .. Len(parts)
      BY <2>2
    <3> QED
      BY <1>1, <3>1, PartFacts
  <2>4. bottom.type = outer.type /\ bottom.value = outer.base
    <3>1. depth \in 2 .. Len(parts)
      BY <2>2
    <3>2. bottom = Word(outer.type, outer.base)
      BY <1>1, <1>11, <2>2, <2>3, <3>1 DEF Nest
    <3> QED
      BY <3>2 DEF Word
  <2>5. PICK around : around = SubSeq(stack, 1, current_base)
    OBVIOUS
  <2>6. PICK fewer : fewer = Front(parts)
    OBVIOUS
  <2>7. Uncovers(U, around, fewer, outer)
    BY <1>1, <2>2, <2>3, <2>5, <2>6, NestCloses
  <2>8. PICK t \in Seq(Words) : stack' = t /\ Pushed(around, element, t)
    BY <1>9, <2>1, <2>5, <2>7, OneMore DEF Uncovers
  <2>9. PartFilled(W, t, outer, Len(t)) /\ Full(outer, Len(t))
    BY <1>8, <2>7, <2>8, ElementStacked DEF Uncovers
  <2>10. fewer[Len(fewer)] = outer
    BY <2>7 DEF Uncovers
  <2>11. Nest(W, t, fewer)
    <3>1. PICK last : last = fewer[Len(fewer)].base
      OBVIOUS
    <3>2. last \in Nat /\ last < Len(around)
      BY <2>7, <2>10, <3>1 DEF Uncovers, Nest, Parts
    <3>3. last < Len(t) /\ \A n \in 1 .. last + 1 : t[n] = around[n]
      BY <2>8, <3>2 DEF Pushed
    <3> QED
      BY <1>8, <2>7, <3>1, <3>3, NestKept DEF Uncovers
  <2>12. Current' = outer
    <3>1. outer = [base |-> outer.base, type |-> outer.type]
      BY DEF Parts
    <3> QED
      BY <2>1, <2>4, <3>1 DEF Current
  <2>13. LabelFits(W)'
    BY <2>1, <2>8, <2>9, <2>12 DEF LabelFits
  <2> QED
    BY <1>8, <1>10, <2>8, <2>9, <2>10, <2>11, <2>12, <2>13 DEF ParserFits
<1> QED
  BY <1>12, <1>13

LEMMA ElementKeeps ==
  ASSUME p \in Nat, NEW U, NEW parts, ParserFits(U, parts),
         Parser!AtomElement \/ Parser!NumberElement \/ Parser!StringElement
  PROVE  \E W : ParserFits(W, parts)'
<1>1. label = "next_element"
  BY DEF Parser!AtomElement, Parser!NumberElement, Parser!StringElement,
         Parser!NextElement
<1>2. CASE Parser!AtomElement
  <2>1. PICK kind \in AtomKind : Parser!ScalarElement(kind, <<>>)
    BY <1>2 DEF Parser!AtomElement, Parser!AtomKind, AtomKind
  <2>2. kind \in SajsonType \ Container
    BY DEF AtomKind, SajsonType, Container
  <2> QED
    BY <1>1, <2>1, <2>2, EmptySeq, ScalarKeeps
<1>3. CASE Parser!NumberElement
  <2>1. PICK kind \in NumberKind :
          /\ Parser!Here(kind)
          /\ Parser!ScalarElement(Parser!NumberType[kind], <<Parser!Held>>)
    BY <1>3 DEF Parser!NumberElement, Parser!NumberKind, NumberKind
  <2>2. PICK type : type = Parser!NumberType[kind]
    OBVIOUS
  <2>3. type \in SajsonType \ Container
    BY <2>2 DEF NumberKind, Parser!NumberType, SajsonType, Container
  <2>4. PICK w \in Words : w = Parser!Held
    BY <2>1, HeldType DEF ScalarKind
  <2>5. PICK words \in Seq(Words) : words = <<w>>
    <3>1. <<w>> \in Seq(Words)
      OBVIOUS
    <3> QED
      BY <3>1, Zenon
  <2> QED
    BY <1>1, <2>1, <2>2, <2>3, <2>4, <2>5, ScalarKeeps
<1>4. CASE Parser!StringElement
  <2>1. /\ Parser!Here("string")
        /\ Parser!ScalarElement("string", <<Parser!Held, Parser!Held>>)
    BY <1>4 DEF Parser!StringElement
  <2>2. "string" \in SajsonType \ Container
    BY DEF SajsonType, Container
  <2>3. PICK w \in Words : w = Parser!Held
    BY <2>1, HeldType DEF ScalarKind
  <2>4. PICK words \in Seq(Words) : words = <<w, w>>
    <3>1. <<w, w>> \in Seq(Words)
      OBVIOUS
    <3> QED
      BY <3>1, Zenon
  <2> QED
    BY <1>1, <2>1, <2>2, <2>3, <2>4, ScalarKeeps
<1> QED
  BY <1>2, <1>3, <1>4

LEMMA PositionKept ==
  ASSUME p \in Nat, [Parser!Parse]_Parser!vars
  PROVE  p' \in Nat
<1>1. p' \in {p, p + 1, p + 2}
  BY DEF Parser!Parse, Parser!vars, Parser!Begin, Parser!AtomElement,
         Parser!NumberElement, Parser!StringElement, Parser!OpenElement,
         Parser!NoElement, Parser!First, Parser!Comma, Parser!NoSeparator,
         Parser!ObjectKey, Parser!Close, Parser!Open, Parser!ScalarElement,
         Parser!Reject
<1> QED
  BY <1>1

LEMMA ParserKeeps ==
  ASSUME ParserInv, [Parser!Parse]_Parser!vars
  PROVE  ParserInv'
<1>1. p \in Nat /\ p' \in Nat
  BY PositionKept DEF ParserInv
<1>2. CASE UNCHANGED Parser!vars
  <2>1. UNCHANGED <<p, stack, ast, label, current_base, root_type>>
    BY <1>2 DEF Parser!vars
  <2>2. CASE stack = <<>> /\ ast = <<>> /\ label \in {"begin", "rejected"}
    BY <1>1, <2>1, <2>2 DEF ParserInv
  <2>3. ASSUME NEW U, NEW parts, ParserFits(U, parts)
        PROVE  ParserFits(U, parts)'
    <3>1. LabelFits(U)'
      BY <2>1, <2>3 DEF ParserFits, LabelFits, Current
    <3> QED
      BY <2>1, <2>3, <3>1, LabelKeeps
  <2> QED
    BY <1>1, <2>2, <2>3 DEF ParserInv
<1>3. CASE Parser!Reject
  BY <1>3, RejectKeeps
<1>4. CASE Parser!Begin /\ ~Parser!Reject
  <2>1. label' # "rejected"
    BY <1>4 DEF Parser!Begin, Parser!Open
  <2> QED
    BY <1>1, <1>4, <2>1, BeginKeeps DEF ParserInv
<1>5. ASSUME Parser!Parse, ~Parser!Reject, ~Parser!Begin
      PROVE  ParserInv'
  <2>1. label \notin {"begin", "rejected"}
    BY <1>5 DEF Parser!Parse, Parser!AtomElement, Parser!NumberElement,
                Parser!StringElement, Parser!OpenElement, Parser!NoElement,
                Parser!NextElement, Parser!First, Parser!Comma,
                Parser!NoSeparator, Parser!ObjectKey, Parser!Close
  <2>2. PICK U, parts : ParserFits(U, parts)
    BY <2>1 DEF ParserInv
  <2>3. CASE Parser!AtomElement \/ Parser!NumberElement \/ Parser!StringElement
    BY <1>1, <2>2, <2>3, ElementKeeps DEF ParserInv
  <2>4. CASE Parser!OpenElement
    BY <1>1, <2>2, <2>4, OpenKeeps DEF ParserInv
  <2>5. CASE Parser!First
    BY <1>1, <2>2, <2>5, FirstKeeps DEF ParserInv
  <2>6. CASE Parser!Comma
    BY <1>1, <2>2, <2>6, CommaKeeps DEF ParserInv
  <2>7. CASE Parser!ObjectKey
    <3>1. label' # "rejected"
      BY <1>5, <2>7 DEF Parser!ObjectKey
    <3> QED
      BY <1>1, <2>2, <2>7, <3>1, KeyKeeps DEF ParserInv
  <2>8. CASE Parser!Close
    BY <1>1, <2>2, <2>8, CloseKeeps DEF ParserInv
  <2> QED
    BY <1>5, <2>3, <2>4, <2>5, <2>6, <2>7, <2>8
       DEF Parser!Parse, Parser!NoElement, Parser!NoSeparator
<1> QED
  BY <1>2, <1>3, <1>4, <1>5

LEMMA ParserBegins == Parser!Init => ParserInv
BY DEF Parser!Init, ParserInv

-----------------------------------------------------------------------------
(***************************************************************************)
(* What the invariant of the parser says of its stack.                     *)
(***************************************************************************)

\* The parts by their number, that of the root first, and as they lie.
EndOf(parts, m) == IF m = Len(parts) THEN Len(stack) ELSE parts[m + 1].base
PartAt(parts, m) ==
  [base |-> parts[m].base, end |-> EndOf(parts, m), type |-> parts[m].type]
NumberOf(parts, n) == IF n < Len(parts) THEN Len(parts) - n ELSE 1
Below(part) ==
  LET bottom == stack[part.base + 1]
  IN  IF bottom.value = -1 THEN part
      ELSE [base |-> bottom.value, end |-> part.base, type |-> bottom.type]

\* The bottom of a part leads to the one below it.
LEMMA BelowPart ==
  ASSUME NEW U, NEW parts, ParserFits(U, parts), NEW m \in 1 .. Len(parts)
  PROVE  /\ PartAt(parts, m).base \in Nat
         /\ (m = 1) <=> (PartAt(parts, m).base = 0)
         /\ (m = 1) <=> (stack[PartAt(parts, m).base + 1].value = -1)
         /\ Below(PartAt(parts, m)) = PartAt(parts, IF m = 1 THEN 1 ELSE m - 1)
<1>1. PICK depth \in Nat : depth = Len(parts)
  BY CurrentFacts
<1>2. /\ Nest(U, stack, parts)
      /\ \A n \in 1 .. depth : parts[n].base \in Nat
  BY <1>1, PartFacts DEF ParserFits
<1>3. PICK part : part = PartAt(parts, m)
  OBVIOUS
<1>4. part.base = parts[m].base /\ part.base \in Nat
  BY <1>1, <1>2, <1>3 DEF PartAt
<1>5. CASE m = 1
  <2>1. part.base = 0 /\ stack[part.base + 1].value = -1
    BY <1>2, <1>4, <1>5 DEF Nest
  <2> QED
    BY <1>3, <1>4, <1>5, <2>1 DEF Below
<1>6. CASE m # 1
  <2>1. m - 1 \in 1 .. depth /\ m \in 2 .. depth /\ m - 1 # depth /\ m - 1 + 1 = m
        /\ 1 \in 1 .. depth /\ 1 < m
    BY <1>1, <1>6
  <2>2. part.base # 0
    <3>1. parts[1].base < parts[m].base /\ parts[1].base = 0
      BY <1>1, <1>2, <2>1 DEF Nest
    <3> QED
      BY <1>4, <3>1
  <2>3. PICK bottom :
          /\ bottom = stack[part.base + 1]
          /\ bottom.type = parts[m - 1].type /\ bottom.value = parts[m - 1].base
    <3>1. stack[parts[m].base + 1] = Word(parts[m - 1].type, parts[m - 1].base)
      BY <1>1, <1>2, <2>1 DEF Nest
    <3> QED
      BY <1>4, <3>1 DEF Word
  <2>4. bottom.value # -1
    BY <1>2, <2>1, <2>3
  <2>5. Below(part) = [base |-> parts[m - 1].base, end |-> parts[m].base,
                       type |-> parts[m - 1].type]
    BY <1>4, <2>3, <2>4 DEF Below
  <2>6. EndOf(parts, m - 1) = parts[m].base
    BY <1>1, <2>1 DEF EndOf
  <2>7. Below(part) = PartAt(parts, m - 1)
    BY <2>5, <2>6 DEF PartAt
  <2> QED
    BY <1>3, <1>4, <1>6, <2>2, <2>3, <2>4, <2>7
<1> QED
  BY <1>5, <1>6

\* What Part finds from above are the parts.
LEMMA PartIsPart ==
  ASSUME NEW U, NEW parts, ParserFits(U, parts)
  PROVE  \A n \in 0 .. Len(stack) :
           Parser!Part[n] = PartAt(parts, NumberOf(parts, n))
<1>1. PICK size \in Nat, depth \in Nat :
        size = Len(stack) /\ depth = Len(parts) /\ depth >= 1
  BY CurrentFacts
<1> DEFINE Place(n) == PartAt(parts, NumberOf(parts, n))
           Outermost == [base |-> current_base, end |-> size, type |-> root_type]
           Step(f) ==
             [n \in 0 .. size |-> IF n = 0 THEN Outermost ELSE Below(f[n - 1])]
           g == [n \in 0 .. size |-> Place(n)]
<1>2. Place(0) = Outermost
  <2>1. NumberOf(parts, 0) = depth
    BY <1>1 DEF NumberOf
  <2>2. PartAt(parts, depth) = Outermost
    BY <1>1, CurrentFacts DEF PartAt, EndOf
  <2> QED
    BY <2>1, <2>2
<1>3. ASSUME NEW n \in 1 .. size
      PROVE  Place(n) = Below(Place(n - 1))
  <2>1. PICK m \in 1 .. depth : m = NumberOf(parts, n - 1)
    <3>1. NumberOf(parts, n - 1) \in 1 .. depth
      BY <1>1 DEF NumberOf
    <3> QED
      BY <3>1
  <2>2. NumberOf(parts, n) = IF m = 1 THEN 1 ELSE m - 1
    BY <1>1, <2>1 DEF NumberOf
  <2> QED
    BY <1>1, <2>1, <2>2, BelowPart
<1> HIDE DEF Place, Outermost
<1>4. g = Step(g)
  <2>1. ASSUME NEW n \in 0 .. size
        PROVE  g[n] = IF n = 0 THEN Outermost ELSE Below(g[n - 1])
    <3>1. CASE n = 0
      BY <1>2, <3>1
    <3>2. CASE n # 0
      <4>1. n \in 1 .. size /\ n - 1 \in 0 .. size
        BY <3>2
      <4> QED
        BY <1>3, <3>2, <4>1
    <3> QED
      BY <3>1, <3>2
  <2> QED
    BY <2>1
<1>5. Parser!Part = CHOOSE f : f = Step(f)
  BY <1>1 DEF Parser!Part, Parser!RootMarker, Below, Outermost
<1> HIDE DEF Step, g
<1>6. Parser!Part = Step(Parser!Part)
  BY <1>4, <1>5
<1>7. /\ Parser!Part[0] = Outermost
      /\ \A n \in 1 .. size : Parser!Part[n] = Below(Parser!Part[n - 1])
  <2>1. \A n \in 0 .. size :
          Parser!Part[n] = IF n = 0 THEN Outermost ELSE Below(Parser!Part[n - 1])
    BY <1>6 DEF Step
  <2> QED
    BY <1>1, <2>1
<1> DEFINE S == {n \in Nat : n <= size => Parser!Part[n] = Place(n)}
<1>8. 0 \in S
  BY <1>2, <1>7
<1>9. ASSUME NEW n \in Nat, n \in S PROVE n + 1 \in S
  <2> SUFFICES ASSUME n + 1 <= size PROVE Parser!Part[n + 1] = Place(n + 1)
    OBVIOUS
  <2>1. n + 1 \in 1 .. size /\ n + 1 - 1 = n /\ n <= size
    BY <1>1
  <2>2. Parser!Part[n] = Place(n)
    BY <1>9, <2>1
  <2>3. Parser!Part[n + 1] = Below(Parser!Part[n])
    BY <1>7, <2>1
  <2>4. Place(n + 1) = Below(Place(n))
    BY <1>3, <2>1
  <2> QED
    BY <2>2, <2>3, <2>4
<1>10. Nat \subseteq S
  <2> HIDE DEF S
  <2> QED
    BY <1>8, <1>9, SetInduction
<1>11. \A n \in 0 .. size : Parser!Part[n] = Place(n)
  BY <1>1, <1>10
<1> QED
  BY <1>1, <1>11 DEF Place

LEMMA PartFitsAt ==
  ASSUME NEW U, NEW parts, ParserFits(U, parts), NEW m \in 1 .. Len(parts)
  PROVE  Parser!PartFits(PartAt(parts, m))
<1>1. PICK depth \in Nat, size \in Nat : depth = Len(parts) /\ size = Len(stack)
  BY CurrentFacts
<1>2. PICK end \in Nat : end = EndOf(parts, m) /\ parts[m].base < end
  <2>1. CASE m = depth
    BY <1>1, <2>1, CurrentFacts DEF EndOf
  <2>2. CASE m # depth
    <3>1. m + 1 \in 1 .. depth /\ m < m + 1
      BY <1>1, <2>2
    <3>2. parts[m + 1].base \in Nat /\ parts[m].base < parts[m + 1].base
      BY <1>1, <3>1, PartFacts DEF ParserFits, Nest
    <3> QED
      BY <1>1, <2>2, <3>2 DEF EndOf
  <2> QED
    BY <2>1, <2>2
<1>3. PartFilled(U, stack, parts[m], end)
  <2>1. CASE m = depth
    BY <1>1, <1>2, <2>1 DEF EndOf, ParserFits
  <2>2. CASE m # depth
    <3>1. m \in 1 .. depth - 1
      BY <1>1, <2>2
    <3> QED
      BY <1>1, <1>2, <2>2, <3>1 DEF EndOf, ParserFits, Nest
  <2> QED
    BY <2>1, <2>2
<1>4. PICK part : part = PartAt(parts, m)
  OBVIOUS
<1>5. part.base = parts[m].base /\ part.end = end /\ part.type = parts[m].type
  BY <1>2, <1>4 DEF PartAt
<1>6. /\ part.base \in Nat
      /\ part.base = 0 <=> stack[part.base + 1].value = -1
  BY <1>4, BelowPart
<1>7. part.base \in 0 .. part.end - 1
  BY <1>2, <1>5, <1>6
<1>8. ASSUME NEW n \in part.base + 2 .. part.end
      PROVE  IF part.type = "array" \/ (n - part.base - 1) % 3 = 0
               THEN stack[n].type # "text" /\ stack[n].value \in 0 .. Len(ast)
               ELSE stack[n].type = "text"
  <2>1. IF part.type = "array" \/ (n - part.base - 1) % 3 = 0
          THEN stack[n] \in U ELSE stack[n].type = "text"
    BY <1>3, <1>5 DEF PartFilled, AnElement
  <2>2. ASSUME stack[n] \in U
        PROVE  stack[n].type # "text" /\ stack[n].value \in 0 .. Len(ast)
    <3>1. stack[n].value \in 0 .. Len(ast) /\ stack[n].type \in SajsonType
      BY <2>2 DEF ParserFits, ElementsFit, Elements
    <3> QED
      BY <3>1 DEF SajsonType
  <2> QED
    BY <2>1, <2>2
<1>9. Parser!PartFits(part)
  BY <1>6, <1>7, <1>8 DEF Parser!PartFits, Parser!RootMarker
<1> QED
  BY <1>4, <1>9

LEMMA ParserInvSuffices == ParserInv => Parser!StackFits
<1> SUFFICES ASSUME NEW U, NEW parts, ParserFits(U, parts),
                    NEW n \in 0 .. Len(stack)
             PROVE  Parser!PartFits(Parser!Part[n])
  BY DEF ParserInv, Parser!StackFits
<1>1. PICK m \in 1 .. Len(parts) : m = NumberOf(parts, n)
  <2>1. NumberOf(parts, n) \in 1 .. Len(parts)
    BY CurrentFacts DEF NumberOf
  <2> QED
    BY <2>1
<1>2. Parser!Part[n] = PartAt(parts, m)
  BY <1>1, PartIsPart
<1> QED
  BY <1>2, PartFitsAt

\* The stack of the parser is that of the containers which are open, and all
\* elements lie inside the AST, for texts of any length and depth (the
\* assertion of install_object).
THEOREM StackFitsAlways == Parser!Spec => []Parser!StackFits
<1>1. Parser!Spec => []ParserInv
  BY ParserBegins, ParserKeeps, PTL DEF Parser!Spec
<1> QED
  BY <1>1, ParserInvSuffices, PTL

\* The AST of a text that is accepted can be walked.
LEMMA AcceptedIsWalked ==
  ASSUME ParserInv, label = "accepted"
  PROVE  root_type \in Container /\ \E V : IsValuesOf(V, ast, Root)
<1>1. PICK U, parts : ParserFits(U, parts)
  BY DEF ParserInv
<1>2. Word(root_type, Len(ast)) \in U /\ ElementsFit(U, ast)
  BY <1>1 DEF ParserFits, LabelFits
<1>3. root_type \in Container /\ root_type \in SajsonType
  BY <1>1, CurrentFacts DEF SajsonType, Container
<1>4. Root = [type |-> root_type, at |-> 1]
  BY DEF Root
<1>5. IsValuesOf({[type |-> u.type, at |-> Len(ast) - u.value + 1] : u \in U},
                 ast, [type |-> root_type, at |-> 1])
  BY <1>2, <1>3, ElementsAreValues
<1> QED
  BY <1>3, <1>4, <1>5, Zenon

-----------------------------------------------------------------------------
(***************************************************************************)
(* The AST and the text. The parser is where the text, read token by       *)
(* token, is; and what was read is where the walk will look for it: on the *)
(* stack while its container is open, and then in the AST. W[q] is the     *)
(* word of the value that starts at position q, its place counted from the *)
(* end of the AST; the key at q counts as one.                             *)
(***************************************************************************)

TypeIn ==
  [kind \in ScalarKind |->
     IF kind \in NumberKind THEN Parser!NumberType[kind] ELSE kind]

\* The place of an item in its container.
Place(s, q) ==
  IF KeyRead(Run(s), s, q) THEN 3 * Host(s, q).index + 1
                           ELSE PlaceOf(Host(s, q).kind, Host(s, q).index)

\* In a container that was closed.
Stored(s, W, a, q) ==
  LET around == W[Host(s, q).at].value
  IN  /\ around - Place(s, q) \in 1 .. Len(a)
      /\ Back(a, around - Place(s, q)) =
           IF KeyRead(Run(s), s, q) THEN W[q]
                                    ELSE Word(W[q].type, around - W[q].value)
      /\ around \in 1 .. Len(a) /\ Host(s, q).index < Back(a, around).value

\* On the stack; no higher than where the part of the next container starts.
Slot(s, bases, q) == bases[Depth(s, q - 1)] + 1 + Place(s, q)
Ceiling(s, bases, stk, n, m) == IF m < Depth(s, n) THEN bases[m + 1] ELSE Len(stk)
OnStack(s, W, bases, stk, n, q) ==
  /\ Slot(s, bases, q) \in 1 .. Ceiling(s, bases, stk, n, Depth(s, q - 1))
  /\ stk[Slot(s, bases, q)] = W[q]

Placed(s, W, bases, stk, a, n, q) ==
  IF Depth(s, q - 1) = 0
    THEN IsWhole(Run(s)[n])
    ELSE IF HostOpen(s, n, q) THEN OnStack(s, W, bases, stk, n, q)
                              ELSE Stored(s, W, a, q)

ScalarHeld(s, W, a, q) ==
  \E distance \in 0 .. Len(a) :
    /\ W[q] = Word(TypeIn[s[q]], distance)
    /\ s[q] \notin AtomKind =>
         distance # 0 /\ Back(a, distance).value = Payload(s[q], q)
ContainerHeld(s, W, a, q) ==
  \E distance \in 1 .. Len(a) :
    /\ W[Host(s, q).at] = Word(Host(s, q).kind, distance)
    /\ Back(a, distance).value = CountAt(Run(s)[q - 1])

AstReads(s, W, bases, stk, a, n) ==
  /\ \A q \in 1 .. n : ScalarRead(Run(s), s, q) => ScalarHeld(s, W, a, q)
  /\ \A q \in 1 .. n :
       KeyRead(Run(s), s, q) => W[q] = Word("text", Payload("string", q))
  /\ \A q \in 1 .. n : CloserRead(Run(s), s, q) => ContainerHeld(s, W, a, q)
  /\ \A q \in 1 .. n :
       IsItem(s, q) /\ ~IsOpen(s, n, q) => Placed(s, W, bases, stk, a, n, q)

-----------------------------------------------------------------------------
\* As long as nothing is closed, what was stacked stays where it is, and so
\* does always what is in the AST, counted from its end.
Extends(a, b) ==
  /\ Len(a) \in Nat /\ Len(b) \in Nat /\ Len(a) <= Len(b)
  /\ \A d \in 1 .. Len(a) : Back(b, d) = Back(a, d)
SameBases(s, n, more, bases, new, stk) ==
  /\ \A m \in 1 .. Depth(s, n) :
       bases[m] \in Nat /\ bases[m] <= Len(stk) /\ new[m] = bases[m]
  /\ Depth(s, n) < Depth(s, more) => Len(stk) <= new[Depth(s, n) + 1]
                                     /\ new[Depth(s, n) + 1] \in Nat
Grows(s, n, more, W, later, bases, new, stk, grown, a, b) ==
  /\ Len(s) \in Nat /\ Onto(s, n, more) /\ ~IsWhole(Run(s)[n])
  /\ \A q \in 1 .. n : later[q] = W[q]
  /\ Len(stk) \in Nat /\ Len(grown) \in Nat /\ Len(stk) <= Len(grown)
  /\ \A k \in 1 .. Len(stk) : grown[k] = stk[k]
  /\ Extends(a, b)
  /\ SameBases(s, n, more, bases, new, stk)

LEMMA StoredStays ==
  ASSUME NEW s, NEW W, NEW later, NEW a, NEW b, Extends(a, b), NEW q,
         later[q] = W[q], later[Host(s, q).at] = W[Host(s, q).at],
         Stored(s, W, a, q)
  PROVE  Stored(s, later, b, q)
<1>1. PICK around, place : around = W[Host(s, q).at].value /\ place = Place(s, q)
  OBVIOUS
<1>2. PICK d : d = around - place
  OBVIOUS
<1>3. /\ d \in 1 .. Len(a)
      /\ Back(a, d) = IF KeyRead(Run(s), s, q) THEN W[q]
                      ELSE Word(W[q].type, around - W[q].value)
      /\ around \in 1 .. Len(a) /\ Host(s, q).index < Back(a, around).value
  BY <1>1, <1>2 DEF Stored
<1>4. /\ d \in 1 .. Len(b) /\ Back(b, d) = Back(a, d)
      /\ around \in 1 .. Len(b) /\ Back(b, around) = Back(a, around)
  BY <1>3 DEF Extends
<1>5. Host(s, q).index < Back(b, around).value
  BY <1>3, <1>4
<1>6. later[Host(s, q).at].value = around /\ later[q] = W[q]
  BY <1>1
<1> QED
  BY <1>1, <1>2, <1>3, <1>4, <1>5, <1>6, Zenon DEF Stored

LEMMA ItemStays ==
  ASSUME NEW s, NEW n, NEW more, NEW W, NEW later, NEW bases, NEW new,
         NEW stk, NEW grown, NEW a, NEW b,
         Grows(s, n, more, W, later, bases, new, stk, grown, a, b),
         NEW q \in 1 .. n, Placed(s, W, bases, stk, a, n, q)
  PROVE  Placed(s, later, new, grown, b, more, q)
<1> USE DEF Grows
<1>1. PICK m : m = Depth(s, q - 1)
  OBVIOUS
<1>2. PICK depth \in Nat : depth = Depth(s, n)
  BY DEF Onto
<1>3. q \in 1 .. Len(s) /\ n \in 0 .. Len(s)
  BY DEF Onto
<1>4. m \in Nat /\ later[q] = W[q]
  BY <1>1, <1>3, HostFacts
<1>5. PICK top \in Nat : top = Depth(s, more)
  BY DEF Onto
<1>6. depth <= top
  BY <1>2, <1>5 DEF Onto
<1>7. CASE m = 0
  BY <1>1, <1>7 DEF Placed
<1>8. CASE m # 0
  <2>1. PICK o : o = Host(s, q).at
    OBVIOUS
  <2>2. o \in 1 .. q - 1 /\ Host(s, q).index \in Nat
    BY <1>1, <1>3, <1>8, <2>1, HostFacts
  <2>3. o \in 1 .. n /\ later[o] = W[o]
    BY <1>3, <2>2
  <2>4. HostOpen(s, n, q) <=> HostOpen(s, more, q)
    <3>1. HostOpen(s, n, q) <=> m <= depth /\ Run(s)[n].open[m].at = o
      BY <1>1, <1>2, <2>1 DEF HostOpen
    <3>2. HostOpen(s, more, q) <=> m <= top /\ Run(s)[more].open[m].at = o
      BY <1>1, <1>5, <2>1 DEF HostOpen
    <3>3. CASE m <= depth
      <4>1. m \in 1 .. depth /\ m <= top
        BY <1>4, <1>6, <1>8, <3>3
      <4> QED
        BY <1>2, <3>1, <3>2, <4>1 DEF Onto
    <3>4. CASE ~(m <= depth) /\ m <= top
      <4>1. m \in depth + 1 .. top
        BY <1>4, <3>4
      <4>2. Run(s)[more].open[m].at \notin 1 .. n
        BY <1>2, <1>5, <4>1 DEF Onto
      <4> QED
        BY <2>3, <3>1, <3>2, <3>4, <4>2
    <3>5. CASE ~(m <= depth) /\ ~(m <= top)
      BY <3>1, <3>2, <3>5
    <3> QED
      BY <3>3, <3>4, <3>5
  <2>5. CASE HostOpen(s, n, q)
    <3>1. m \in 1 .. depth
      BY <1>1, <1>2, <1>4, <1>8, <2>5 DEF HostOpen
    <3>2. new[m] = bases[m] /\ Slot(s, new, q) = Slot(s, bases, q)
      BY <1>1, <1>2, <3>1 DEF SameBases, Slot
    <3>3. OnStack(s, W, bases, stk, n, q)
      BY <1>1, <1>8, <2>5 DEF Placed
    <3>4. PICK slot : slot = Slot(s, bases, q)
      OBVIOUS
    <3>5. slot \in 1 .. Ceiling(s, bases, stk, n, m) /\ stk[slot] = W[q]
      BY <1>1, <3>3, <3>4 DEF OnStack
    <3>6. slot \in 1 .. Ceiling(s, new, grown, more, m) /\ slot \in 1 .. Len(stk)
      <4>1. CASE m < depth
        <5>1. m + 1 \in 1 .. depth /\ m < top
          BY <1>4, <1>6, <4>1
        <5>2. PICK place \in Nat : place = bases[m + 1]
          BY <1>2, <5>1 DEF SameBases
        <5>3. place <= Len(stk) /\ new[m + 1] = place
          BY <1>2, <5>1, <5>2 DEF SameBases
        <5>4. slot \in 1 .. place
          BY <1>2, <3>5, <4>1, <5>2 DEF Ceiling
        <5>5. Ceiling(s, new, grown, more, m) = place
          BY <1>5, <5>1, <5>3 DEF Ceiling
        <5> QED
          BY <5>3, <5>4, <5>5
      <4>2. CASE m = depth
        <5>1. slot \in 1 .. Len(stk)
          BY <1>2, <3>5, <4>2 DEF Ceiling
        <5>2. CASE depth < top
          <6>1. Len(stk) <= new[m + 1] /\ new[m + 1] \in Nat
            BY <1>2, <1>5, <4>2, <5>2 DEF SameBases
          <6>2. Ceiling(s, new, grown, more, m) = new[m + 1]
            BY <1>5, <4>2, <5>2 DEF Ceiling
          <6> QED
            BY <5>1, <6>1, <6>2
        <5>3. CASE ~(depth < top)
          <6>1. Ceiling(s, new, grown, more, m) = Len(grown)
            BY <1>5, <4>2, <5>3 DEF Ceiling
          <6> QED
            BY <5>1, <6>1
        <5> QED
          BY <5>2, <5>3
      <4> QED
        BY <3>1, <4>1, <4>2
    <3>7. grown[slot] = later[q]
      BY <1>4, <3>5, <3>6
    <3>8. OnStack(s, later, new, grown, more, q)
      BY <1>1, <3>2, <3>4, <3>6, <3>7 DEF OnStack
    <3> QED
      BY <1>1, <1>8, <2>4, <2>5, <3>8 DEF Placed
  <2>6. CASE ~HostOpen(s, n, q)
    <3>1. Stored(s, W, a, q)
      BY <1>1, <1>8, <2>6 DEF Placed
    <3>2. Stored(s, later, b, q)
      BY <1>4, <2>1, <2>3, <3>1, StoredStays
    <3> QED
      BY <1>1, <1>8, <2>4, <2>6, <3>2 DEF Placed
  <2> QED
    BY <2>5, <2>6
<1> QED
  BY <1>4, <1>7, <1>8

LEMMA ScalarStays ==
  ASSUME NEW s, NEW W, NEW later, NEW a, NEW b, Extends(a, b), NEW q,
         later[q] = W[q], ScalarHeld(s, W, a, q)
  PROVE  ScalarHeld(s, later, b, q)
<1>1. PICK d \in 0 .. Len(a) :
        /\ W[q] = Word(TypeIn[s[q]], d)
        /\ s[q] \notin AtomKind => d # 0 /\ Back(a, d).value = Payload(s[q], q)
  BY DEF ScalarHeld
<1>2. d \in 0 .. Len(b) /\ (d # 0 => Back(b, d) = Back(a, d))
  BY <1>1 DEF Extends
<1> QED
  BY <1>1, <1>2 DEF ScalarHeld

LEMMA ContainerStays ==
  ASSUME NEW s, NEW W, NEW later, NEW a, NEW b, Extends(a, b), NEW q,
         later[Host(s, q).at] = W[Host(s, q).at], ContainerHeld(s, W, a, q)
  PROVE  ContainerHeld(s, later, b, q)
<1>1. PICK d \in 1 .. Len(a) :
        /\ W[Host(s, q).at] = Word(Host(s, q).kind, d)
        /\ Back(a, d).value = CountAt(Run(s)[q - 1])
  BY DEF ContainerHeld
<1>2. d \in 1 .. Len(b) /\ Back(b, d) = Back(a, d)
  BY <1>1 DEF Extends
<1> QED
  BY <1>1, <1>2 DEF ContainerHeld

\* The container that a token closes was opened before it.
LEMMA ClosesEarlier ==
  ASSUME NEW s, Len(s) \in Nat, NEW q \in 1 .. Len(s), CloserRead(Run(s), s, q)
  PROVE  Host(s, q).at \in 1 .. q - 1
<1>1. PICK st : st = Run(s)[q - 1]
  OBVIOUS
<1>2. q - 1 \in 0 .. Len(s)
  OBVIOUS
<1>3. IsState(st) /\ st.open # <<>>
  BY <1>1, <1>2, RunStates DEF CloserRead, CloserNext
<1>4. Depth(s, q - 1) # 0
  BY <1>1, <1>3, EmptySeq DEF Depth, IsState
<1> QED
  BY <1>4, HostFacts

\* What was read is no container, or one that stays open, or has its place.
LEMMA NothingClosed ==
  ASSUME NEW s, NEW n, NEW more, NEW W, NEW later, NEW bases, NEW new,
         NEW stk, NEW grown, NEW a, NEW b,
         Grows(s, n, more, W, later, bases, new, stk, grown, a, b),
         AstReads(s, W, bases, stk, a, n),
         \A q \in n + 1 .. more :
           /\ ScalarRead(Run(s), s, q) => ScalarHeld(s, later, b, q)
           /\ KeyRead(Run(s), s, q) => later[q] = Word("text", Payload("string", q))
           /\ ~CloserRead(Run(s), s, q)
           /\ IsItem(s, q) /\ ~IsOpen(s, more, q)
                => Placed(s, later, new, grown, b, more, q)
  PROVE  AstReads(s, later, new, grown, b, more)
<1> USE DEF Grows
<1>1. n \in 0 .. Len(s) /\ more \in n .. Len(s)
  BY DEF Onto
<1>2. \A q \in 1 .. more : q \in 1 .. n \/ q \in n + 1 .. more
  BY <1>1
<1>3. ASSUME NEW q \in 1 .. more, ScalarRead(Run(s), s, q)
      PROVE  ScalarHeld(s, later, b, q)
  <2>1. CASE q \in 1 .. n
    <3>1. ScalarHeld(s, W, a, q)
      BY <1>3, <2>1 DEF AstReads
    <3> QED
      BY <2>1, <3>1, ScalarStays
  <2> QED
    BY <1>2, <1>3, <2>1
<1>4. ASSUME NEW q \in 1 .. more, KeyRead(Run(s), s, q)
      PROVE  later[q] = Word("text", Payload("string", q))
  BY <1>2, <1>4 DEF AstReads
<1>5. ASSUME NEW q \in 1 .. more, CloserRead(Run(s), s, q)
      PROVE  ContainerHeld(s, later, b, q)
  <2>1. q \in 1 .. n /\ q \in 1 .. Len(s)
    BY <1>1, <1>2, <1>5
  <2>2. Host(s, q).at \in 1 .. q - 1
    BY <1>5, <2>1, ClosesEarlier
  <2>3. Host(s, q).at \in 1 .. n
    BY <1>1, <2>1, <2>2
  <2>4. ContainerHeld(s, W, a, q)
    BY <1>5, <2>1 DEF AstReads
  <2> QED
    BY <2>3, <2>4, ContainerStays
<1>6. ASSUME NEW q \in 1 .. more, IsItem(s, q), ~IsOpen(s, more, q)
      PROVE  Placed(s, later, new, grown, b, more, q)
  <2>1. CASE q \in 1 .. n
    <3>1. ~IsOpen(s, n, q)
      BY <1>6 DEF IsOpen, Onto
    <3>2. Placed(s, W, bases, stk, a, n, q)
      BY <1>6, <2>1, <3>1 DEF AstReads
    <3> QED
      BY <2>1, <3>2, ItemStays
  <2> QED
    BY <1>2, <1>6, <2>1
<1> QED
  BY <1>3, <1>4, <1>5, <1>6 DEF AstReads

-----------------------------------------------------------------------------
(***************************************************************************)
(* The parser follows the text.                                            *)
(***************************************************************************)

\* What is on the stack above the bottom of the innermost container.
Height(st) ==
  IF st.expects = "separator" THEN PlaceOf(Inner(st).kind, Inner(st).index)
  ELSE IF KeyNext(st) THEN 3 * Inner(st).index
  ELSE PlaceOf(Inner(st).kind, Inner(st).index) - 1

\* The parts of the stack, one for each container that is open.
BasesFit(st, bases, stk, base, type) ==
  /\ \A m \in 1 .. Len(st.open) : bases[m] \in Nat /\ bases[m] + 1 <= Len(stk)
  /\ \A m \in 2 .. Len(st.open) :
       /\ bases[m] =
            bases[m - 1] + PlaceOf(st.open[m - 1].kind, st.open[m - 1].index)
       /\ stk[bases[m] + 1] = Word(st.open[m - 1].kind, bases[m - 1])
  /\ IF st.open = <<>>
       THEN Len(stk) = 0
       ELSE /\ stk[bases[1] + 1].value = -1
            /\ base = bases[Len(st.open)] /\ type = Inner(st).kind
            /\ Len(stk) = base + 1 + Height(st)

ReadsOn(what, st) ==
  /\ what = "begin" => st = Outset
  /\ what = "next_element" => ValueNext(st) /\ st.open # <<>>
  /\ what = "object_key" => KeyNext(st)
  /\ what = "close_or_first" => st.expects = "first"
  /\ what = "close_or_comma" => st.expects = "separator" /\ st.open # <<>>

AstFollows(s, n, stk, a, base, type) ==
  /\ n \in 0 .. Len(s)
  /\ \E W, bases : /\ BasesFit(Run(s)[n], bases, stk, base, type)
                   /\ AstReads(s, W, bases, stk, a, n)

\* The text was read, and a is the AST of the whole of it.
AstHolds(s, a, type) ==
  /\ Len(s) # 0 /\ IsWhole(Run(s)[Len(s)])
  /\ \E W, bases, stk : /\ W[1] = Word(type, Len(a))
                        /\ AstReads(s, W, bases, stk, a, Len(s))

InText ==
  {"begin", "next_element", "object_key", "close_or_first", "close_or_comma"}

FollowInv ==
  /\ Len(text) \in Nat /\ p \in Nat \ {0}
  /\ label \in InText =>
       /\ AstFollows(text, p - 1, stack, ast, current_base, root_type)
       /\ ReadsOn(label, Run(text)[p - 1])
  /\ label = "accepted" => AstHolds(text, ast, root_type)

\* What the lemmas about a step start from.
StandsAt(s, n, st, bases, W) ==
  /\ s = text /\ Len(s) \in Nat /\ n \in Nat /\ n \in 0 .. Len(s) /\ p = n + 1
  /\ st = Run(s)[n] /\ IsState(st)
  /\ stack \in Seq(Words) /\ ast \in Seq(Words)
  /\ Len(stack) \in Nat /\ Len(ast) \in Nat
  /\ Depth(s, n) \in Nat /\ Depth(s, n) = Len(st.open)
  /\ BasesFit(st, bases, stack, current_base, root_type)
  /\ AstReads(s, W, bases, stack, ast, n)
  /\ ReadsOn(label, st)

LEMMA StandsSomewhere ==
  ASSUME ParserInv, FollowInv, label \in InText
  PROVE  \E s, n, st, bases, W : StandsAt(s, n, st, bases, W)
<1>1. PICK s : s = text
  OBVIOUS
<1>2. PICK n \in Nat : p = n + 1 /\ n = p - 1
  BY DEF FollowInv
<1>3. PICK st : st = Run(s)[n]
  OBVIOUS
<1>4. /\ AstFollows(s, n, stack, ast, current_base, root_type) /\ ReadsOn(label, st)
      /\ Len(s) \in Nat
  BY <1>1, <1>2, <1>3 DEF FollowInv
<1>5. n \in 0 .. Len(s)
  BY <1>4 DEF AstFollows
<1>6. PICK W, bases : /\ BasesFit(st, bases, stack, current_base, root_type)
                      /\ AstReads(s, W, bases, stack, ast, n)
  BY <1>3, <1>4 DEF AstFollows
<1>7. IsState(st)
  BY <1>3, <1>4, <1>5, RunStates
<1>8. stack \in Seq(Words) /\ ast \in Seq(Words)
  <2>1. CASE stack = <<>> /\ ast = <<>>
    BY <2>1
  <2>2. CASE \E U, parts : ParserFits(U, parts)
    BY <2>2 DEF ParserFits, ElementsFit
  <2> QED
    BY <2>1, <2>2 DEF ParserInv
<1>9. Len(stack) \in Nat /\ Len(ast) \in Nat
  BY <1>8, LenProperties
<1>10. Depth(s, n) = Len(st.open) /\ Len(st.open) \in Nat
  BY <1>3, <1>7, LenProperties DEF Depth, IsState
<1> QED
  BY <1>1, <1>2, <1>3, <1>4, <1>5, <1>6, <1>7, <1>8, <1>9, <1>10 DEF StandsAt

LEMMA TokenComes ==
  ASSUME NEW s, NEW n, NEW st, NEW bases, NEW W, StandsAt(s, n, st, bases, W),
         NEW token, Parser!Here(token)
  PROVE  Comes(s, n, p, st) /\ s[p] = token
BY DEF StandsAt, Comes, Parser!Here

\* Where the parts are does not change while no container opens or is closed.
LEMMA BasesOn ==
  ASSUME NEW st, NEW next, NEW depth \in Nat \ {0}, depth = Len(st.open),
         Len(next.open) = depth,
         \A m \in 1 .. depth - 1 : next.open[m] = st.open[m],
         Inner(next).kind = Inner(st).kind,
         NEW bases, NEW stk, NEW base, NEW type, BasesFit(st, bases, stk, base, type),
         NEW grown, Len(stk) \in Nat, Len(grown) \in Nat, Len(stk) <= Len(grown),
         \A k \in 1 .. Len(stk) : grown[k] = stk[k],
         Len(grown) = base + 1 + Height(next)
  PROVE  BasesFit(next, bases, grown, base, type)
<1>1. st.open # <<>> /\ next.open # <<>>
  OBVIOUS
<1>2. /\ stk[bases[1] + 1].value = -1
      /\ base = bases[depth] /\ type = Inner(st).kind
      /\ \A m \in 1 .. depth : bases[m] \in Nat /\ bases[m] + 1 <= Len(stk)
  BY <1>1 DEF BasesFit
<1>3. ASSUME NEW m \in 1 .. depth
      PROVE  /\ bases[m] + 1 \in 1 .. Len(stk) /\ bases[m] + 1 <= Len(grown)
             /\ bases[m] \in Nat /\ grown[bases[m] + 1] = stk[bases[m] + 1]
  <2>1. PICK place \in Nat : place = bases[m] /\ place + 1 <= Len(stk)
    BY <1>2
  <2>2. place + 1 \in 1 .. Len(stk) /\ place + 1 <= Len(grown)
    BY <2>1
  <2> QED
    BY <2>1, <2>2
<1>4. ASSUME NEW m \in 2 .. depth
      PROVE  /\ bases[m] = bases[m - 1]
                             + PlaceOf(next.open[m - 1].kind, next.open[m - 1].index)
             /\ grown[bases[m] + 1] = Word(next.open[m - 1].kind, bases[m - 1])
  <2>1. m - 1 \in 1 .. depth - 1 /\ m \in 1 .. depth
    OBVIOUS
  <2>2. next.open[m - 1] = st.open[m - 1] /\ grown[bases[m] + 1] = stk[bases[m] + 1]
    BY <1>3, <2>1
  <2> QED
    BY <2>2 DEF BasesFit
<1>5. 1 \in 1 .. depth
  OBVIOUS
<1> QED
  BY <1>1, <1>2, <1>3, <1>4, <1>5 DEF BasesFit

LEMMA BasesSame ==
  ASSUME NEW s, NEW n, NEW st, NEW bases, NEW W, StandsAt(s, n, st, bases, W),
         NEW more, Depth(s, more) = Depth(s, n)
  PROVE  SameBases(s, n, more, bases, bases, stack)
<1>1. PICK depth \in Nat : depth = Depth(s, n) /\ depth = Len(st.open)
  BY DEF StandsAt
<1>2. ASSUME NEW m \in 1 .. depth
      PROVE  bases[m] \in Nat /\ bases[m] <= Len(stack)
  <2>1. bases[m] \in Nat /\ bases[m] + 1 <= Len(stack) /\ Len(stack) \in Nat
    BY <1>1 DEF StandsAt, BasesFit
  <2> QED
    BY <2>1
<1> QED
  BY <1>1, <1>2 DEF SameBases

\* What is read next goes on top of the stack.
LEMMA SlotNext ==
  ASSUME NEW s, NEW n, NEW q, NEW st, Comes(s, n, q, st), st.open # <<>>,
         NEW bases, NEW stk, NEW base, NEW type, BasesFit(st, bases, stk, base, type),
         IF KeyRead(Run(s), s, q) THEN KeyNext(st) ELSE ValueNext(st)
  PROVE  Slot(s, bases, q) = Len(stk) + 1
<1>1. /\ Depth(s, q - 1) = Len(st.open) /\ Host(s, q) = Inner(st) /\ IsState(st)
      /\ Len(st.open) \in Nat
  BY ComesFacts DEF Depth, Host
<1>2. /\ base = bases[Len(st.open)] /\ Len(stk) = base + 1 + Height(st)
  BY DEF BasesFit
<1>3. PICK index \in Nat, kind \in Container :
        index = Inner(st).index /\ kind = Inner(st).kind
  BY <1>1, InnerFacts
<1>4. base \in Nat
  <2>1. Len(st.open) \in 1 .. Len(st.open)
    BY <1>1, InnerFacts
  <2> QED
    BY <1>2, <2>1 DEF BasesFit
<1>5. CASE KeyRead(Run(s), s, q)
  <2>1. KeyNext(st) /\ st.expects # "separator"
    BY <1>5 DEF KeyNext
  <2>2. Height(st) = 3 * index
    BY <1>3, <2>1 DEF Height
  <2>3. Slot(s, bases, q) = base + 1 + (3 * index + 1)
    BY <1>1, <1>2, <1>3, <1>5 DEF Slot, Place
  <2> QED
    BY <1>2, <1>4, <2>2, <2>3
<1>6. CASE ~KeyRead(Run(s), s, q)
  <2>1. ValueNext(st) /\ st.expects # "separator" /\ ~KeyNext(st)
    BY <1>6 DEF ValueNext, KeyNext
  <2>2. Height(st) = PlaceOf(kind, index) - 1
    BY <1>3, <2>1 DEF Height
  <2>3. Slot(s, bases, q) = base + 1 + PlaceOf(kind, index)
    BY <1>1, <1>2, <1>3, <1>6 DEF Slot, Place
  <2>4. PlaceOf(kind, index) \in Nat
    BY DEF PlaceOf
  <2> QED
    BY <1>2, <1>4, <2>2, <2>3, <2>4
<1> QED
  BY <1>5, <1>6

LEMMA ItemStacked ==
  ASSUME NEW s, NEW n, NEW q, NEW st, Comes(s, n, q, st), st.open # <<>>,
         NEW bases, NEW stk, NEW base, NEW type, BasesFit(st, bases, stk, base, type),
         IF KeyRead(Run(s), s, q) THEN KeyNext(st) ELSE ValueNext(st),
         NEW more, Depth(s, more) = Depth(s, n),
         Run(s)[more].open[Depth(s, n)].at = Inner(st).at,
         NEW grown, Len(stk) \in Nat, Len(grown) \in Nat, Len(stk) + 1 <= Len(grown),
         NEW W, grown[Len(stk) + 1] = W[q], NEW a
  PROVE  Placed(s, W, bases, grown, a, more, q)
<1>1. PICK depth \in Nat \ {0} : depth = Depth(s, n) /\ depth = Len(st.open)
  BY ComesFacts, InnerFacts
<1>2. Depth(s, q - 1) = depth /\ Host(s, q) = Inner(st)
  BY <1>1, ComesFacts DEF Host
<1>3. Slot(s, bases, q) = Len(stk) + 1
  BY SlotNext
<1>4. Ceiling(s, bases, grown, more, depth) = Len(grown)
  BY <1>1 DEF Ceiling
<1>5. OnStack(s, W, bases, grown, more, q)
  BY <1>2, <1>3, <1>4 DEF OnStack
<1>6. HostOpen(s, more, q)
  BY <1>1, <1>2 DEF HostOpen
<1> QED
  BY <1>1, <1>2, <1>5, <1>6 DEF Placed

LEMMA FirstFollows ==
  ASSUME ParserInv, FollowInv, Parser!First
  PROVE  FollowInv'
<1>1. /\ label = "close_or_first"
      /\ label' = IF root_type = "object" THEN "object_key" ELSE "next_element"
      /\ UNCHANGED <<text, p, stack, ast, current_base, root_type>>
  BY DEF Parser!First, Parser!AfterSeparator
<1>2. PICK s, n, st, bases, W : StandsAt(s, n, st, bases, W)
  BY <1>1, StandsSomewhere DEF InText
<1>3. /\ st.expects = "first" /\ IsState(st) /\ st = Run(text)[p - 1]
      /\ BasesFit(st, bases, stack, current_base, root_type)
  BY <1>1, <1>2 DEF StandsAt, ReadsOn
<1>4. st.open # <<>>
  BY <1>3 DEF IsState
<1>5. root_type = Inner(st).kind /\ Inner(st).kind \in Container
  BY <1>3, <1>4, InnerFacts DEF BasesFit
<1>6. ReadsOn(label', st)
  BY <1>1, <1>3, <1>4, <1>5, TokenNames DEF ReadsOn, ValueNext, KeyNext
<1>7. AstFollows(text, p - 1, stack, ast, current_base, root_type)
  BY <1>1 DEF FollowInv, InText
<1>8. label' # "accepted"
  BY <1>1
<1> QED
  BY <1>1, <1>3, <1>6, <1>7, <1>8 DEF FollowInv

LEMMA CommaFollows ==
  ASSUME ParserInv, FollowInv, Parser!Comma
  PROVE  FollowInv'
<1>1. /\ label = "close_or_comma" /\ p' = p + 1
      /\ label' = IF root_type = "object" THEN "object_key" ELSE "next_element"
      /\ UNCHANGED <<text, stack, ast, current_base, root_type>>
      /\ Parser!Here("comma")
  BY DEF Parser!Comma, Parser!AfterSeparator
<1>2. PICK s, n, st, bases, W : StandsAt(s, n, st, bases, W)
  BY <1>1, StandsSomewhere DEF InText
<1>3. PICK stk, a, base, type, q :
        stk = stack /\ a = ast /\ base = current_base /\ type = root_type /\ q = p
  OBVIOUS
<1>4. /\ s = text /\ n \in Nat /\ q = n + 1 /\ Len(s) \in Nat
      /\ st.expects = "separator" /\ st.open # <<>> /\ IsState(st)
      /\ Len(stk) \in Nat /\ Len(a) \in Nat
      /\ BasesFit(st, bases, stk, base, type) /\ AstReads(s, W, bases, stk, a, n)
      /\ Depth(s, n) = Len(st.open)
  BY <1>1, <1>2, <1>3 DEF StandsAt, ReadsOn
<1>5. Comes(s, n, q, st) /\ s[q] = "comma"
  BY <1>1, <1>2, <1>3, TokenComes
<1>6. PICK next, depth : next = Run(s)[q] /\ depth = Depth(s, n)
  OBVIOUS
<1>7. /\ ~IsWhole(st) /\ Onto(s, n, q)
      /\ next.expects = IF Inner(st).kind = "object" THEN "key" ELSE "value"
      /\ Depth(s, q) = depth /\ depth \in Nat \ {0}
      /\ \A m \in 1 .. depth - 1 : next.open[m] = st.open[m]
      /\ Inner(next).kind = Inner(st).kind
      /\ Inner(next).index = Inner(st).index + 1
      /\ ~IsItem(s, q) /\ ~CloserRead(Run(s), s, q)
  BY <1>4, <1>5, <1>6, CommaComes
<1>8. type = Inner(st).kind /\ Len(stk) = base + 1 + Height(st)
  BY <1>4 DEF BasesFit
<1>9. PICK index \in Nat : index = Inner(st).index /\ Inner(st).kind \in Container
  BY <1>4, InnerFacts
<1>10. Height(next) = Height(st)
  <2>1. Height(st) = PlaceOf(type, index)
    BY <1>4, <1>8, <1>9 DEF Height
  <2>2. next.expects \notin {"separator", "first"}
    BY <1>7
  <2>3. CASE type = "object"
    <3>1. KeyNext(next)
      BY <1>7, <1>8, <2>3 DEF KeyNext
    <3> QED
      BY <1>7, <1>8, <1>9, <2>1, <2>2, <2>3, <3>1 DEF Height, PlaceOf
  <2>4. CASE type # "object"
    <3>1. ~KeyNext(next)
      BY <1>7, <1>8, <2>4 DEF KeyNext
    <3> QED
      BY <1>7, <1>8, <1>9, <2>1, <2>2, <2>4, <3>1 DEF Height, PlaceOf
  <2> QED
    BY <2>3, <2>4
<1>11. BasesFit(next, bases, stk, base, type)
  <2>1. depth = Len(st.open) /\ Len(next.open) = depth /\ Len(stk) <= Len(stk)
    BY <1>4, <1>6, <1>7 DEF Depth
  <2>2. \A k \in 1 .. Len(stk) : stk[k] = stk[k]
    OBVIOUS
  <2>3. Len(stk) = base + 1 + Height(next)
    BY <1>8, <1>10
  <2> QED
    BY <1>4, <1>7, <2>1, <2>2, <2>3, BasesOn
<1>12. AstReads(s, W, bases, stk, a, q)
  <2>1. SameBases(s, n, q, bases, bases, stk)
    BY <1>2, <1>3, <1>6, <1>7, BasesSame
  <2>2. Grows(s, n, q, W, W, bases, bases, stk, stk, a, a)
    <3>1. Run(s)[n] = st
      BY <1>2 DEF StandsAt
    <3>2. Extends(a, a)
      BY <1>4 DEF Extends
    <3> QED
      BY <1>4, <1>7, <2>1, <3>1, <3>2 DEF Grows
  <2>3. n + 1 .. q = {q}
    BY <1>5, ComesFacts
  <2>4. ~ScalarRead(Run(s), s, q) /\ ~KeyRead(Run(s), s, q)
    BY <1>7 DEF IsItem
  <2>5. \A k \in n + 1 .. q :
          /\ ScalarRead(Run(s), s, k) => ScalarHeld(s, W, a, k)
          /\ KeyRead(Run(s), s, k) => W[k] = Word("text", Payload("string", k))
          /\ ~CloserRead(Run(s), s, k)
          /\ IsItem(s, k) /\ ~IsOpen(s, q, k)
               => Placed(s, W, bases, stk, a, q, k)
    BY <1>7, <2>3, <2>4
  <2> QED
    BY <1>4, <2>2, <2>5, NothingClosed
<1>13. ReadsOn(label', next)
  <2>1. next.open # <<>>
    BY <1>6, <1>7, EmptySeq DEF Depth
  <2> QED
    BY <1>1, <1>3, <1>7, <1>8, <1>9, <2>1, TokenNames DEF ReadsOn, ValueNext, KeyNext
<1>14. AstFollows(s, q, stk, a, base, type)
  BY <1>5, <1>6, <1>11, <1>12 DEF AstFollows, Comes
<1>15. p' - 1 = q /\ p' \in Nat \ {0}
  BY <1>1, <1>3, <1>4
<1>16. label' # "accepted"
  BY <1>1
<1>17. Len(text') \in Nat
  BY <1>1, <1>4
<1> QED
  BY <1>1, <1>3, <1>4, <1>6, <1>13, <1>14, <1>15, <1>16, <1>17 DEF FollowInv

LEMMA KeyFollows ==
  ASSUME ParserInv, FollowInv, Parser!ObjectKey, label' # "rejected"
  PROVE  FollowInv'
<1>1. /\ label = "object_key" /\ label' = "next_element" /\ p' = p + 2
      /\ Parser!Here("string") /\ p < Len(text) /\ text[p + 1] = "colon"
      /\ stack' = stack \o <<Parser!Held, Parser!Held>>
      /\ UNCHANGED <<text, ast, current_base, root_type>>
  BY DEF Parser!ObjectKey, Parser!Reject
<1>2. PICK s, n, st, bases, W : StandsAt(s, n, st, bases, W)
  BY <1>1, StandsSomewhere DEF InText
<1>3. PICK stk, a, base, type, q, more, grown :
        /\ stk = stack /\ a = ast /\ base = current_base /\ type = root_type
        /\ q = p /\ more = p + 1 /\ grown = stack'
  OBVIOUS
<1>4. /\ s = text /\ n \in Nat /\ q = n + 1 /\ Len(s) \in Nat
      /\ KeyNext(st) /\ IsState(st) /\ stk \in Seq(Words)
      /\ Len(stk) \in Nat /\ Len(a) \in Nat
      /\ BasesFit(st, bases, stk, base, type) /\ AstReads(s, W, bases, stk, a, n)
      /\ Depth(s, n) = Len(st.open)
  BY <1>1, <1>2, <1>3 DEF StandsAt, ReadsOn
<1>5. Comes(s, n, q, st) /\ s[q] = "string"
  BY <1>1, <1>2, <1>3, TokenComes
<1>6. more = q + 1 /\ more \in 1 .. Len(s) /\ s[more] = "colon"
  BY <1>1, <1>3, <1>4
<1>7. PICK next, depth : next = Run(s)[more] /\ depth = Depth(s, n)
  OBVIOUS
<1>8. /\ KeyRead(Run(s), s, q) /\ ~IsWhole(st) /\ Onto(s, n, more)
      /\ more - 1 = q /\ n + 1 .. more = {q, more} /\ q # more
      /\ next.open = st.open /\ next.expects = "value"
      /\ ~IsItem(s, more) /\ ~CloserRead(Run(s), s, more)
      /\ st.open # <<>> /\ Inner(st).kind = "object"
  BY <1>4, <1>5, <1>6, <1>7, KeyComes
<1>9. PICK held : held = Word("text", Payload("string", q))
  OBVIOUS
<1>10. /\ grown \in Seq(Words) /\ Len(grown) = Len(stk) + 2
       /\ \A k \in 1 .. Len(stk) : grown[k] = stk[k]
       /\ grown[Len(stk) + 1] = held
  <2>1. Parser!Held = held
    BY <1>1, <1>3, <1>9, SameAst DEF Parser!Held, Parser!Here
  <2>2. p \in Nat /\ "string" \in ScalarKind
    BY <1>3, <1>4, TokenNames
  <2>3. held \in Words /\ held.type = "text"
    BY <1>1, <2>1, <2>2, HeldType
  <2>4. grown = stk \o <<held, held>>
    BY <1>1, <1>3, <2>1
  <2>5. grown \in Seq(Words) /\ KeyPushed(stk, grown)
    BY <1>4, <2>3, <2>4, TwoMore
  <2>6. grown[Len(stk) + 1] = held
    <3>1. PICK both : both = <<held, held>>
      OBVIOUS
    <3>2. both \in Seq(Words) /\ Len(both) = 2 /\ both[1] = held
      BY <2>3, <3>1
    <3>3. /\ grown \in Seq(Words) /\ Len(grown) = Len(stk) + Len(both)
          /\ \A k \in 1 .. Len(stk) + Len(both) :
               grown[k] = IF k <= Len(stk) THEN stk[k] ELSE both[k - Len(stk)]
      <4>1. grown = stk \o both
        BY <2>4, <3>1
      <4>2. stk \in Seq(Words) /\ both \in Seq(Words)
        BY <1>4, <3>2
      <4> QED
        BY <4>1, <4>2, ConcatProperties
    <3>4. /\ Len(stk) + 1 \in 1 .. Len(stk) + 2 /\ ~(Len(stk) + 1 <= Len(stk))
          /\ Len(stk) + 1 - Len(stk) = 1
      BY <1>4
    <3>5. PICK top : top = Len(stk) + 1
      OBVIOUS
    <3>6. grown[top] = both[top - Len(stk)]
      BY <3>2, <3>3, <3>4, <3>5
    <3> QED
      BY <3>2, <3>4, <3>5, <3>6
  <2> QED
    BY <2>5, <2>6 DEF KeyPushed
<1>11. PICK later : later = [k \in 1 .. q |-> IF k = q THEN held ELSE W[k]]
  OBVIOUS
<1>12. later[q] = held /\ \A k \in 1 .. n : later[k] = W[k]
  BY <1>4, <1>11
<1>13. type = Inner(st).kind /\ Len(stk) = base + 1 + Height(st)
  BY <1>4, <1>8 DEF BasesFit
<1>14. PICK index \in Nat : index = Inner(st).index
  BY <1>4, <1>8, InnerFacts
<1>15. depth \in Nat \ {0} /\ depth = Len(st.open) /\ Depth(s, more) = depth
  BY <1>4, <1>7, <1>8, InnerFacts DEF Depth
<1>16. base \in Nat
  <2>1. depth \in 1 .. Len(st.open) /\ base = bases[depth]
    BY <1>4, <1>8, <1>15 DEF BasesFit
  <2> QED
    BY <1>4, <2>1 DEF BasesFit
<1>17. BasesFit(next, bases, grown, base, type)
  <2>1. Height(st) = 3 * index
    BY <1>4, <1>14 DEF Height, KeyNext
  <2>2. Inner(next) = Inner(st) /\ ~KeyNext(next)
    BY <1>8 DEF Inner, KeyNext
  <2>3. Height(next) = 3 * index + 2
    BY <1>8, <1>14, <2>2 DEF Height, PlaceOf
  <2>4. Len(grown) = base + 1 + Height(next)
    BY <1>10, <1>13, <1>14, <1>16, <2>1, <2>3
  <2>5. /\ Len(grown) \in Nat /\ Len(stk) <= Len(grown)
        /\ Len(next.open) = depth /\ Inner(next).kind = Inner(st).kind
        /\ \A m \in 1 .. depth - 1 : next.open[m] = st.open[m]
    BY <1>4, <1>8, <1>10, <1>15, <2>2
  <2> QED
    BY <1>4, <1>10, <1>15, <2>4, <2>5, BasesOn
<1>18. AstReads(s, later, bases, grown, a, more)
  <2>1. SameBases(s, n, more, bases, bases, stk)
    BY <1>2, <1>3, <1>7, <1>15, BasesSame
  <2>2. Run(s)[n] = st
    BY <1>2 DEF StandsAt
  <2>3. Grows(s, n, more, W, later, bases, bases, stk, grown, a, a)
    <3>1. Extends(a, a)
      BY <1>4 DEF Extends
    <3>2. Len(grown) \in Nat /\ Len(stk) <= Len(grown)
      BY <1>4, <1>10
    <3> QED
      BY <1>4, <1>8, <1>10, <1>12, <2>1, <2>2, <3>1, <3>2 DEF Grows
  <2>4. Placed(s, later, bases, grown, a, more, q)
    <3>1. Run(s)[more].open[depth].at = Inner(st).at
      BY <1>4, <1>7, <1>8, <1>15, InnerFacts
    <3>2. Len(grown) \in Nat /\ Len(stk) + 1 <= Len(grown)
      BY <1>4, <1>10
    <3>3. /\ Comes(s, n, q, st) /\ st.open # <<>>
          /\ BasesFit(st, bases, stk, base, type)
          /\ IF KeyRead(Run(s), s, q) THEN KeyNext(st) ELSE ValueNext(st)
          /\ Depth(s, more) = Depth(s, n)
          /\ Run(s)[more].open[Depth(s, n)].at = Inner(st).at
          /\ Len(stk) \in Nat /\ grown[Len(stk) + 1] = later[q]
      BY <1>4, <1>5, <1>7, <1>8, <1>10, <1>12, <1>15, <3>1
    <3> QED
      BY <3>2, <3>3, ItemStacked
  <2>5. ~ScalarRead(Run(s), s, q) /\ ~CloserRead(Run(s), s, q)
    BY <1>4, <1>5, <1>8, ReadOnce DEF Comes
  <2>6. ~ScalarRead(Run(s), s, more) /\ ~KeyRead(Run(s), s, more)
    BY <1>8 DEF IsItem
  <2>7. \A k \in n + 1 .. more :
          /\ ScalarRead(Run(s), s, k) => ScalarHeld(s, later, a, k)
          /\ KeyRead(Run(s), s, k) => later[k] = Word("text", Payload("string", k))
          /\ ~CloserRead(Run(s), s, k)
          /\ IsItem(s, k) /\ ~IsOpen(s, more, k)
               => Placed(s, later, bases, grown, a, more, k)
    BY <1>8, <1>9, <1>12, <2>4, <2>5, <2>6
  <2> QED
    BY <1>4, <2>3, <2>7, NothingClosed
<1>19. ReadsOn("next_element", next)
  BY <1>8 DEF ReadsOn, ValueNext
<1>20. AstFollows(s, more, grown, a, base, type)
  <2>1. more \in 0 .. Len(s)
    BY <1>6
  <2> QED
    BY <1>7, <1>17, <1>18, <2>1 DEF AstFollows
<1>21. p' - 1 = more /\ p' \in Nat \ {0}
  BY <1>1, <1>3, <1>4
<1>22. Len(text') \in Nat /\ label' # "accepted" /\ label' = "next_element"
  BY <1>1, <1>4
<1> QED
  BY <1>1, <1>3, <1>4, <1>7, <1>19, <1>20, <1>21, <1>22 DEF FollowInv

LEMMA ScalarFollows ==
  ASSUME ParserInv, FollowInv, label = "next_element",
         NEW kind \in ScalarKind, Parser!Here(kind),
         NEW words \in Seq(Words),
         kind \notin AtomKind =>
           Len(words) >= 1 /\ words[1].value = Payload(kind, p),
         TypeIn[kind] \in SajsonType,
         Parser!ScalarElement(TypeIn[kind], words)
  PROVE  FollowInv'
<1>1. /\ label' = "close_or_comma" /\ p' = p + 1
      /\ ast' = words \o ast
      /\ stack' = Append(stack, Word(TypeIn[kind], Len(ast')))
      /\ UNCHANGED <<text, current_base, root_type>>
  BY SameAst DEF Parser!ScalarElement, Parser!Push
<1>2. PICK s, n, st, bases, W : StandsAt(s, n, st, bases, W)
  BY StandsSomewhere DEF InText
<1>3. PICK stk, a, base, type, q, grown, b :
        /\ stk = stack /\ a = ast /\ base = current_base /\ type = root_type
        /\ q = p /\ grown = stack' /\ b = ast'
  OBVIOUS
<1>4. /\ s = text /\ n \in Nat /\ q = n + 1 /\ Len(s) \in Nat
      /\ ValueNext(st) /\ IsState(st) /\ st.open # <<>>
      /\ stk \in Seq(Words) /\ a \in Seq(Words)
      /\ Len(stk) \in Nat /\ Len(a) \in Nat
      /\ BasesFit(st, bases, stk, base, type) /\ AstReads(s, W, bases, stk, a, n)
      /\ Depth(s, n) = Len(st.open) /\ Run(s)[n] = st
  BY <1>2, <1>3 DEF StandsAt, ReadsOn
<1>5. Comes(s, n, q, st) /\ s[q] = kind
  BY <1>2, <1>3, TokenComes
<1>6. PICK next, depth : next = Run(s)[q] /\ depth = Depth(s, n)
  OBVIOUS
<1>7. /\ ScalarRead(Run(s), s, q) /\ ~IsWhole(st) /\ Onto(s, n, q)
      /\ next.open = st.open /\ next.expects = "separator"
  BY <1>4, <1>5, <1>6, ScalarComes
<1>8. PICK size : size = Len(b)
  OBVIOUS
<1>9. PICK w : w = Word(TypeIn[kind], size)
  OBVIOUS
<1>10. /\ Len(b) = Len(words) + Len(a) /\ Len(words) \in Nat
       /\ \A k \in 1 .. Len(words) : b[k] = words[k]
       /\ \A d \in 1 .. Len(a) : Back(b, d) = Back(a, d)
  <2>1. b = words \o a /\ a \in Seq(Words)
    BY <1>1, <1>3, <1>4
  <2> QED
    BY <2>1, FrontUnseen
<1>11. size \in Nat /\ Extends(a, b)
  BY <1>4, <1>8, <1>10 DEF Extends
<1>12. /\ Len(grown) = Len(stk) + 1 /\ grown[Len(stk) + 1] = w
       /\ \A k \in 1 .. Len(stk) : grown[k] = stk[k]
  <2>1. w \in Words
    BY <1>9, <1>11 DEF Word, Words
  <2>2. grown = Append(stk, w)
    BY <1>1, <1>3, <1>8, <1>9
  <2>3. Pushed(stk, w, grown)
    BY <1>4, <2>1, <2>2, OneMore
  <2> QED
    BY <2>3 DEF Pushed
<1>13. PICK later : later = [k \in 1 .. q |-> IF k = q THEN w ELSE W[k]]
  OBVIOUS
<1>14. later[q] = w /\ \A k \in 1 .. n : later[k] = W[k]
  BY <1>4, <1>13
<1>15. type = Inner(st).kind /\ Len(stk) = base + 1 + Height(st)
  BY <1>4 DEF BasesFit
<1>16. PICK index \in Nat : index = Inner(st).index /\ Inner(st).kind \in Container
  BY <1>4, InnerFacts
<1>17. depth \in Nat \ {0} /\ depth = Len(st.open) /\ Depth(s, q) = depth
  BY <1>4, <1>6, <1>7, InnerFacts DEF Depth
<1>18. base \in Nat
  <2>1. depth \in 1 .. Len(st.open) /\ base = bases[depth]
    BY <1>4, <1>17 DEF BasesFit
  <2> QED
    BY <1>4, <2>1 DEF BasesFit
<1>19. BasesFit(next, bases, grown, base, type)
  <2>1. ~KeyNext(st) /\ st.expects # "separator"
    BY <1>4 DEF KeyNext, ValueNext
  <2>2. Height(st) = PlaceOf(type, index) - 1
    BY <1>15, <1>16, <2>1 DEF Height
  <2>3. Inner(next) = Inner(st)
    BY <1>7 DEF Inner
  <2>4. Height(next) = PlaceOf(type, index)
    BY <1>7, <1>15, <1>16, <2>3 DEF Height
  <2>5. PlaceOf(type, index) \in Nat
    BY <1>16 DEF PlaceOf
  <2>6. Len(grown) = base + 1 + Height(next)
    BY <1>12, <1>15, <1>18, <2>2, <2>4, <2>5
  <2>7. /\ Len(grown) \in Nat /\ Len(stk) <= Len(grown)
        /\ Len(next.open) = depth /\ Inner(next).kind = Inner(st).kind
        /\ \A m \in 1 .. depth - 1 : next.open[m] = st.open[m]
    BY <1>4, <1>7, <1>12, <1>17, <2>3
  <2> QED
    BY <1>4, <1>12, <1>17, <2>6, <2>7, BasesOn
<1>20. ScalarHeld(s, later, b, q)
  <2>1. size \in 0 .. Len(b) /\ later[q] = Word(TypeIn[s[q]], size)
    BY <1>5, <1>8, <1>9, <1>11, <1>14
  <2>2. ASSUME kind \notin AtomKind
        PROVE  size # 0 /\ Back(b, size).value = Payload(kind, q)
    <3>1. Len(words) >= 1 /\ words[1].value = Payload(kind, q)
      BY <1>3, <2>2
    <3>2. size # 0 /\ 1 \in 1 .. Len(words) /\ Len(b) - size + 1 = 1
      BY <1>4, <1>8, <1>10, <3>1
    <3>3. b[1] = words[1]
      BY <1>10, <3>2
    <3> QED
      BY <3>1, <3>2, <3>3 DEF Back
  <2> QED
    BY <1>5, <2>1, <2>2 DEF ScalarHeld
<1>21. AstReads(s, later, bases, grown, b, q)
  <2>1. SameBases(s, n, q, bases, bases, stk)
    BY <1>2, <1>3, <1>6, <1>17, BasesSame
  <2>2. Len(grown) \in Nat /\ Len(stk) <= Len(grown) /\ Len(stk) + 1 <= Len(grown)
    BY <1>4, <1>12
  <2>3. Grows(s, n, q, W, later, bases, bases, stk, grown, a, b)
    BY <1>4, <1>7, <1>11, <1>12, <1>14, <2>1, <2>2 DEF Grows
  <2>4. ~KeyRead(Run(s), s, q) /\ ~CloserRead(Run(s), s, q)
    BY <1>4, <1>5, <1>7, ReadOnce DEF Comes
  <2>5. Placed(s, later, bases, grown, b, q, q)
    <3>1. next.open[depth].at = Inner(st).at
      BY <1>4, <1>7, <1>17, InnerFacts
    <3>2. /\ Comes(s, n, q, st) /\ st.open # <<>>
          /\ BasesFit(st, bases, stk, base, type)
          /\ IF KeyRead(Run(s), s, q) THEN KeyNext(st) ELSE ValueNext(st)
          /\ Depth(s, q) = Depth(s, n)
          /\ Run(s)[q].open[Depth(s, n)].at = Inner(st).at
          /\ Len(stk) \in Nat /\ grown[Len(stk) + 1] = later[q]
      BY <1>4, <1>5, <1>6, <1>12, <1>14, <1>17, <2>4, <3>1
    <3> QED
      BY <2>2, <3>2, ItemStacked
  <2>6. n + 1 .. q = {q}
    BY <1>5, ComesFacts
  <2>7. \A k \in n + 1 .. q :
          /\ ScalarRead(Run(s), s, k) => ScalarHeld(s, later, b, k)
          /\ KeyRead(Run(s), s, k) => later[k] = Word("text", Payload("string", k))
          /\ ~CloserRead(Run(s), s, k)
          /\ IsItem(s, k) /\ ~IsOpen(s, q, k)
               => Placed(s, later, bases, grown, b, q, k)
    BY <1>20, <2>4, <2>5, <2>6
  <2> QED
    BY <1>4, <2>3, <2>7, NothingClosed
<1>22. ReadsOn("close_or_comma", next)
  BY <1>4, <1>7 DEF ReadsOn
<1>23. AstFollows(s, q, grown, b, base, type)
  <2>1. q \in 0 .. Len(s)
    BY <1>5, ComesFacts
  <2> QED
    BY <1>6, <1>19, <1>21, <2>1 DEF AstFollows
<1>24. p' - 1 = q /\ p' \in Nat \ {0}
  BY <1>1, <1>3, <1>4
<1>25. Len(text') \in Nat /\ label' # "accepted" /\ label' = "close_or_comma"
  BY <1>1, <1>4
<1> QED
  BY <1>1, <1>3, <1>4, <1>6, <1>22, <1>23, <1>24, <1>25 DEF FollowInv

LEMMA ElementFollows ==
  ASSUME ParserInv, FollowInv,
         Parser!AtomElement \/ Parser!NumberElement \/ Parser!StringElement
  PROVE  FollowInv'
<1>1. label = "next_element" /\ p \in Nat
  BY DEF Parser!AtomElement, Parser!NumberElement, Parser!StringElement,
         Parser!NextElement, ParserInv
<1>2. CASE Parser!AtomElement
  <2>1. PICK kind \in AtomKind : Parser!Here(kind) /\ Parser!ScalarElement(kind, <<>>)
    BY <1>2 DEF Parser!AtomElement, Parser!AtomKind, AtomKind
  <2>2. kind \in ScalarKind /\ TypeIn[kind] = kind /\ kind \in SajsonType
    BY DEF ScalarKind, TypeIn, NumberKind, AtomKind, SajsonType
  <2>3. PICK words \in Seq(Words) : words = <<>>
    BY EmptySeq
  <2> QED
    BY <1>1, <2>1, <2>2, <2>3, ScalarFollows
<1>3. CASE Parser!NumberElement
  <2>1. PICK kind \in NumberKind :
          /\ Parser!Here(kind)
          /\ Parser!ScalarElement(Parser!NumberType[kind], <<Parser!Held>>)
    BY <1>3 DEF Parser!NumberElement, Parser!NumberKind, NumberKind
  <2>2. /\ kind \in ScalarKind /\ TypeIn[kind] = Parser!NumberType[kind]
        /\ TypeIn[kind] \in SajsonType
    BY DEF ScalarKind, TypeIn, NumberKind, Parser!NumberType, SajsonType
  <2>3. PICK words : words = <<Parser!Held>>
    OBVIOUS
  <2>4. Parser!Held \in Words /\ Parser!Held.value = Payload(kind, p)
    <3>1. Parser!Held = Word("text", Payload(kind, p))
      BY <2>1, SameAst DEF Parser!Held, Parser!Here
    <3> QED
      BY <1>1, <2>1, <2>2, <3>1, HeldType DEF Word
  <2>5. words \in Seq(Words) /\ Len(words) >= 1 /\ words[1].value = Payload(kind, p)
    BY <2>3, <2>4
  <2>6. Parser!ScalarElement(TypeIn[kind], words)
    BY <2>1, <2>2, <2>3
  <2> QED
    BY <1>1, <2>1, <2>2, <2>5, <2>6, ScalarFollows
<1>4. CASE Parser!StringElement
  <2>1. /\ Parser!Here("string")
        /\ Parser!ScalarElement("string", <<Parser!Held, Parser!Held>>)
    BY <1>4 DEF Parser!StringElement
  <2>2. /\ "string" \in ScalarKind /\ TypeIn["string"] = "string"
        /\ "string" \in SajsonType
    BY DEF ScalarKind, TypeIn, NumberKind, SajsonType
  <2>3. PICK words : words = <<Parser!Held, Parser!Held>>
    OBVIOUS
  <2>4. Parser!Held \in Words /\ Parser!Held.value = Payload("string", p)
    <3>1. Parser!Held = Word("text", Payload("string", p))
      BY <2>1, SameAst DEF Parser!Held, Parser!Here
    <3> QED
      BY <1>1, <2>1, <2>2, <3>1, HeldType DEF Word
  <2>5. words \in Seq(Words) /\ Len(words) >= 1 /\ words[1].value = Payload("string", p)
    BY <2>3, <2>4
  <2>6. Parser!ScalarElement(TypeIn["string"], words)
    BY <2>1, <2>2, <2>3
  <2> QED
    BY <1>1, <2>1, <2>2, <2>5, <2>6, ScalarFollows
<1> QED
  BY <1>2, <1>3, <1>4

\* A part is added to the stack for a container that was opened.
OpensPart(st, next, depth, kind, bases, stk, base, type, bottom, size, grown, new) ==
  /\ IsState(st) /\ depth \in Nat /\ depth = Len(st.open) /\ ValueNext(st)
  /\ Len(next.open) = depth + 1 /\ next.expects = "first"
  /\ \A m \in 1 .. depth : next.open[m] = st.open[m]
  /\ kind \in Container /\ next.open[depth + 1].kind = kind
  /\ next.open[depth + 1].index = 0 /\ Inner(next) = next.open[depth + 1]
  /\ BasesFit(st, bases, stk, base, type)
  /\ IF depth = 0 THEN bottom.value = -1 ELSE bottom = Word(type, base)
  /\ Pushed(stk, bottom, grown) /\ size = Len(stk) /\ size \in Nat
  /\ new[depth + 1] = size /\ \A m \in 1 .. depth : new[m] = bases[m]

\* The bottom of a new part has the part below it.
LEMMA BasesOpen ==
  ASSUME NEW st, NEW next, NEW depth, NEW kind, NEW bases, NEW stk, NEW base,
         NEW type, NEW bottom, NEW size, NEW grown, NEW new,
         OpensPart(st, next, depth, kind, bases, stk, base, type, bottom, size, grown, new)
  PROVE  BasesFit(next, new, grown, size, kind)
<1> USE DEF OpensPart
<1>1. /\ Len(grown) = Len(stk) + 1 /\ grown[Len(stk) + 1] = bottom
      /\ \A k \in 1 .. Len(stk) : grown[k] = stk[k]
  BY DEF Pushed
<1>2. /\ new[depth + 1] = Len(stk)
      /\ \A m \in 1 .. depth : new[m] = bases[m]
  OBVIOUS
<1>3. ASSUME NEW m \in 1 .. depth
      PROVE  /\ new[m] \in Nat /\ new[m] + 1 <= Len(stk) /\ new[m] = bases[m]
             /\ new[m] + 1 <= Len(grown) /\ grown[new[m] + 1] = stk[new[m] + 1]
  <2>1. PICK place \in Nat : place = bases[m] /\ place + 1 <= Len(stk)
    BY DEF BasesFit
  <2>2. place + 1 \in 1 .. Len(stk)
    BY <2>1
  <2>3. grown[place + 1] = stk[place + 1]
    BY <1>1, <2>2
  <2> QED
    BY <1>1, <1>2, <2>1, <2>3
<1>4. ASSUME NEW m \in 1 .. depth + 1
      PROVE  new[m] \in Nat /\ new[m] + 1 <= Len(grown)
  <2>1. CASE m = depth + 1
    BY <1>1, <1>2, <2>1
  <2>2. CASE m # depth + 1
    <3>1. m \in 1 .. depth
      BY <2>2
    <3> QED
      BY <1>3, <3>1
  <2> QED
    BY <2>1, <2>2
<1>5. ASSUME NEW m \in 2 .. depth + 1
      PROVE  /\ new[m] = new[m - 1]
                           + PlaceOf(next.open[m - 1].kind, next.open[m - 1].index)
             /\ grown[new[m] + 1] = Word(next.open[m - 1].kind, new[m - 1])
  <2>1. m - 1 \in 1 .. depth
    OBVIOUS
  <2>2. next.open[m - 1] = st.open[m - 1] /\ new[m - 1] = bases[m - 1]
    BY <1>2, <2>1
  <2>3. CASE m = depth + 1
    <3>1. depth # 0 /\ m - 1 = depth /\ st.open # <<>>
      BY <2>3
    <3>2. /\ base = bases[depth] /\ type = Inner(st).kind
          /\ Len(stk) = base + 1 + Height(st)
      BY <3>1 DEF BasesFit
    <3>3. PICK index \in Nat : /\ index = Inner(st).index /\ Inner(st).kind \in Container
                               /\ Inner(st) = st.open[depth]
      BY <3>1, InnerFacts
    <3>4. Height(st) = PlaceOf(type, index) - 1
      BY <3>2, <3>3 DEF Height, ValueNext, KeyNext
    <3>5. PlaceOf(type, index) \in Nat
      BY DEF PlaceOf
    <3>6. base \in Nat
      BY <3>1, <3>2, <1>3, <2>1
    <3>7. Len(stk) = base + PlaceOf(type, index)
      <4>1. PICK place \in Nat : place = PlaceOf(type, index)
        BY <3>5
      <4>2. Len(stk) = base + 1 + (place - 1)
        BY <3>2, <3>4, <4>1
      <4> QED
        BY <3>6, <4>1, <4>2
    <3>8. bottom = Word(type, base)
      BY <3>1
    <3> QED
      BY <1>1, <1>2, <2>2, <2>3, <3>1, <3>2, <3>3, <3>7, <3>8
  <2>4. CASE m # depth + 1
    <3>1. m \in 2 .. depth /\ m \in 1 .. depth
      BY <2>4
    <3>2. /\ bases[m] = bases[m - 1] + PlaceOf(st.open[m - 1].kind, st.open[m - 1].index)
          /\ stk[bases[m] + 1] = Word(st.open[m - 1].kind, bases[m - 1])
      BY <3>1 DEF BasesFit
    <3>3. new[m] = bases[m] /\ grown[new[m] + 1] = stk[new[m] + 1]
      BY <1>3, <3>1
    <3> QED
      BY <2>2, <3>2, <3>3, Zenon
  <2> QED
    BY <2>3, <2>4
<1>6. grown[new[1] + 1].value = -1
  <2>1. CASE depth = 0
    BY <1>1, <1>2, <2>1
  <2>2. CASE depth # 0
    <3>1. 1 \in 1 .. depth /\ st.open # <<>>
      BY <2>2
    <3>2. stk[bases[1] + 1].value = -1
      BY <3>1 DEF BasesFit
    <3>3. new[1] = bases[1] /\ grown[new[1] + 1] = stk[new[1] + 1]
      BY <1>3, <3>1
    <3> QED
      BY <3>2, <3>3, Zenon
  <2> QED
    BY <2>1, <2>2
<1>7. Len(grown) = Len(stk) + 1 + Height(next)
  <2>1. Height(next) = 0
    BY DEF Height, PlaceOf, KeyNext, Container
  <2> QED
    BY <1>1, <2>1
<1>8. next.open # <<>> /\ Inner(next).kind = kind
  OBVIOUS
<1> QED
  BY <1>2, <1>4, <1>5, <1>6, <1>7, <1>8 DEF BasesFit

LEMMA OpenFollows ==
  ASSUME ParserInv, FollowInv, label \in {"begin", "next_element"},
         NEW kind \in Container, NEW bottom,
         IF label = "begin" THEN bottom = Word(kind, -1)
                            ELSE bottom = Word(root_type, current_base),
         bottom \in Words, Parser!Open(kind, bottom)
  PROVE  FollowInv'
<1>1. /\ label' = "close_or_first" /\ p' = p + 1
      /\ Parser!Here(Opener[kind])
      /\ current_base' = Len(stack) /\ root_type' = kind
      /\ stack' = Append(stack, bottom)
      /\ UNCHANGED <<text, ast>>
  BY DEF Parser!Open, Parser!Opener, Opener
<1>2. PICK s, n, st, bases, W : StandsAt(s, n, st, bases, W)
  BY StandsSomewhere DEF InText
<1>3. PICK stk, a, base, type, q, grown :
        /\ stk = stack /\ a = ast /\ base = current_base /\ type = root_type
        /\ q = p /\ grown = stack'
  OBVIOUS
<1>4. /\ s = text /\ n \in Nat /\ q = n + 1 /\ Len(s) \in Nat
      /\ IsState(st)
      /\ stk \in Seq(Words) /\ Len(stk) \in Nat /\ Len(a) \in Nat
      /\ BasesFit(st, bases, stk, base, type) /\ AstReads(s, W, bases, stk, a, n)
      /\ Depth(s, n) = Len(st.open) /\ Depth(s, n) \in Nat /\ Run(s)[n] = st
      /\ ReadsOn(label, st)
  BY <1>2, <1>3 DEF StandsAt
<1>5. ValueNext(st) /\ (IF label = "begin" THEN st.open = <<>> ELSE st.open # <<>>)
  BY <1>4 DEF ReadsOn, Outset, ValueNext
<1>6. Comes(s, n, q, st) /\ s[q] = Opener[kind]
  BY <1>1, <1>2, <1>3, TokenComes
<1>7. PICK next, depth : next = Run(s)[q] /\ depth = Depth(s, n)
  OBVIOUS
<1>8. /\ BracketRead(Run(s), s, q) /\ ~IsWhole(st) /\ Onto(s, n, q)
      /\ next = Deeper(st, kind, q)
      /\ next.expects = "first" /\ Depth(s, q) = depth + 1
      /\ \A m \in 1 .. depth : next.open[m] = st.open[m]
      /\ next.open[depth + 1] = [at |-> q, kind |-> kind, index |-> 0]
      /\ IsOpen(s, q, q)
  BY <1>5, <1>6, <1>7, BracketComes
<1>9. Pushed(stk, bottom, grown)
  BY <1>1, <1>3, <1>4, OneMore
<1>10. PICK new : new = [m \in 1 .. depth + 1 |->
                           IF m = depth + 1 THEN Len(stk) ELSE bases[m]]
  OBVIOUS
<1>11. /\ Len(grown) = Len(stk) + 1
       /\ \A k \in 1 .. Len(stk) : grown[k] = stk[k]
  BY <1>9 DEF Pushed
<1>12. depth \in Nat /\ depth = Len(st.open) /\ Len(next.open) = depth + 1
  BY <1>4, <1>7, <1>8 DEF Depth
<1>13. BasesFit(next, new, grown, Len(stk), kind)
  <2>1. IF depth = 0 THEN bottom.value = -1 ELSE bottom = Word(type, base)
    <3>1. depth = 0 <=> label = "begin"
      BY <1>4, <1>5, <1>12, EmptySeq DEF IsState
    <3> QED
      BY <1>3, <3>1 DEF Word
  <2>2. Inner(next) = next.open[depth + 1]
    <3>1. Inner(Deeper(st, kind, q)) = [at |-> q, kind |-> kind, index |-> 0]
      BY <1>4, <1>6, ComesFacts, DeeperState
    <3> QED
      BY <1>8, <3>1
  <2>3. next.open[depth + 1].kind = kind /\ next.open[depth + 1].index = 0
    BY <1>8
  <2>4. IsState(st) /\ ValueNext(st) /\ BasesFit(st, bases, stk, base, type)
    BY <1>4, <1>5
  <2>5. /\ next.expects = "first" /\ Len(stk) \in Nat
        /\ \A m \in 1 .. depth : next.open[m] = st.open[m]
    BY <1>4, <1>8
  <2>6. new[depth + 1] = Len(stk) /\ \A m \in 1 .. depth : new[m] = bases[m]
    BY <1>10, <1>12
  <2>7. PICK size : size = Len(stk)
    OBVIOUS
  <2>8. /\ size = Len(stk) /\ size \in Nat /\ new[depth + 1] = size
        /\ \A m \in 1 .. depth : new[m] = bases[m]
    BY <2>5, <2>6, <2>7
  <2>9. OpensPart(st, next, depth, kind, bases, stk, base, type, bottom, size, grown, new)
    BY <1>9, <1>12, <2>1, <2>2, <2>3, <2>4, <2>5, <2>8 DEF OpensPart
  <2>10. BasesFit(next, new, grown, size, kind)
    BY <2>9, BasesOpen
  <2> QED
    BY <2>7, <2>10
<1>14. AstReads(s, W, new, grown, a, q)
  <2>1. SameBases(s, n, q, bases, new, stk)
    <3>1. ASSUME NEW m \in 1 .. depth
          PROVE  bases[m] \in Nat /\ bases[m] <= Len(stk) /\ new[m] = bases[m]
      <4>1. bases[m] \in Nat /\ bases[m] + 1 <= Len(stk)
        BY <1>4, <1>12 DEF BasesFit
      <4>2. m \in 1 .. depth + 1 /\ m # depth + 1
        BY <1>12
      <4>3. new[m] = bases[m]
        BY <1>10, <4>2
      <4> QED
        BY <1>4, <4>1, <4>3
    <3>2. new[depth + 1] = Len(stk)
      BY <1>10, <1>12
    <3> QED
      BY <1>4, <1>7, <3>1, <3>2 DEF SameBases
  <2>2. Len(grown) \in Nat /\ Len(stk) <= Len(grown)
    BY <1>4, <1>11
  <2>3. Grows(s, n, q, W, W, bases, new, stk, grown, a, a)
    <3>1. Extends(a, a)
      BY <1>4 DEF Extends
    <3> QED
      BY <1>4, <1>8, <1>11, <2>1, <2>2, <3>1 DEF Grows
  <2>4. ~ScalarRead(Run(s), s, q) /\ ~KeyRead(Run(s), s, q) /\ ~CloserRead(Run(s), s, q)
    BY <1>4, <1>6, <1>8, ReadOnce DEF Comes
  <2>5. n + 1 .. q = {q}
    BY <1>6, ComesFacts
  <2>6. \A k \in n + 1 .. q :
          /\ ScalarRead(Run(s), s, k) => ScalarHeld(s, W, a, k)
          /\ KeyRead(Run(s), s, k) => W[k] = Word("text", Payload("string", k))
          /\ ~CloserRead(Run(s), s, k)
          /\ IsItem(s, k) /\ ~IsOpen(s, q, k)
               => Placed(s, W, new, grown, a, q, k)
    BY <1>8, <2>4, <2>5
  <2> QED
    BY <1>4, <2>3, <2>6, NothingClosed
<1>15. ReadsOn("close_or_first", next)
  BY <1>8 DEF ReadsOn
<1>16. AstFollows(s, q, grown, a, Len(stk), kind)
  <2>1. q \in 0 .. Len(s)
    BY <1>6, ComesFacts
  <2> QED
    BY <1>7, <1>13, <1>14, <2>1 DEF AstFollows
<1>17. p' - 1 = q /\ p' \in Nat \ {0}
  BY <1>1, <1>3, <1>4
<1>18. Len(text') \in Nat /\ label' # "accepted" /\ label' = "close_or_first"
  BY <1>1, <1>4
<1> QED
  BY <1>1, <1>3, <1>4, <1>7, <1>15, <1>16, <1>17, <1>18 DEF FollowInv

\* A container is closed: it is in the AST, and so is what it holds.
Closes(s, n, q, o, depth, st, next, bases, stk, base, type) ==
  /\ Comes(s, n, q, st) /\ CloserRead(Run(s), s, q) /\ next = Run(s)[q]
  /\ IsState(next) /\ next.expects = "separator"
  /\ depth \in Nat \ {0} /\ Depth(s, n) = depth /\ Depth(s, q) = depth - 1
  /\ Len(st.open) = depth /\ Len(next.open) = depth - 1
  /\ \A m \in 1 .. depth - 1 : next.open[m] = st.open[m]
  /\ Inner(st) = st.open[depth] /\ o = st.open[depth].at /\ o \in 1 .. n
  /\ BracketRead(Run(s), s, o) /\ Len(Run(s)[o - 1].open) = depth - 1
  /\ \A m \in 1 .. depth - 1 : Run(s)[o - 1].open[m] = st.open[m]
  /\ type \in Container /\ type = st.open[depth].kind /\ s[o] = Opener[type]
  /\ BasesFit(st, bases, stk, base, type) /\ base = bases[depth]
  /\ \A m \in 1 .. depth : bases[m] \in Nat
  /\ \A m, j \in 1 .. depth : m < j => bases[m] + 1 <= bases[j]
  /\ Len(stk) \in Nat

Becomes(n, o, depth, stk, grown, a, b, base, type, size, count, W, later) ==
  /\ Extends(a, b) /\ size = Len(b) /\ size \in Nat \ {0}
  /\ Back(b, size).value = count /\ count \in Nat
  /\ Len(stk) - base - 1 <= (IF type = "object" THEN 3 * count ELSE count)
  /\ \A j \in 1 .. Len(stk) - base - 1 :
       /\ size - j \in 1 .. size
       /\ Back(b, size - j) =
            IF AnElement(type, j)
              THEN Word(stk[base + 1 + j].type, size - stk[base + 1 + j].value)
              ELSE stk[base + 1 + j]
  /\ later[o] = Word(type, size) /\ \A k \in 1 .. n : k # o => later[k] = W[k]
  /\ depth # 1 => /\ Len(grown) = base + 1 /\ grown[base + 1] = later[o]
                  /\ \A k \in 1 .. base : grown[k] = stk[k]

\* The bracket of an open container tells its kind.
LEMMA OpenerOf ==
  ASSUME NEW s, Len(s) \in Nat, NEW n \in 0 .. Len(s), NEW m \in 1 .. Depth(s, n)
  PROVE  /\ Run(s)[n].open[m].kind \in Container
         /\ s[Run(s)[n].open[m].at] = Opener[Run(s)[n].open[m].kind]
         /\ Depth(s, Run(s)[n].open[m].at - 1) = m - 1
<1>1. PICK st : st = Run(s)[n]
  OBVIOUS
<1>2. m \in 1 .. Len(st.open)
  BY <1>1 DEF Depth
<1>3. PICK o : o = st.open[m].at
  OBVIOUS
<1>4. /\ st.open[m].kind \in Container /\ s[o] = Opener[st.open[m].kind]
      /\ Len(Run(s)[o - 1].open) = m - 1
  <2>1. st.open[m].kind \in Container /\ s[o] = Opener[st.open[m].kind]
    BY <1>1, <1>2, <1>3, ScopeRead
  <2>2. WasOpened(Run(s), s, n, m, Run(s)[n].open[m].at)
    BY <1>1, <1>2, ScopesOpened
  <2>3. Len(Run(s)[o - 1].open) = m - 1
    BY <1>1, <1>3, <2>2 DEF WasOpened
  <2> QED
    BY <2>1, <2>3
<1> QED
  BY <1>1, <1>3, <1>4 DEF Depth

\* An item of the container that is closed.
LEMMA InnerStored ==
  ASSUME NEW s, NEW n, NEW q, NEW o, NEW depth, NEW st, NEW next, NEW bases,
         NEW stk, NEW grown, NEW a, NEW b, NEW base, NEW type, NEW size,
         NEW count, NEW W, NEW later,
         Closes(s, n, q, o, depth, st, next, bases, stk, base, type),
         Becomes(n, o, depth, stk, grown, a, b, base, type, size, count, W, later),
         NEW v \in 1 .. n, Depth(s, v - 1) = depth, Host(s, v).at = o,
         OnStack(s, W, bases, stk, n, v)
  PROVE  Stored(s, later, b, v)
<1>1. /\ Len(s) \in Nat /\ n \in Nat /\ n \in 0 .. Len(s) /\ depth \in Nat \ {0}
      /\ Depth(s, n) = depth /\ base = bases[depth] /\ base \in Nat
      /\ type \in Container /\ s[o] = Opener[type] /\ Len(stk) \in Nat
  BY ComesFacts DEF Closes
<1>2. /\ size = Len(b) /\ size \in Nat
      /\ later[o] = Word(type, size) /\ \A k \in 1 .. n : k # o => later[k] = W[k]
  BY DEF Becomes
<1>3. v \in 1 .. Len(s) /\ v - 1 \in 0 .. Len(s)
  BY <1>1
<1>4. PICK st1 : st1 = Run(s)[v - 1]
  OBVIOUS
<1>5. IsState(st1) /\ Len(st1.open) = depth /\ st1.open # <<>> /\ Host(s, v) = Inner(st1)
  BY <1>1, <1>3, <1>4, RunStates DEF Depth, Host
<1>6. PICK index \in Nat : /\ index = Host(s, v).index /\ Inner(st1).kind \in Container
                           /\ Inner(st1) = st1.open[depth]
  BY <1>5, InnerFacts
<1>7. Host(s, v).kind = type
  <2>1. depth \in 1 .. Len(st1.open) /\ o = st1.open[depth].at
    BY <1>1, <1>5, <1>6
  <2>2. s[o] = Opener[st1.open[depth].kind]
    <3>1. PICK before : before = v - 1
      OBVIOUS
    <3>2. /\ Len(s) \in Nat /\ before \in 0 .. Len(s) /\ st1 = Run(s)[before]
          /\ depth \in 1 .. Depth(s, before)
      BY <1>1, <1>3, <1>4, <2>1, <3>1 DEF Depth
    <3>3. s[st1.open[depth].at] = Opener[st1.open[depth].kind]
      BY <3>2, OpenerOf
    <3> QED
      BY <2>1, <3>3
  <2> QED
    BY <1>1, <1>5, <1>6, <2>2, TokenNames
<1>8. v # o
  <2>1. Depth(s, v - 1) # 0
    BY <1>1
  <2>2. Host(s, v).at \in 1 .. v - 1
    BY <1>1, <1>3, <2>1, HostFacts
  <2> QED
    BY <1>3, <2>2
<1>9. PICK place : place = Place(s, v)
  OBVIOUS
<1>10. /\ place \in Nat \ {0}
       /\ IF KeyRead(Run(s), s, v) THEN ~AnElement(type, place)
                                   ELSE AnElement(type, place)
  <2>1. CASE KeyRead(Run(s), s, v)
    <3>1. KeyNext(st1)
      BY <1>4, <2>1 DEF KeyRead
    <3>2. type = "object"
      BY <1>5, <1>7, <3>1 DEF KeyNext, IsState
    <3>3. place = 3 * index + 1
      BY <1>6, <1>9, <2>1 DEF Place
    <3> QED
      BY <2>1, <3>2, <3>3 DEF AnElement
  <2>2. CASE ~KeyRead(Run(s), s, v)
    <3>1. place = PlaceOf(type, index)
      BY <1>6, <1>7, <1>9, <2>2 DEF Place
    <3>2. CASE type = "object"
      <4>1. place = 3 * index + 3
        BY <3>1, <3>2 DEF PlaceOf
      <4>2. place % 3 = 0 /\ place \in Nat \ {0}
        BY <4>1
      <4> QED
        BY <2>2, <4>2 DEF AnElement
    <3>3. CASE type = "array"
      BY <2>2, <3>1, <3>3 DEF PlaceOf, AnElement
    <3> QED
      BY <1>1, <3>2, <3>3 DEF Container
  <2> QED
    BY <2>1, <2>2
<1>11. base + 1 + place \in 1 .. Len(stk) /\ stk[base + 1 + place] = W[v]
  BY <1>1, <1>9 DEF OnStack, Slot, Ceiling
<1>12. place \in 1 .. Len(stk) - base - 1
  BY <1>1, <1>10, <1>11, SMTT(20)
<1>13. /\ size - place \in 1 .. size
       /\ Back(b, size - place) =
            IF AnElement(type, place) THEN Word(W[v].type, size - W[v].value) ELSE W[v]
  BY <1>11, <1>12 DEF Becomes
<1>14. later[v] = W[v] /\ later[Host(s, v).at].value = size
  BY <1>2, <1>8 DEF Word
<1>15. /\ size \in 1 .. Len(b) /\ Host(s, v).index < Back(b, size).value
  <2>1. /\ size \in Nat \ {0} /\ size = Len(b) /\ Back(b, size).value = count
        /\ count \in Nat
        /\ Len(stk) - base - 1 <= (IF type = "object" THEN 3 * count ELSE count)
    BY DEF Becomes
  <2>2. place <= IF type = "object" THEN 3 * count ELSE count
    BY <1>1, <1>10, <1>12, <2>1, SMTT(20)
  <2>3. place \in {3 * index + 1, IF type = "object" THEN 3 * index + 3 ELSE index + 1}
        /\ (place = 3 * index + 1 => type = "object" \/ place = index + 1)
    <3>1. CASE KeyRead(Run(s), s, v)
      <4>1. KeyNext(st1)
        BY <1>4, <3>1 DEF KeyRead
      <4>2. type = "object"
        BY <1>5, <1>7, <4>1 DEF KeyNext, IsState
      <4> QED
        BY <1>6, <1>9, <3>1, <4>2 DEF Place
    <3>2. CASE ~KeyRead(Run(s), s, v)
      BY <1>6, <1>7, <1>9, <3>2 DEF Place, PlaceOf
    <3> QED
      BY <3>1, <3>2
  <2>4. index < count
    BY <2>1, <2>2, <2>3
  <2> QED
    BY <1>6, <2>1, <2>4
<1> QED
  BY <1>2, <1>9, <1>10, <1>13, <1>14, <1>15 DEF Stored

\* Any item that was there before.
LEMMA ItemKept ==
  ASSUME NEW s, NEW n, NEW q, NEW o, NEW depth, NEW st, NEW next, NEW bases,
         NEW stk, NEW grown, NEW a, NEW b, NEW base, NEW type, NEW size,
         NEW count, NEW W, NEW later,
         Closes(s, n, q, o, depth, st, next, bases, stk, base, type),
         Becomes(n, o, depth, stk, grown, a, b, base, type, size, count, W, later),
         NEW v \in 1 .. n, v # o, Placed(s, W, bases, stk, a, n, v)
  PROVE  Placed(s, later, bases, grown, b, q, v)
<1>1. /\ Len(s) \in Nat /\ n \in 0 .. Len(s) /\ n \in Nat /\ q = n + 1
      /\ depth \in Nat \ {0} /\ Depth(s, n) = depth /\ Depth(s, q) = depth - 1
      /\ \A m \in 1 .. depth - 1 : Run(s)[q].open[m] = Run(s)[n].open[m]
      /\ o = Run(s)[n].open[depth].at /\ o \in 1 .. n
      /\ \A m \in 1 .. depth : bases[m] \in Nat
      /\ \A m, j \in 1 .. depth : m < j => bases[m] + 1 <= bases[j]
  BY ComesFacts DEF Closes, Comes
<1>2. base \in Nat /\ base = bases[depth]
  BY <1>1, SMTT(20) DEF Closes
<1>3. /\ \A k \in 1 .. n : k # o => later[k] = W[k]
      /\ depth # 1 => /\ Len(grown) = base + 1
                      /\ \A k \in 1 .. base : grown[k] = stk[k]
  BY DEF Becomes
<1>4. v \in 1 .. Len(s) /\ v - 1 \in 0 .. Len(s) /\ later[v] = W[v]
  BY <1>1, <1>3
<1>5. PICK m \in Nat : m = Depth(s, v - 1)
  BY <1>1, <1>4, HostFacts
<1>6. CASE m = 0
  <2>1. IsWhole(Run(s)[n])
    BY <1>5, <1>6 DEF Placed
  <2>2. Len(Run(s)[n].open) # 0
    BY <1>1 DEF Depth
  <2> QED
    BY <2>1, <2>2, EmptySeq DEF IsWhole
<1>7. CASE m # 0
  <2>1. PICK h : h = Host(s, v).at
    OBVIOUS
  <2>2. h \in 1 .. v - 1 /\ h \in 1 .. n /\ Host(s, v) = Run(s)[v - 1].open[m]
    BY <1>1, <1>4, <1>5, <1>7, <2>1, HostFacts, SMTT(20)
  <2>3. HostOpen(s, n, v) <=> m <= depth /\ Run(s)[n].open[m].at = h
    BY <1>1, <1>5, <2>1 DEF HostOpen
  <2>4. HostOpen(s, q, v) <=> m <= depth - 1 /\ Run(s)[q].open[m].at = h
    BY <1>1, <1>5, <2>1 DEF HostOpen
  <2>5. m <= depth - 1 => Run(s)[q].open[m] = Run(s)[n].open[m]
    BY <1>1, <1>5, <1>7
  <2>6. CASE HostOpen(s, n, v) /\ m = depth
    <3>1. OnStack(s, W, bases, stk, n, v)
      BY <1>5, <1>7, <2>6 DEF Placed
    <3>2. Host(s, v).at = o
      BY <1>1, <2>1, <2>3, <2>6
    <3>3. Stored(s, later, b, v)
      BY <1>5, <2>6, <3>1, <3>2, InnerStored
    <3>4. ~HostOpen(s, q, v)
      BY <1>1, <2>4, <2>6
    <3> QED
      BY <1>5, <1>7, <3>3, <3>4 DEF Placed
  <2>7. CASE HostOpen(s, n, v) /\ m # depth
    <3>1. m \in 1 .. depth - 1 /\ m \in 1 .. depth /\ m + 1 \in 1 .. depth
          /\ depth \in 1 .. depth /\ m < depth /\ depth # 1
      BY <1>1, <1>5, <1>7, <2>3, <2>7
    <3>2. HostOpen(s, q, v)
      BY <1>1, <2>3, <2>4, <2>5, <2>7, <3>1
    <3>3. OnStack(s, W, bases, stk, n, v)
      BY <1>5, <1>7, <2>7 DEF Placed
    <3>4. PICK slot, place : /\ slot = Slot(s, bases, v) /\ place = bases[m + 1]
                             /\ place \in Nat
      BY <1>1, <3>1
    <3>5. slot \in 1 .. place /\ stk[slot] = W[v]
      BY <1>1, <1>5, <3>1, <3>3, <3>4 DEF OnStack, Ceiling
    <3>6. place <= base
      <4>1. m + 1 = depth \/ m + 1 < depth
        BY <1>1, <3>1
      <4>2. CASE m + 1 = depth
        BY <1>2, <3>4, <4>2
      <4>3. CASE m + 1 < depth
        <5>1. place + 1 <= base
          BY <1>1, <1>2, <3>1, <3>4, <4>3
        <5> QED
          BY <1>2, <3>4, <5>1
      <4> QED
        BY <4>1, <4>2, <4>3
    <3>7. slot \in 1 .. base /\ grown[slot] = later[v]
      <4>1. slot \in 1 .. base
        BY <1>2, <3>4, <3>5, <3>6
      <4>2. grown[slot] = stk[slot]
        BY <1>3, <3>1, <4>1
      <4> QED
        BY <1>4, <3>5, <4>1, <4>2
    <3>8. slot \in 1 .. Ceiling(s, bases, grown, q, m)
      <4>1. CASE m < depth - 1
        <5>1. Ceiling(s, bases, grown, q, m) = place
          BY <1>1, <3>4, <4>1 DEF Ceiling
        <5> QED
          BY <3>5, <5>1
      <4>2. CASE ~(m < depth - 1)
        <5>1. Ceiling(s, bases, grown, q, m) = base + 1
          BY <1>1, <1>3, <3>1, <4>2 DEF Ceiling
        <5> QED
          BY <1>2, <3>7, <5>1
      <4> QED
        BY <4>1, <4>2
    <3>9. OnStack(s, later, bases, grown, q, v)
      BY <1>5, <3>4, <3>7, <3>8 DEF OnStack
    <3> QED
      BY <1>5, <1>7, <3>2, <3>9 DEF Placed
  <2>8. CASE ~HostOpen(s, n, v)
    <3>1. ~HostOpen(s, q, v)
      BY <1>1, <1>5, <2>3, <2>4, <2>5, <2>8
    <3>2. Stored(s, W, a, v)
      BY <1>5, <1>7, <2>8 DEF Placed
    <3>3. h # o
      <4> SUFFICES ASSUME h = o
                   PROVE  FALSE
        OBVIOUS
      <4>1. m \in 1 .. Depth(s, v - 1)
        BY <1>5, <1>7
      <4>2. Len(Run(s)[h - 1].open) = m - 1
        <5>1. PICK before : before = v - 1
          OBVIOUS
        <5>2. /\ Len(s) \in Nat /\ before \in 0 .. Len(s)
              /\ m \in 1 .. Depth(s, before) /\ h = Run(s)[before].open[m].at
          BY <1>1, <1>4, <2>1, <2>2, <4>1, <5>1
        <5>3. Depth(s, h - 1) = m - 1
          BY <5>2, OpenerOf
        <5> QED
          BY <5>3 DEF Depth
      <4>3. Len(Run(s)[o - 1].open) = depth - 1
        BY DEF Closes
      <4>4. m = depth
        BY <1>1, <1>5, <4>2, <4>3
      <4> QED
        BY <1>1, <2>3, <2>8, <4>4
    <3>4. later[h] = W[h]
      BY <1>3, <2>2, <3>3
    <3>5. Stored(s, later, b, v)
      <4>1. Extends(a, b) /\ later[Host(s, v).at] = W[Host(s, v).at]
        BY <2>1, <3>4 DEF Becomes
      <4> QED
        BY <1>4, <3>2, <4>1, StoredStays
    <3> QED
      BY <1>5, <1>7, <3>1, <3>5 DEF Placed
  <2> QED
    BY <2>6, <2>7, <2>8
<1> QED
  BY <1>6, <1>7

\* The container itself.
LEMMA ContainerPlaced ==
  ASSUME NEW s, NEW n, NEW q, NEW o, NEW depth, NEW st, NEW next, NEW bases,
         NEW stk, NEW grown, NEW a, NEW b, NEW base, NEW type, NEW size,
         NEW count, NEW W, NEW later,
         Closes(s, n, q, o, depth, st, next, bases, stk, base, type),
         Becomes(n, o, depth, stk, grown, a, b, base, type, size, count, W, later)
  PROVE  Placed(s, later, bases, grown, b, q, o)
<1>1. /\ Len(s) \in Nat /\ n \in 0 .. Len(s) /\ n \in Nat /\ st = Run(s)[n]
      /\ IsState(st) /\ IsState(next) /\ next = Run(s)[q] /\ next.expects = "separator"
      /\ depth \in Nat \ {0} /\ Depth(s, q) = depth - 1 /\ Len(next.open) = depth - 1
      /\ \A m \in 1 .. depth - 1 : next.open[m] = st.open[m]
      /\ o \in 1 .. n /\ BracketRead(Run(s), s, o) /\ Depth(s, o - 1) = depth - 1
      /\ \A m \in 1 .. depth - 1 : Run(s)[o - 1].open[m] = st.open[m]
      /\ base = bases[depth] /\ Len(st.open) = depth
      /\ BasesFit(st, bases, stk, base, type)
      /\ \A m \in 1 .. depth : bases[m] \in Nat
  BY DEF Closes, Comes, Depth
<1>2. /\ depth # 1 => Len(grown) = base + 1 /\ grown[base + 1] = later[o]
  BY DEF Becomes
<1>3. o \in 1 .. Len(s)
  BY <1>1
<1>4. CASE depth = 1
  <2>1. IsWhole(next)
    BY <1>1, <1>4, EmptySeq DEF IsWhole, IsState
  <2> QED
    BY <1>1, <1>4, <2>1 DEF Placed
<1>5. CASE depth # 1
  <2>1. PICK m : m = depth - 1
    OBVIOUS
  <2>2. m \in Nat \ {0} /\ m \in 1 .. depth - 1 /\ m + 1 = depth /\ depth \in 2 .. depth
        /\ depth \in 1 .. depth /\ m \in 1 .. depth
    BY <1>1, <1>5, <2>1
  <2>3. Host(s, o) = st.open[m]
    <3>1. Host(s, o) = Run(s)[o - 1].open[Depth(s, o - 1)]
      BY <1>1, <1>3, <2>1, <2>2, HostFacts
    <3> QED
      BY <1>1, <2>1, <2>2, <3>1
  <2>4. ~KeyRead(Run(s), s, o)
    BY <1>1, <1>3, ReadOnce
  <2>5. Slot(s, bases, o) = base + 1
    <3>1. bases[depth] = bases[m] + PlaceOf(st.open[m].kind, st.open[m].index)
      BY <1>1, <2>1, <2>2 DEF BasesFit
    <3>2. PICK place : place = PlaceOf(st.open[m].kind, st.open[m].index)
      OBVIOUS
    <3>3. Slot(s, bases, o) = bases[m] + 1 + place
      BY <1>1, <2>1, <2>3, <2>4, <3>2 DEF Slot, Place
    <3>4. place \in Int
      <4>1. IsState(st) /\ m \in 1 .. Len(st.open)
        BY <1>1, <2>2
      <4>2. st.open[m] \in Scopes
        BY <4>1, ElementOfSeq DEF IsState
      <4> QED
        BY <3>2, <4>2 DEF PlaceOf, Scopes
    <3>5. PICK below \in Nat : below = bases[m]
      BY <1>1, <2>2
    <3> QED
      BY <1>1, <3>1, <3>2, <3>3, <3>4, <3>5, SMTT(20)
  <2>6. base \in Nat
    BY <1>1, <2>2
  <2>7. Ceiling(s, bases, grown, q, m) = base + 1
    BY <1>1, <1>2, <1>5, <2>1 DEF Ceiling
  <2>8. OnStack(s, later, bases, grown, q, o)
    BY <1>1, <1>2, <1>5, <2>1, <2>5, <2>6, <2>7 DEF OnStack
  <2>9. HostOpen(s, q, o)
    <3>1. next.open[m].at = st.open[m].at
      BY <1>1, <2>2
    <3>2. Depth(s, o - 1) <= Depth(s, q)
      BY <1>1
    <3> QED
      BY <1>1, <2>1, <2>3, <3>1, <3>2 DEF HostOpen
  <2>10. Depth(s, o - 1) # 0
    BY <1>1, <2>1, <2>2
  <2> QED
    BY <2>8, <2>9, <2>10 DEF Placed
<1> QED
  BY <1>4, <1>5

LEMMA ClosedReads ==
  ASSUME NEW s, NEW n, NEW q, NEW o, NEW depth, NEW st, NEW next, NEW bases,
         NEW stk, NEW grown, NEW a, NEW b, NEW base, NEW type, NEW size,
         NEW count, NEW W, NEW later,
         Closes(s, n, q, o, depth, st, next, bases, stk, base, type),
         Becomes(n, o, depth, stk, grown, a, b, base, type, size, count, W, later),
         count = CountAt(st), AstReads(s, W, bases, stk, a, n)
  PROVE  AstReads(s, later, bases, grown, b, q)
<1>1. /\ Len(s) \in Nat /\ n \in 0 .. Len(s) /\ n \in Nat /\ q = n + 1
      /\ q - 1 = n /\ q \in 1 .. Len(s) /\ CloserRead(Run(s), s, q)
      /\ depth \in Nat \ {0} /\ Depth(s, n) = depth /\ Depth(s, q) = depth - 1
      /\ \A m \in 1 .. depth - 1 : Run(s)[q].open[m] = Run(s)[n].open[m]
      /\ o = Run(s)[n].open[depth].at /\ o \in 1 .. n /\ BracketRead(Run(s), s, o)
  BY ComesFacts, SMTT(20) DEF Closes, Comes
<1>2. /\ st = Run(s)[n] /\ Inner(st) = st.open[depth] /\ type = st.open[depth].kind
  BY DEF Closes, Comes
<1>3. /\ Extends(a, b) /\ size = Len(b) /\ size \in Nat \ {0}
      /\ Back(b, size).value = count /\ later[o] = Word(type, size)
      /\ \A k \in 1 .. n : k # o => later[k] = W[k]
  BY DEF Becomes
<1>4. \A k \in 1 .. q : k = q \/ k \in 1 .. n
  BY <1>1
<1>5. o \in 1 .. Len(s) /\ ~ScalarRead(Run(s), s, o) /\ ~KeyRead(Run(s), s, o)
  BY <1>1, ReadOnce
<1>6. ~ScalarRead(Run(s), s, q) /\ ~KeyRead(Run(s), s, q) /\ ~IsItem(s, q)
  BY <1>1, ReadOnce DEF IsItem
<1>7. ASSUME NEW k \in 1 .. q, ScalarRead(Run(s), s, k)
      PROVE  ScalarHeld(s, later, b, k)
  <2>1. k \in 1 .. n /\ later[k] = W[k]
    BY <1>3, <1>4, <1>5, <1>6, <1>7
  <2>2. ScalarHeld(s, W, a, k)
    BY <1>7, <2>1 DEF AstReads
  <2> QED
    BY <1>3, <2>1, <2>2, ScalarStays
<1>8. ASSUME NEW k \in 1 .. q, KeyRead(Run(s), s, k)
      PROVE  later[k] = Word("text", Payload("string", k))
  <2>1. k \in 1 .. n /\ later[k] = W[k]
    BY <1>3, <1>4, <1>5, <1>6, <1>8
  <2> QED
    BY <1>8, <2>1 DEF AstReads
<1>9. ASSUME NEW k \in 1 .. q, CloserRead(Run(s), s, k)
      PROVE  ContainerHeld(s, later, b, k)
  <2>1. CASE k = q
    <3>1. Host(s, q) = st.open[depth] /\ Host(s, q).at = o
      BY <1>1, <1>2 DEF Host
    <3>2. size \in 1 .. Len(b) /\ Run(s)[q - 1] = st
      BY <1>1, <1>2, <1>3
    <3> QED
      BY <1>2, <1>3, <2>1, <3>1, <3>2 DEF ContainerHeld
  <2>2. CASE k # q
    <3>1. k \in 1 .. n /\ k \in 1 .. Len(s)
      BY <1>1, <1>4, <2>2
    <3>2. Run(s)[n].open[depth].at # Inner(Run(s)[k - 1]).at
      <4>1. PICK r : r = Run(s)
        OBVIOUS
      <4>2. CloserRead(r, s, k) /\ depth \in 1 .. Len(r[n].open)
        BY <1>1, <1>9, <4>1 DEF Depth
      <4>3. r[n].open[depth].at # Inner(r[k - 1]).at
        <5>1. Len(s) \in Nat /\ n \in 0 .. Len(s) /\ k \in 1 .. n
          BY <1>1, <3>1
        <5> QED
          BY <4>1, <4>2, <5>1, ClosedOnce
      <4> QED
        BY <4>1, <4>3
    <3>3. Host(s, k).at \in 1 .. k - 1 /\ Host(s, k).at # o
      BY <1>1, <1>9, <3>1, <3>2, ClosesEarlier DEF Host
    <3>4. Host(s, k).at \in 1 .. n
      BY <1>1, <3>1, <3>3
    <3>5. later[Host(s, k).at] = W[Host(s, k).at]
      BY <1>3, <3>3, <3>4
    <3>6. ContainerHeld(s, W, a, k)
      BY <1>9, <3>1 DEF AstReads
    <3> QED
      BY <1>3, <3>5, <3>6, ContainerStays
  <2> QED
    BY <2>1, <2>2
<1>10. ASSUME NEW k \in 1 .. q, IsItem(s, k), ~IsOpen(s, q, k)
       PROVE  Placed(s, later, bases, grown, b, q, k)
  <2>1. k \in 1 .. n
    BY <1>4, <1>6, <1>10
  <2>2. CASE k = o
    BY <2>2, ContainerPlaced
  <2>3. CASE k # o
    <3>1. ~IsOpen(s, n, k)
      <4> SUFFICES ASSUME NEW m \in 1 .. depth, Run(s)[n].open[m].at = k
                   PROVE  FALSE
        BY <1>1 DEF IsOpen
      <4>1. m # depth
        BY <1>1, <2>3
      <4>2. m \in 1 .. depth - 1
        BY <1>1, <4>1
      <4> QED
        BY <1>1, <1>10, <4>2 DEF IsOpen
    <3>2. Placed(s, W, bases, stk, a, n, k)
      BY <1>10, <2>1, <3>1 DEF AstReads
    <3> QED
      BY <2>1, <2>3, <3>2, ItemKept
  <2> QED
    BY <2>2, <2>3
<1> QED
  BY <1>7, <1>8, <1>9, <1>10 DEF AstReads

\* The parts lie one after the other.
LEMMA BasesIncrease ==
  ASSUME NEW st, IsState(st), NEW depth \in Nat, depth = Len(st.open),
         NEW bases, NEW stk, NEW base, NEW type, BasesFit(st, bases, stk, base, type)
  PROVE  \A j \in 1 .. depth : \A m \in 1 .. depth : m < j => bases[m] + 1 <= bases[j]
<1>1. \A m \in 1 .. depth : bases[m] \in Nat
  BY DEF BasesFit
<1>2. ASSUME NEW m \in 2 .. depth
      PROVE  bases[m - 1] + 1 <= bases[m]
  <2>1. m - 1 \in 1 .. depth /\ m \in 1 .. depth
    OBVIOUS
  <2>2. st.open[m - 1] \in Scopes
    BY <2>1, ElementOfSeq DEF IsState
  <2>3. PICK place : /\ place = PlaceOf(st.open[m - 1].kind, st.open[m - 1].index)
                     /\ place \in Nat \ {0}
    BY <2>2 DEF PlaceOf, Scopes
  <2>4. bases[m] = bases[m - 1] + place
    BY <2>3 DEF BasesFit
  <2>5. PICK below : below = bases[m - 1] /\ below \in Nat
    BY <1>1, <2>1
  <2> QED
    BY <2>3, <2>4, <2>5
<1>3. PICK T : T = {j \in Nat : j \in 1 .. depth =>
                      \A m \in 1 .. depth : m < j => bases[m] + 1 <= bases[j]}
  OBVIOUS
<1>4. 0 \in T
  BY <1>3
<1>5. ASSUME NEW j \in Nat, j \in T
      PROVE  j + 1 \in T
  <2> SUFFICES ASSUME j + 1 \in 1 .. depth, NEW m \in 1 .. depth, m < j + 1
               PROVE  bases[m] + 1 <= bases[j + 1]
    BY <1>3
  <2>1. j \in 1 .. depth /\ j + 1 \in 2 .. depth /\ j + 1 - 1 = j
    OBVIOUS
  <2>2. bases[j] + 1 <= bases[j + 1]
    BY <1>2, <2>1
  <2>3. CASE m = j
    BY <2>2, <2>3
  <2>4. CASE m # j
    <3>1. m < j
      BY <2>4
    <3>2. bases[m] + 1 <= bases[j]
      BY <1>3, <1>5, <2>1, <3>1
    <3>3. PICK low, mid, high : /\ low = bases[m] /\ mid = bases[j] /\ high = bases[j + 1]
                                /\ low \in Nat /\ mid \in Nat /\ high \in Nat
      BY <1>1, <2>1
    <3> QED
      BY <2>2, <3>2, <3>3
  <2> QED
    BY <2>3, <2>4
<1>6. Nat \subseteq T
  BY <1>4, <1>5, SetInduction
<1> QED
  BY <1>3, <1>6

\* What a container that is closed becomes in the AST.
LEMMA PartInstalled ==
  ASSUME NEW U, NEW parts, ParserFits(U, parts), Full(Current, Len(stack)),
         NEW part, Sliced(stack, current_base, part),
         NEW b, b = Parser!Installed(part)
  PROVE  /\ part \in Seq(Words) /\ Complete(root_type, part)
         /\ Extends(ast, b) /\ Len(b) \in Nat \ {0}
         /\ Back(b, Len(b)).value = CountOf(root_type, part)
         /\ \A j \in 1 .. Len(part) :
              /\ Len(b) - j \in 1 .. Len(b)
              /\ Back(b, Len(b) - j) =
                   IF AnElement(root_type, j)
                     THEN Word(part[j].type, Len(b) - part[j].value)
                     ELSE part[j]
<1>1. /\ stack \in Seq(Words) /\ ElementsFit(U, ast)
      /\ PartFilled(U, stack, Current, Len(stack))
  BY DEF ParserFits
<1>2. /\ Current \in Parts /\ Current.base = current_base /\ Current.type = root_type
      /\ current_base \in Nat /\ current_base < Len(stack) /\ root_type \in Container
  BY CurrentFacts
<1>4. /\ part \in Seq(Words) /\ Complete(root_type, part)
      /\ \A n \in 1 .. Len(part) : AnElement(root_type, n) => part[n] \in U
  BY <1>1, <1>2, TopPart
<1>5. PICK middle : Written(part, b, middle)
  BY <1>1, <1>2, <1>4, PartWritten
<1>6. PICK size \in Nat, rest \in Nat : size = Len(part) /\ rest = Len(ast)
  BY <1>1, <1>4, LenProperties DEF ElementsFit
<1>7. PICK total \in Nat : total = Len(b) /\ total = size + rest + 1
  BY <1>5, <1>6 DEF Written, Joined
<1>8. /\ b[1] = Word("length", CountOf(root_type, part))
      /\ \A n \in 1 .. size : b[n + 1] = middle[n]
  BY <1>5, <1>6 DEF Written, Joined
<1>9. Extends(ast, b)
  <2>1. PICK front \in Seq(Words), a \in Seq(Words) : a = ast /\ b = front \o a
    BY <1>1, <1>5 DEF Written, Joined, ElementsFit
  <2>2. \A d \in 1 .. Len(a) : Back(b, d) = Back(a, d)
    <3>1. front \in Seq(Words) /\ a \in Seq(Words) /\ b = front \o a
      BY <2>1
    <3> QED
      BY ONLY <3>1, FrontUnseen, Zenon
  <2>3. Len(ast) \in Nat /\ Len(b) \in Nat /\ Len(ast) <= Len(b)
    BY <1>6, <1>7
  <2> QED
    BY <2>1, <2>2, <2>3 DEF Extends
<1>10. total \in Nat \ {0} /\ Back(b, total).value = CountOf(root_type, part)
  <2>1. total - total + 1 = 1 /\ total \in Nat \ {0}
    BY <1>6, <1>7
  <2> QED
    BY <1>7, <1>8, <2>1 DEF Back, Word
<1>11. ASSUME NEW j \in 1 .. size
       PROVE  /\ total - j \in 1 .. total
              /\ Back(b, total - j) =
                   IF AnElement(root_type, j)
                     THEN Word(part[j].type, total - part[j].value)
                     ELSE part[j]
  <2>1. total - (total - j) + 1 = j + 1 /\ total - j \in 1 .. total
    BY <1>6, <1>7
  <2>2. Back(b, total - j) = middle[j]
    BY <1>7, <1>8, <2>1 DEF Back
  <2>3. CASE AnElement(root_type, j)
    <3>1. PICK element \in Elements : element = part[j]
      BY <1>1, <1>4, <1>6, <2>3 DEF ElementsFit
    <3>2. middle[j] = [element EXCEPT !.value = total - element.value]
      BY <1>5, <1>6, <1>7, <2>3, <3>1 DEF Written, Relative
    <3>3. middle[j] = [type |-> element.type, value |-> total - element.value]
      BY <3>1, <3>2 DEF Elements
    <3> QED
      BY <2>1, <2>2, <2>3, <3>1, <3>3 DEF Word
  <2>4. CASE ~AnElement(root_type, j)
    BY <1>5, <1>6, <2>1, <2>2, <2>4 DEF Written
  <2> QED
    BY <2>3, <2>4
<1> QED
  BY <1>4, <1>6, <1>7, <1>9, <1>10, <1>11

LEMMA CountClosed ==
  ASSUME NEW st, IsState(st), st.open # <<>>, st.expects \in {"first", "separator"},
         st.expects = "first" => Inner(st).index = 0,
         NEW bases, NEW stk, NEW base \in Nat, NEW type,
         BasesFit(st, bases, stk, base, type),
         NEW part, Len(part) = Len(stk) - base - 1
  PROVE  CountOf(type, part) = CountAt(st)
<1>1. PICK index \in Nat, kind \in Container :
        index = Inner(st).index /\ kind = Inner(st).kind
  BY InnerFacts
<1>2. type = kind /\ Len(stk) = base + 1 + Height(st)
  BY <1>1 DEF BasesFit
<1>3. CASE st.expects = "first"
  <2>1. index = 0
    BY <1>1, <1>3
  <2>2. Height(st) = 0
    <3>1. CASE kind = "object"
      <4>1. KeyNext(st)
        BY <1>1, <1>3, <3>1 DEF KeyNext
      <4> QED
        BY <1>1, <1>3, <2>1, <4>1 DEF Height
    <3>2. CASE kind # "object"
      <4>1. ~KeyNext(st)
        BY <1>1, <1>3, <3>2 DEF KeyNext
      <4> QED
        BY <1>1, <1>3, <2>1, <3>2, <4>1 DEF Height, PlaceOf
    <3> QED
      BY <3>1, <3>2
  <2>3. Len(part) = 0
    BY <1>2, <2>2
  <2> QED
    BY <1>3, <2>3 DEF CountOf, CountAt
<1>4. CASE st.expects = "separator"
  <2>1. Height(st) = PlaceOf(kind, index)
    BY <1>1, <1>4 DEF Height
  <2>2. Len(part) = PlaceOf(kind, index)
    <3>1. PICK place \in Nat : place = PlaceOf(kind, index)
      BY DEF PlaceOf
    <3> QED
      BY <1>2, <2>1, <3>1
  <2>3. CountOf(type, part) = index + 1
    <3>1. CASE kind = "array"
      BY <1>2, <2>2, <3>1 DEF CountOf, PlaceOf
    <3>2. CASE kind = "object"
      <4>1. Len(part) = 3 * index + 3
        BY <2>2, <3>2 DEF PlaceOf
      <4>2. (3 * index + 3) \div 3 = index + 1
        OBVIOUS
      <4> QED
        BY <1>2, <3>2, <4>1, <4>2 DEF CountOf
    <3> QED
      BY <3>1, <3>2 DEF Container
  <2> QED
    BY <1>1, <1>4, <2>3 DEF CountAt
<1> QED
  BY <1>3, <1>4

\* The part around becomes the current one.
LEMMA BasesClose ==
  ASSUME NEW s, NEW n, NEW q, NEW o, NEW depth, NEW st, NEW next, NEW bases,
         NEW stk, NEW grown, NEW a, NEW b, NEW base, NEW type, NEW size,
         NEW count, NEW W, NEW later,
         Closes(s, n, q, o, depth, st, next, bases, stk, base, type),
         Becomes(n, o, depth, stk, grown, a, b, base, type, size, count, W, later),
         depth # 1
  PROVE  BasesFit(next, bases, grown, bases[depth - 1], st.open[depth - 1].kind)
<1>1. /\ IsState(st) /\ IsState(next) /\ next.expects = "separator"
      /\ depth \in Nat \ {0} /\ Len(st.open) = depth /\ Len(next.open) = depth - 1
      /\ \A m \in 1 .. depth - 1 : next.open[m] = st.open[m]
      /\ BasesFit(st, bases, stk, base, type) /\ base = bases[depth]
      /\ \A m \in 1 .. depth : bases[m] \in Nat
      /\ \A m, j \in 1 .. depth : m < j => bases[m] + 1 <= bases[j]
      /\ Len(stk) \in Nat
  BY DEF Closes, Comes
<1>2. Len(grown) = base + 1 /\ \A k \in 1 .. base : grown[k] = stk[k]
  BY DEF Becomes
<1>3. PICK less \in Nat \ {0} : less = depth - 1
  BY <1>1
<1>4. /\ less \in 1 .. depth /\ depth \in 1 .. depth /\ depth \in 2 .. depth
      /\ 1 \in 1 .. less /\ less + 1 = depth
      /\ \A m \in 1 .. less : m \in 1 .. depth /\ m < depth
  BY <1>1, <1>3
<1>5. ASSUME NEW m \in 1 .. less
      PROVE  /\ bases[m] \in Nat /\ bases[m] + 1 <= Len(grown)
             /\ grown[bases[m] + 1] = stk[bases[m] + 1]
  <2>1. bases[m] + 1 <= base
    BY <1>1, <1>4
  <2>2. PICK below \in Nat, top \in Nat : below = bases[m] /\ top = base
    BY <1>1, <1>4
  <2>3. below + 1 \in 1 .. top /\ below + 1 <= top + 1
    BY <2>1, <2>2
  <2> QED
    BY <1>2, <2>2, <2>3
<1>6. ASSUME NEW m \in 2 .. less
      PROVE  /\ bases[m] =
                  bases[m - 1] + PlaceOf(next.open[m - 1].kind, next.open[m - 1].index)
             /\ grown[bases[m] + 1] = Word(next.open[m - 1].kind, bases[m - 1])
  <2>1. m \in 2 .. depth /\ m - 1 \in 1 .. less /\ m \in 1 .. less
    BY <1>3, <1>4
  <2>2. /\ bases[m] = bases[m - 1] + PlaceOf(st.open[m - 1].kind, st.open[m - 1].index)
        /\ stk[bases[m] + 1] = Word(st.open[m - 1].kind, bases[m - 1])
    BY <1>1, <2>1 DEF BasesFit
  <2>3. next.open[m - 1] = st.open[m - 1]
    BY <1>1, <1>3, <2>1
  <2> QED
    BY <1>5, <2>1, <2>2, <2>3
<1>7. grown[bases[1] + 1].value = -1
  <2>1. stk[bases[1] + 1].value = -1
    BY <1>1 DEF BasesFit
  <2> QED
    BY <1>4, <1>5, <2>1
<1>8. /\ next.open # <<>> /\ Len(next.open) = less
      /\ Inner(next) = next.open[less] /\ next.open[less] = st.open[less]
      /\ Inner(next).kind \in Container /\ Inner(next).index \in Nat
  <2>1. next.open # <<>>
    BY <1>1, <1>3
  <2> QED
    BY <1>1, <1>3, <2>1, InnerFacts
<1>9. Len(grown) = bases[less] + 1 + Height(next)
  <2>1. bases[depth] = bases[less] + PlaceOf(st.open[less].kind, st.open[less].index)
    BY <1>1, <1>3, <1>4 DEF BasesFit
  <2>2. Height(next) = PlaceOf(st.open[less].kind, st.open[less].index)
    BY <1>1, <1>8 DEF Height
  <2>3. PICK place \in Nat, below \in Nat : place = Height(next) /\ below = bases[less]
    <3>1. PICK what, index :
            what = st.open[less].kind /\ index = st.open[less].index /\ index \in Nat
      BY <1>8
    <3>2. PlaceOf(what, index) \in Nat
      BY <3>1 DEF PlaceOf
    <3>3. bases[less] \in Nat
      BY <1>1, <1>4
    <3> QED
      BY <2>2, <3>1, <3>2, <3>3
  <2>4. base = below + place
    BY <1>1, <2>1, <2>2, <2>3
  <2> QED
    BY <1>2, <2>3, <2>4
<1> QED
  BY <1>3, <1>5, <1>6, <1>7, <1>8, <1>9 DEF BasesFit

\* The text starts with the bracket of the root.
RootFirst ==
  IF label = "begin" THEN p = 1 ELSE label # "rejected" => text[1] \in Opening

LEMMA RootStarts == Parser!Init => RootFirst
BY DEF Parser!Init, RootFirst

LEMMA RootKeeps == RootFirst /\ Parser!Parse => RootFirst'
<1> SUFFICES ASSUME RootFirst, Parser!Parse
             PROVE  RootFirst'
  OBVIOUS
<1>1. text' = text
  BY DEF Parser!Parse, Parser!Begin, Parser!AtomElement, Parser!NumberElement,
         Parser!StringElement, Parser!OpenElement, Parser!NoElement, Parser!First,
         Parser!Comma, Parser!NoSeparator, Parser!ObjectKey, Parser!Close,
         Parser!Open, Parser!ScalarElement, Parser!Reject
<1>2. CASE label = "begin"
  <2>1. Parser!Begin
    BY <1>2 DEF Parser!Parse, Parser!AtomElement, Parser!NumberElement,
                Parser!StringElement, Parser!OpenElement, Parser!NoElement,
                Parser!NextElement, Parser!First, Parser!Comma, Parser!NoSeparator,
                Parser!ObjectKey, Parser!Close
  <2>2. CASE label' = "rejected"
    BY <2>2 DEF RootFirst
  <2>3. CASE label' # "rejected"
    <3>1. PICK type \in Container : Parser!Open(type, Parser!Word(type, Parser!RootMarker))
      BY <2>1, <2>3, SameAst DEF Parser!Begin, Parser!Reject
    <3>2. label' = "close_or_first" /\ text[p] = Opener[type]
      BY <3>1 DEF Parser!Open, Parser!Here, Parser!Opener, Opener
    <3> QED
      BY <1>1, <1>2, <3>2, TokenNames DEF RootFirst
  <2> QED
    BY <2>2, <2>3
<1>3. CASE label # "begin"
  <2>1. label' # "begin" /\ (label' # "rejected" => label # "rejected")
    BY <1>3 DEF Parser!Parse, Parser!Begin, Parser!AtomElement, Parser!NumberElement,
         Parser!StringElement, Parser!OpenElement, Parser!NoElement, Parser!First,
         Parser!Comma, Parser!NoSeparator, Parser!ObjectKey, Parser!Close,
         Parser!Open, Parser!ScalarElement, Parser!Reject, Parser!NextElement,
         Parser!AfterSeparator
  <2> QED
    BY <1>1, <1>3, <2>1 DEF RootFirst
<1> QED
  BY <1>2, <1>3

\* What Close does, where the machine stands.
Shuts(part, bottom, b) ==
  /\ label \in {"close_or_first", "close_or_comma"}
  /\ Parser!Here(Closer[root_type]) /\ p' = p + 1 /\ text' = text
  /\ Sliced(stack, current_base, part) /\ b = Parser!Installed(part) /\ ast' = b
  /\ bottom = stack[current_base + 1]
  /\ IF bottom.value = -1
       THEN /\ label' = IF p' > Len(text) THEN "accepted" ELSE "rejected"
            /\ root_type' = root_type
       ELSE /\ label' = "close_or_comma"
            /\ stack' = Append(SubSeq(stack, 1, current_base), Word(root_type, Len(b)))
            /\ current_base' = bottom.value /\ root_type' = bottom.type

LEMMA CloseShuts ==
  ASSUME Parser!Close, NEW U, NEW parts, ParserFits(U, parts)
  PROVE  \E part, bottom, b : Shuts(part, bottom, b)
<1>1. PICK part : part = SubSeq(stack, current_base + 2, Len(stack))
  OBVIOUS
<1>2. Sliced(stack, current_base, part)
  BY <1>1, CurrentFacts, Slice DEF ParserFits
<1>3. PICK bottom, b : bottom = stack[current_base + 1] /\ b = Parser!Installed(part)
  OBVIOUS
<1>4. ast' = b
  BY <1>1, <1>3 DEF Parser!Close
<1>5. CASE bottom.value = -1
  BY <1>2, <1>3, <1>4, <1>5
     DEF Shuts, Parser!Close, Parser!RootMarker, Parser!Closer, Closer
<1>6. CASE bottom.value # -1
  <2>1. /\ stack' = Append(SubSeq(stack, 1, current_base), Parser!Word(root_type, Len(b)))
        /\ current_base' = bottom.value /\ root_type' = bottom.type
        /\ label' = "close_or_comma"
    BY <1>3, <1>4, <1>6 DEF Parser!Close, Parser!RootMarker, Parser!StackAround
  <2>2. /\ label \in {"close_or_first", "close_or_comma"}
        /\ Parser!Here(Closer[root_type]) /\ p' = p + 1 /\ text' = text
    BY DEF Parser!Close, Parser!Closer, Closer
  <2>3. Parser!Word(root_type, Len(b)) = Word(root_type, Len(b))
    BY SameAst
  <2>4. stack' = Append(SubSeq(stack, 1, current_base), Word(root_type, Len(b)))
    BY <2>1, <2>3, Zenon
  <2>5. bottom = stack[current_base + 1] /\ b = Parser!Installed(part)
    BY <1>3
  <2>6. IF bottom.value = -1
          THEN /\ label' = IF p' > Len(text) THEN "accepted" ELSE "rejected"
               /\ root_type' = root_type
          ELSE /\ label' = "close_or_comma"
               /\ stack' = Append(SubSeq(stack, 1, current_base), Word(root_type, Len(b)))
               /\ current_base' = bottom.value /\ root_type' = bottom.type
    BY <1>6, <2>1, <2>4, Zenon
  <2>7. Shuts(part, bottom, b)
    BY <1>2, <1>4, <2>2, <2>5, <2>6, Zenon DEF Shuts
  <2> QED
    BY <2>7
<1> QED
  BY <1>5, <1>6

\* The stack when the container has become an element of the one around it.
LEMMA StackShut ==
  ASSUME NEW s \in Seq(Words), NEW base \in Nat, base < Len(s), NEW w \in Words,
         NEW t, t = Append(SubSeq(s, 1, base), w)
  PROVE  /\ Len(t) = base + 1 /\ t[base + 1] = w
         /\ \A k \in 1 .. base : t[k] = s[k]
<1>1. PICK front : front = SubSeq(s, 1, base)
  OBVIOUS
<1>2. PICK size \in Nat : size = Len(s)
  BY LenProperties
<1>3. \A n \in 1 .. size : s[n] \in Words
  BY <1>2, ElementOfSeq
<1>4. /\ front \in Seq(Words) /\ Len(front) = base
      /\ \A n \in 1 .. base : front[n] = s[n]
  <2>1. \A n \in 1 .. base : s[n] \in Words
    BY <1>2, <1>3
  <2>2. /\ SubSeq(s, 1, base) \in Seq(Words)
        /\ Len(SubSeq(s, 1, base)) = IF 1 <= base THEN base - 1 + 1 ELSE 0
        /\ \A n \in 1 .. base - 1 + 1 : SubSeq(s, 1, base)[n] = s[1 + n - 1]
    BY <2>1, SubSeqProperties
  <2> QED
    BY <1>1, <2>2
<1>5. t = Append(front, w)
  BY <1>1
<1>6. Pushed(front, w, t)
  BY <1>4, <1>5, OneMore
<1> QED
  BY <1>4, <1>6 DEF Pushed

LEMMA CloseFollows ==
  ASSUME ParserInv, FollowInv, RootFirst, Parser!Close
  PROVE  FollowInv'
<1>1. PICK U, parts : ParserFits(U, parts) /\ Full(Current, Len(stack))
  <2>1. label \in {"close_or_first", "close_or_comma"}
    BY DEF Parser!Close
  <2>2. PICK U, parts : ParserFits(U, parts)
    BY <2>1 DEF ParserInv
  <2> QED
    BY <2>1, <2>2 DEF ParserFits, LabelFits
<1>2. PICK part, bottom, b : Shuts(part, bottom, b)
  BY <1>1, CloseShuts
<1>3. /\ label \in {"close_or_first", "close_or_comma"}
      /\ p' = p + 1 /\ text' = text /\ ast' = b /\ bottom = stack[current_base + 1]
  BY <1>2 DEF Shuts
<1>4. PICK s, n, st, bases, W : StandsAt(s, n, st, bases, W)
  BY <1>3, StandsSomewhere DEF InText
<1>5. PICK stk, a, base, type, q :
        stk = stack /\ a = ast /\ base = current_base /\ type = root_type /\ q = p
  OBVIOUS
<1>6. /\ s = text /\ n \in Nat /\ q = n + 1 /\ Len(s) \in Nat /\ n \in 0 .. Len(s)
      /\ st.expects \in {"first", "separator"} /\ st.open # <<>> /\ IsState(st)
      /\ st = Run(s)[n]
      /\ stk \in Seq(Words) /\ Len(stk) \in Nat /\ Len(a) \in Nat
      /\ BasesFit(st, bases, stk, base, type) /\ AstReads(s, W, bases, stk, a, n)
      /\ Depth(s, n) = Len(st.open)
  BY <1>3, <1>4, <1>5 DEF StandsAt, ReadsOn, IsState
<1>7. base \in Nat /\ base < Len(stk) /\ type \in Container
  BY <1>1, <1>5, CurrentFacts
<1>8. type = Inner(st).kind /\ base = bases[Len(st.open)]
  BY <1>6 DEF BasesFit
<1>9. Comes(s, n, q, st) /\ CloserNext(st, s[q])
  <2>1. Comes(s, n, q, st) /\ s[q] = Closer[root_type]
    BY <1>2, <1>4, <1>5, TokenComes DEF Shuts
  <2> QED
    BY <1>5, <1>6, <1>8, <2>1 DEF CloserNext
<1>10. PICK next, depth, o : /\ next = Run(s)[q] /\ depth = Depth(s, n)
                             /\ o = st.open[depth].at
  OBVIOUS
<1>11. /\ CloserRead(Run(s), s, q) /\ next.expects = "separator"
       /\ depth \in Nat \ {0} /\ Depth(s, q) = depth - 1
       /\ \A m \in 1 .. depth - 1 : next.open[m] = st.open[m]
       /\ Inner(st) = st.open[depth] /\ IsState(next)
  BY <1>9, <1>10, CloserComes
<1>12. /\ o \in 1 .. n /\ BracketRead(Run(s), s, o) /\ s[o] = Opener[type]
       /\ Len(Run(s)[o - 1].open) = depth - 1
       /\ \A m \in 1 .. depth - 1 : Run(s)[o - 1].open[m] = st.open[m]
  <2>1. depth \in 1 .. Len(st.open) /\ depth \in 1 .. Depth(s, n)
    BY <1>6, <1>10, <1>11
  <2>2. /\ Len(s) \in Nat /\ n \in 0 .. Len(s) /\ st = Run(s)[n]
        /\ depth \in 1 .. Len(st.open) /\ depth \in 1 .. Depth(s, n)
        /\ o = st.open[depth].at
    BY <1>6, <1>10, <2>1
  <2>3. WasOpened(Run(s), s, n, depth, Run(s)[n].open[depth].at)
    BY <2>2, ScopesOpened
  <2>4. /\ o \in 1 .. n
        /\ \A j \in 1 .. depth - 1 : Run(s)[o - 1].open[j] = st.open[j]
    BY <2>2, <2>3 DEF WasOpened
  <2>5. BracketRead(Run(s), s, o)
    BY <2>2, ScopeRead
  <2>6. /\ s[Run(s)[n].open[depth].at] = Opener[Run(s)[n].open[depth].kind]
        /\ Depth(s, Run(s)[n].open[depth].at - 1) = depth - 1
    BY <2>2, OpenerOf
  <2> QED
    BY <1>8, <1>11, <2>2, <2>4, <2>5, <2>6 DEF Depth
<1>13. Closes(s, n, q, o, depth, st, next, bases, stk, base, type)
  <2>1. \A m \in 1 .. depth : bases[m] \in Nat
    BY <1>6, <1>10 DEF BasesFit
  <2>2. \A m, j \in 1 .. depth : m < j => bases[m] + 1 <= bases[j]
    <3>1. depth \in Nat /\ depth = Len(st.open)
      BY <1>6, <1>10, <1>11
    <3> QED
      BY <1>6, <3>1, BasesIncrease
  <2>3. Len(next.open) = depth - 1 /\ Len(st.open) = depth /\ base = bases[depth]
        /\ type = st.open[depth].kind
    BY <1>6, <1>8, <1>10, <1>11 DEF Depth
  <2> QED
    BY <1>6, <1>7, <1>9, <1>10, <1>11, <1>12, <2>1, <2>2, <2>3 DEF Closes
<1>14. PICK grown, size, count : /\ grown = stack' /\ size = Len(b)
                                 /\ count = CountOf(type, part)
  OBVIOUS
<1>15. PICK later : later = [k \in 1 .. n |-> IF k = o THEN Word(type, size) ELSE W[k]]
  OBVIOUS
<1>16. /\ later[o] = Word(type, size) /\ \A k \in 1 .. n : k # o => later[k] = W[k]
  BY <1>12, <1>15
<1>17. /\ part \in Seq(Words) /\ Len(part) = Len(stk) - base - 1
       /\ \A j \in 1 .. Len(part) : part[j] = stk[base + 1 + j]
  BY <1>2, <1>5 DEF Shuts, Sliced
<1>18. /\ Extends(a, b) /\ size \in Nat \ {0} /\ Back(b, size).value = count
       /\ \A j \in 1 .. Len(part) :
            /\ size - j \in 1 .. size
            /\ Back(b, size - j) = IF AnElement(type, j)
                                     THEN Word(part[j].type, size - part[j].value)
                                     ELSE part[j]
  <2>1. Sliced(stack, current_base, part) /\ b = Parser!Installed(part)
    BY <1>2 DEF Shuts
  <2>2. /\ Extends(ast, b) /\ Len(b) \in Nat \ {0}
        /\ Back(b, Len(b)).value = CountOf(root_type, part)
        /\ \A j \in 1 .. Len(part) :
             /\ Len(b) - j \in 1 .. Len(b)
             /\ Back(b, Len(b) - j) = IF AnElement(root_type, j)
                                        THEN Word(part[j].type, Len(b) - part[j].value)
                                        ELSE part[j]
    BY <1>1, <2>1, PartInstalled
  <2> QED
    BY <1>5, <1>14, <2>2
<1>19. count = CountAt(st)
  <2>1. st.expects = "first" => Inner(st).index = 0
    BY <1>6, FirstIndex
  <2>2. /\ IsState(st) /\ st.open # <<>> /\ st.expects \in {"first", "separator"}
        /\ base \in Nat /\ BasesFit(st, bases, stk, base, type)
        /\ Len(part) = Len(stk) - base - 1
    BY <1>6, <1>7, <1>17
  <2>3. CountOf(type, part) = CountAt(st)
    BY <2>1, <2>2, CountClosed
  <2> QED
    BY <1>14, <2>3
<1>20. bottom.value = -1 <=> depth = 1
  <2>1. depth = Len(st.open) /\ bottom = stk[bases[depth] + 1]
    BY <1>3, <1>5, <1>6, <1>8, <1>10
  <2>2. CASE depth = 1
    BY <1>6, <2>1, <2>2 DEF BasesFit
  <2>3. CASE depth # 1
    <3>1. depth \in 2 .. depth /\ depth - 1 \in 1 .. depth
      BY <1>11, <2>3
    <3>2. bottom = Word(st.open[depth - 1].kind, bases[depth - 1])
          /\ bases[depth - 1] \in Nat
      BY <1>6, <2>1, <3>1 DEF BasesFit
    <3> QED
      BY <2>3, <3>2 DEF Word
  <2> QED
    BY <2>2, <2>3
<1>21. Becomes(n, o, depth, stk, grown, a, b, base, type, size, count, W, later)
  <2>1. ASSUME depth # 1
        PROVE  /\ Len(grown) = base + 1 /\ grown[base + 1] = later[o]
               /\ \A k \in 1 .. base : grown[k] = stk[k]
    <3>1. PICK w : w = Word(type, size)
      OBVIOUS
    <3>2. grown = Append(SubSeq(stk, 1, base), w)
      BY <1>2, <1>5, <1>14, <1>20, <2>1, <3>1 DEF Shuts
    <3>3. w \in Words
      BY <1>7, <1>18, <3>1 DEF Word, Words, SajsonType, Container
    <3>4. /\ Len(grown) = base + 1 /\ grown[base + 1] = w
          /\ \A k \in 1 .. base : grown[k] = stk[k]
      BY <1>6, <1>7, <3>2, <3>3, StackShut
    <3> QED
      BY <1>16, <3>1, <3>4
  <2>2. \A j \in 1 .. Len(stk) - base - 1 :
          /\ size - j \in 1 .. size
          /\ Back(b, size - j) =
               IF AnElement(type, j)
                 THEN Word(stk[base + 1 + j].type, size - stk[base + 1 + j].value)
                 ELSE stk[base + 1 + j]
    BY <1>17, <1>18
  <2>3. /\ count \in Nat
        /\ Len(stk) - base - 1 <= (IF type = "object" THEN 3 * count ELSE count)
    <3>1. PICK index \in Nat : index = Inner(st).index
      BY <1>6, InnerFacts
    <3>2. st.expects = "first" => index = 0
      BY <1>6, <3>1, FirstIndex
    <3>3. Len(stk) = base + 1 + Height(st) /\ Inner(st).kind = type
      BY <1>6 DEF BasesFit
    <3>4. count = IF st.expects = "first" THEN 0 ELSE index + 1
      BY <1>19, <3>1 DEF CountAt
    <3>5. Height(st) = IF st.expects = "first" THEN 0
                       ELSE IF type = "object" THEN 3 * index + 3 ELSE index + 1
      <4>1. CASE st.expects = "separator"
        BY <3>1, <3>3, <4>1 DEF Height, PlaceOf
      <4>2. CASE st.expects = "first"
        <5>1. KeyNext(st) <=> type = "object"
          BY <3>3, <4>2 DEF KeyNext
        <5> QED
          BY <3>1, <3>2, <3>3, <4>2, <5>1 DEF Height, PlaceOf
      <4> QED
        BY <1>6, <4>1, <4>2
    <3>6. Len(stk) - base - 1 = Height(st)
      <4>1. PICK height : height = Height(st)
        OBVIOUS
      <4>2. height \in Nat
        <5>1. 3 * index + 3 \in Nat /\ index + 1 \in Nat
          OBVIOUS
        <5> QED
          BY <3>5, <4>1, <5>1
      <4>3. Len(stk) = base + 1 + height
        BY <3>3, <4>1
      <4>4. Len(stk) - base - 1 = height
        BY <1>7, <4>2, <4>3
      <4> QED
        BY <4>1, <4>4
    <3> QED
      BY <3>1, <3>4, <3>5, <3>6
  <2> QED
    BY <1>14, <1>16, <1>18, <2>1, <2>2, <2>3 DEF Becomes
<1>22. AstReads(s, later, bases, grown, b, q)
  BY <1>6, <1>13, <1>19, <1>21, ClosedReads
<1>23. p' - 1 = q /\ p' \in Nat \ {0} /\ Len(text') \in Nat /\ q \in 0 .. Len(s)
  <2>1. q \in 1 .. Len(s)
    BY <1>9, ComesFacts
  <2> QED
    BY <1>3, <1>5, <1>6, <2>1
<1>24. CASE depth = 1
  <2>1. /\ label' = "rejected" \/ (label' = "accepted" /\ p' > Len(text))
        /\ root_type' = root_type
    BY <1>2, <1>20, <1>24 DEF Shuts
  <2>2. CASE label' = "rejected"
    BY <1>23, <2>2 DEF FollowInv, InText
  <2>3. CASE label' = "accepted" /\ p' > Len(text)
    <3>1. q = Len(s)
      <4>1. q \in 1 .. Len(s) /\ q + 1 > Len(s)
        BY <1>3, <1>5, <1>6, <1>9, <2>3, ComesFacts
      <4> QED
        BY <1>6, <4>1
    <3>2. IsWhole(next)
      BY <1>10, <1>11, <1>24, EmptySeq DEF IsWhole, IsState, Depth
    <3>3. o = 1
      <4>1. s[1] \in Opening
        BY <1>3, <1>6 DEF RootFirst
      <4>2. PICK kind \in Container : s[1] = Opener[kind]
        BY <4>1, TokenNames
      <4>3. PICK r : r = Run(s)
        OBVIOUS
      <4>4. Comes(s, 0, 1, Outset) /\ ValueNext(Outset)
        BY <1>6, <3>1, <1>9, RunSteps, RunStates, ComesFacts
           DEF Comes, Outset, ValueNext
      <4>5. r[1].open[1].at = 1 /\ Depth(s, 1) = 1
        <5>1. /\ Depth(s, 1) = Depth(s, 0) + 1
              /\ Run(s)[1].open[Depth(s, 0) + 1] = [at |-> 1, kind |-> kind, index |-> 0]
          BY <4>2, <4>4, BracketComes
        <5>2. Depth(s, 0) = 0
          BY <1>6, RunSteps, EmptySeq DEF Depth, Outset
        <5> QED
          BY <4>3, <5>1, <5>2
      <4>6. q \in 0 .. Len(s) /\ IsWhole(r[q]) /\ 1 \in 0 .. q /\ 1 \in 1 .. Len(r[1].open)
        BY <1>6, <1>10, <1>23, <3>2, <4>3, <4>5 DEF Depth
      <4>7. ClosesLater(r, s, q, 1, 1)
        BY <1>6, <4>3, <4>6, ClosedLater
      <4>8. PICK e \in 2 .. q : CloserNext(r[e - 1], s[e]) /\ Inner(r[e - 1]).at = 1
        <5>1. 1 + 1 = 2
          OBVIOUS
        <5> QED
          BY <4>5, <4>7, <5>1 DEF ClosesLater
      <4>9. e \in 1 .. Len(s) /\ e - 1 \in 0 .. Len(s) /\ e - 1 \in 1 .. q /\ e - 1 \in Nat
        BY <3>1, <4>8
      <4>10. PICK before, m : before = r[e - 1] /\ m = Len(before.open)
        OBVIOUS
      <4>11. /\ IsState(before) /\ before.open # <<>>
             /\ m \in Nat \ {0} /\ Inner(before) = before.open[m]
        BY <1>6, <4>3, <4>8, <4>9, <4>10, RunStates, InnerFacts DEF CloserNext
      <4>12. Depth(s, 0) = m - 1
        <5>1. m \in 1 .. Depth(s, e - 1) /\ Run(s)[e - 1].open[m].at = 1
          BY <4>3, <4>8, <4>10, <4>11 DEF Depth
        <5>2. Depth(s, Run(s)[e - 1].open[m].at - 1) = m - 1
          BY <1>6, <4>9, <5>1, OpenerOf
        <5> QED
          BY <5>1, <5>2
      <4>13. m = 1
        <5>1. Depth(s, 0) = 0
          BY <1>6, RunSteps, EmptySeq DEF Depth, Outset
        <5> QED
          BY <4>11, <4>12, <5>1
      <4>14. IsWhole(r[e])
        <5>1. r[e] = Shallower(before)
          <6>1. TokenReads(Run(s)[e - 1], Shallower(before), s[e], e)
            BY <4>3, <4>8, <4>10 DEF TokenReads
          <6> QED
            BY <1>6, <4>3, <4>9, <6>1, TokenRead
        <5>2. /\ IsState(Shallower(before)) /\ Shallower(before).expects = "separator"
              /\ Len(Shallower(before).open) = 0
          <6>1. /\ IsState(Shallower(before)) /\ Shallower(before).expects = "separator"
                /\ Len(Shallower(before).open) = Len(before.open) - 1
            BY <4>11, ShallowerState
          <6>2. Len(before.open) = 1
            BY <4>10, <4>13
          <6>3. Len(Shallower(before).open) = 0
            BY <6>1, <6>2
          <6> QED
            BY <6>1, <6>3
        <5> QED
          BY <5>1, <5>2, EmptySeq DEF IsWhole, IsState
      <4>15. e = q
        BY <1>6, <4>3, <4>6, <4>8, <4>14, WholeIsLast, SMTT(20)
      <4> QED
        BY <1>6, <1>10, <1>11, <1>24, <4>3, <4>8, <4>10, <4>15
    <3>4. AstHolds(s, b, type)
      <4>1. Len(s) # 0 /\ IsWhole(Run(s)[Len(s)])
        BY <1>6, <1>10, <3>1, <3>2
      <4>2. later[1] = Word(type, Len(b))
        BY <1>14, <1>16, <3>3
      <4> QED
        BY <1>22, <3>1, <4>1, <4>2 DEF AstHolds
    <3>5. AstHolds(text', ast', root_type')
      BY <1>3, <1>5, <1>6, <2>1, <2>3, <3>4
    <3> QED
      BY <1>23, <2>3, <3>5 DEF FollowInv, InText
  <2> QED
    BY <2>1, <2>2, <2>3
<1>25. CASE depth # 1
  <2>1. /\ label' = "close_or_comma"
        /\ current_base' = bottom.value /\ root_type' = bottom.type
    BY <1>2, <1>20, <1>25 DEF Shuts
  <2>2. bottom = Word(st.open[depth - 1].kind, bases[depth - 1])
    <3>1. depth \in 2 .. depth
      BY <1>11, <1>25
    <3>2. depth = Len(st.open) /\ bottom = stk[bases[depth] + 1]
      BY <1>3, <1>5, <1>6, <1>8, <1>10
    <3> QED
      BY <1>6, <3>1, <3>2 DEF BasesFit
  <2>3. current_base' = bases[depth - 1] /\ root_type' = st.open[depth - 1].kind
    BY <2>1, <2>2 DEF Word
  <2>4. BasesFit(next, bases, grown, bases[depth - 1], st.open[depth - 1].kind)
    BY <1>13, <1>21, <1>25, BasesClose
  <2>5. next.open # <<>>
    <3>1. Len(next.open) = depth - 1 /\ depth - 1 # 0
      BY <1>10, <1>11, <1>25 DEF Depth
    <3> QED
      BY <3>1, EmptySeq
  <2>6. ReadsOn("close_or_comma", next)
    BY <1>11, <2>5 DEF ReadsOn
  <2>7. AstFollows(s, q, grown, b, current_base', root_type')
    BY <1>10, <1>22, <1>23, <2>3, <2>4 DEF AstFollows
  <2>8. AstFollows(text', p' - 1, stack', ast', current_base', root_type')
    BY <1>3, <1>6, <1>14, <1>23, <2>7
  <2>9. ReadsOn(label', Run(text')[p' - 1])
    BY <1>3, <1>6, <1>10, <1>23, <2>1, <2>6
  <2> QED
    BY <1>23, <2>1, <2>8, <2>9 DEF FollowInv
<1> QED
  BY <1>24, <1>25

LEMMA BeginFollows ==
  ASSUME ParserInv, FollowInv, Parser!Begin, label' # "rejected"
  PROVE  FollowInv'
<1>1. PICK type \in Container : Parser!Open(type, Parser!Word(type, Parser!RootMarker))
  BY SameAst DEF Parser!Begin, Parser!Reject
<1>2. PICK bottom : bottom = Word(type, -1)
  OBVIOUS
<1>3. Parser!Word(type, Parser!RootMarker) = bottom
  BY <1>2, SameAst DEF Parser!RootMarker
<1>4. Parser!Open(type, bottom)
  BY <1>1, <1>3, Zenon
<1>5. bottom \in Words
  BY <1>2 DEF Word, Words, SajsonType, Container
<1>6. label = "begin"
  BY DEF Parser!Begin
<1> QED
  BY <1>2, <1>4, <1>5, <1>6, OpenFollows

LEMMA OpenElementFollows ==
  ASSUME ParserInv, FollowInv, Parser!OpenElement
  PROVE  FollowInv'
<1>1. PICK type \in Container :
        Parser!Open(type, Parser!Word(root_type, current_base))
  BY SameAst DEF Parser!OpenElement
<1>2. PICK bottom : bottom = Word(root_type, current_base)
  OBVIOUS
<1>3. Parser!Word(root_type, current_base) = bottom
  BY <1>2, SameAst
<1>4. Parser!Open(type, bottom)
  BY <1>1, <1>3, Zenon
<1>5. label = "next_element"
  BY DEF Parser!OpenElement, Parser!NextElement
<1>6. PICK U, parts : ParserFits(U, parts)
  BY <1>5 DEF ParserInv
<1>7. bottom \in Words
  BY <1>2, <1>6, CurrentFacts DEF Word, Words, SajsonType, Container
<1> QED
  BY <1>2, <1>4, <1>5, <1>7, OpenFollows

\* Parser!Init has the machine at the first token, and nothing was read.
LEMMA FollowStarts ==
  ASSUME Parser!Init, Len(text) \in Nat
  PROVE  FollowInv
<1>1. /\ label = "begin" /\ p = 1 /\ p - 1 = 0 /\ stack = <<>> /\ ast = <<>>
  BY DEF Parser!Init
<1>2. PICK s : s = text
  OBVIOUS
<1>3. Len(s) \in Nat /\ 0 \in 0 .. Len(s) /\ Run(s)[0] = Outset
  BY <1>2, RunSteps
<1>4. Outset.open = <<>> /\ Len(Outset.open) = 0
  BY DEF Outset
<1>5. PICK W, bases : W = 0 /\ bases = 0
  OBVIOUS
<1>6. BasesFit(Outset, bases, stack, current_base, root_type)
  BY <1>1, <1>4 DEF BasesFit
<1>7. AstReads(s, W, bases, stack, ast, 0)
  BY DEF AstReads
<1>8. AstFollows(s, 0, stack, ast, current_base, root_type)
  BY <1>3, <1>6, <1>7 DEF AstFollows
<1>9. ReadsOn(label, Outset)
  BY <1>1 DEF ReadsOn
<1>10. AstFollows(text, p - 1, stack, ast, current_base, root_type)
       /\ ReadsOn(label, Run(text)[p - 1])
  BY <1>1, <1>2, <1>3, <1>8, <1>9
<1> QED
  BY <1>1, <1>10 DEF FollowInv

\* Every step of the parser keeps to the text.
LEMMA FollowKeeps ==
  ASSUME ParserInv, FollowInv, RootFirst, Parser!Parse
  PROVE  FollowInv'
<1>1. ASSUME UNCHANGED <<text, p>>, label' = "rejected"
      PROVE  FollowInv'
  BY <1>1 DEF FollowInv, InText
<1>2. CASE Parser!Begin
  BY <1>1, <1>2, BeginFollows DEF Parser!Begin, Parser!Reject, Parser!Open
<1>3. CASE Parser!AtomElement \/ Parser!NumberElement \/ Parser!StringElement
  BY <1>3, ElementFollows
<1>4. CASE Parser!OpenElement
  BY <1>4, OpenElementFollows
<1>5. CASE Parser!NoElement \/ Parser!NoSeparator
  BY <1>1, <1>5 DEF Parser!NoElement, Parser!NoSeparator, Parser!Reject
<1>6. CASE Parser!First
  BY <1>6, FirstFollows
<1>7. CASE Parser!Comma
  BY <1>7, CommaFollows
<1>8. CASE Parser!ObjectKey
  BY <1>1, <1>8, KeyFollows DEF Parser!ObjectKey, Parser!Reject
<1>9. CASE Parser!Close
  BY <1>9, CloseFollows
<1> QED
  BY <1>2, <1>3, <1>4, <1>5, <1>6, <1>7, <1>8, <1>9 DEF Parser!Parse

-----------------------------------------------------------------------------
(***************************************************************************)
(* The AST of a text that was accepted.                                    *)
(***************************************************************************)

\* The value that starts at a position.
ValueAt(W, a, q) == [type |-> W[q].type, at |-> Len(a) + 1 - W[q].value]
SizeAt(W, a, o) == Back(a, W[o].value).value

AstIs(s, W, a, type) ==
  /\ Len(s) \in Nat \ {0} /\ IsWhole(Run(s)[Len(s)]) /\ Len(a) \in Nat
  /\ FirstEvent(s) = 1 /\ BracketRead(Run(s), s, 1)
  /\ W[1] = Word(type, Len(a))
  /\ \A q \in 1 .. Len(s) : ScalarRead(Run(s), s, q) => ScalarHeld(s, W, a, q)
  /\ \A q \in 1 .. Len(s) : KeyRead(Run(s), s, q) => W[q].value = Payload("string", q)
  /\ \A q \in 1 .. Len(s) : BracketRead(Run(s), s, q) =>
       /\ W[q].type \in Container /\ s[q] = Opener[W[q].type]
       /\ W[q].value \in 1 .. Len(a) /\ SizeAt(W, a, q) \in Nat
  /\ \A q \in 1 .. Len(s) : CloserRead(Run(s), s, q) =>
       SizeAt(W, a, Host(s, q).at) = CountAt(Run(s)[q - 1])
  /\ \A q \in 1 .. Len(s) :
       IsItem(s, q) /\ Depth(s, q - 1) # 0 => Stored(s, W, a, q)

LEMMA BracketsHeld ==
  ASSUME NEW s, Len(s) \in Nat, NEW last, last = Len(s), IsWhole(Run(s)[last]),
         NEW W, NEW bases, NEW stk, NEW a, AstReads(s, W, bases, stk, a, last),
         NEW q \in 1 .. last, BracketRead(Run(s), s, q)
  PROVE  /\ W[q].type \in Container /\ s[q] = Opener[W[q].type]
         /\ W[q].value \in 1 .. Len(a) /\ SizeAt(W, a, q) \in Nat
<1>1. PICK r : r = Run(s)
  OBVIOUS
<1>2. PICK kind \in Container :
        s[q] = Opener[kind] /\ r[q] = Deeper(r[q - 1], kind, q)
  BY <1>1 DEF BracketRead
<1>3. q - 1 \in 0 .. Len(s) /\ q \in 0 .. last /\ q \in Nat \ {0} /\ q \in 0 .. Len(s)
      /\ last \in 0 .. Len(s)
  OBVIOUS
<1>4. PICK st : st = r[q - 1]
  OBVIOUS
<1>5. IsState(st)
  BY <1>1, <1>3, <1>4, RunStates
<1>6. PICK m : m = Len(st.open) + 1
  OBVIOUS
<1>7. m \in 1 .. Len(r[q].open) /\ r[q].open[m].at = q
  <2>1. /\ Len(st.open) \in Nat
        /\ Len(Deeper(st, kind, q).open) = Len(st.open) + 1
        /\ Deeper(st, kind, q).open[Len(st.open) + 1] =
             [at |-> q, kind |-> kind, index |-> 0]
    BY <1>3, <1>5, DeeperState
  <2>2. r[q] = Deeper(st, kind, q)
    BY <1>2, <1>4
  <2> QED
    BY <1>6, <2>1, <2>2
<1>8. ClosesLater(r, s, last, q, m)
  BY <1>1, <1>3, <1>7, ClosedLater
<1>9. PICK e \in q + 1 .. last :
        CloserNext(r[e - 1], s[e]) /\ Inner(r[e - 1]).at = q
  BY <1>7, <1>8 DEF ClosesLater
<1>10. e \in 1 .. last /\ e \in 1 .. Len(s) /\ e - 1 \in 0 .. Len(s)
  BY <1>3
<1>11. CloserRead(Run(s), s, e)
  <2>1. TokenReads(Run(s)[e - 1], Shallower(Run(s)[e - 1]), s[e], e)
    BY <1>1, <1>9 DEF TokenReads
  <2>2. Run(s)[e] = Shallower(Run(s)[e - 1])
    BY <1>10, <2>1, TokenRead
  <2> QED
    BY <1>1, <1>9, <2>2 DEF CloserRead
<1>12. PICK before, depth : before = r[e - 1] /\ depth = Len(before.open)
  OBVIOUS
<1>13. /\ depth \in 1 .. Len(r[e - 1].open) /\ Inner(before) = before.open[depth]
       /\ Inner(before).kind \in Container /\ CountAt(before) \in Nat
  <2>1. IsState(before) /\ before.open # <<>>
    BY <1>1, <1>9, <1>10, <1>12, RunStates DEF CloserNext
  <2> QED
    BY <1>12, <2>1, InnerFacts DEF CountAt
<1>14. WasOpened(r, s, e - 1, depth, r[e - 1].open[depth].at)
  BY <1>1, <1>10, <1>13, ScopesOpened
<1>15. s[q] = Opener[Inner(before).kind]
  BY <1>9, <1>12, <1>13, <1>14 DEF WasOpened
<1>16. PICK distance \in 1 .. Len(a) :
         /\ W[Host(s, e).at] = Word(Host(s, e).kind, distance)
         /\ Back(a, distance).value = CountAt(Run(s)[e - 1])
  BY <1>10, <1>11 DEF AstReads, ContainerHeld
<1>17. Host(s, e).at = q /\ Host(s, e).kind = Inner(before).kind
  BY <1>1, <1>9, <1>12 DEF Host
<1>18. W[q].type = Inner(before).kind /\ W[q].value = distance
  BY <1>16, <1>17 DEF Word
<1> QED
  BY <1>1, <1>12, <1>13, <1>15, <1>16, <1>18 DEF SizeAt

LEMMA AstSize == ParserInv => Len(ast) \in Nat
<1>1. CASE ast = <<>>
  BY <1>1
<1>2. ASSUME NEW U, NEW parts, ParserFits(U, parts)
      PROVE  Len(ast) \in Nat
  <2>1. ast \in Seq(Words)
    BY <1>2 DEF ParserFits, ElementsFit
  <2> QED
    BY <2>1, LenProperties
<1> QED
  BY <1>1, <1>2 DEF ParserInv

LEMMA AstRead ==
  ASSUME FollowInv, RootFirst, label = "accepted", Len(ast) \in Nat
  PROVE  \E W : AstIs(text, W, ast, root_type)
<1>1. PICK s, a, type, last :
        s = text /\ a = ast /\ type = root_type /\ last = Len(s)
  OBVIOUS
<1>2. /\ AstHolds(s, a, type) /\ Len(s) \in Nat /\ s[1] \in Opening /\ Len(a) \in Nat
  BY <1>1 DEF FollowInv, RootFirst
<1>3. PICK W, bases, stk :
        W[1] = Word(type, Len(a)) /\ AstReads(s, W, bases, stk, a, last)
  BY <1>1, <1>2 DEF AstHolds
<1>4. IsWhole(Run(s)[last]) /\ last \in Nat \ {0} /\ last \in 0 .. Len(s) /\ 1 \in 1 .. last
  BY <1>1, <1>2 DEF AstHolds
<1>5. Depth(s, last) = 0
  BY <1>4, EmptySeq DEF Depth, IsWhole
<1>6. \A q : ~IsOpen(s, last, q)
  <2>1. \A m \in 1 .. 0 : FALSE
    OBVIOUS
  <2> QED
    BY <1>5, <2>1 DEF IsOpen
<1>7. ASSUME NEW q \in 1 .. last, IsItem(s, q), Depth(s, q - 1) # 0
      PROVE  Stored(s, W, a, q)
  <2>1. Placed(s, W, bases, stk, a, last, q)
    BY <1>3, <1>6, <1>7 DEF AstReads
  <2>2. q \in 1 .. Len(s)
    BY <1>1
  <2>3. Depth(s, q - 1) \in Nat
    BY <1>2, <2>2, HostFacts
  <2>4. ~HostOpen(s, last, q)
    BY <1>5, <1>7, <2>3 DEF HostOpen
  <2> QED
    BY <1>7, <2>1, <2>4 DEF Placed
<1>8. FirstEvent(s) = 1 /\ BracketRead(Run(s), s, 1)
  <2>1. s[1] # "EF" /\ s[1] \notin ScalarKind
    BY <1>2, TokenNames
  <2>2. FirstEvent(s) = 1
    BY <2>1 DEF FirstEvent
  <2>3. ScalarRead(Run(s), s, 1) \/ BracketRead(Run(s), s, 1)
    <3>1. PICK r : r = Run(s)
      OBVIOUS
    <3> QED
      BY <1>2, <1>4, <2>2, <3>1, FirstIs
  <2> QED
    BY <2>1, <2>2, <2>3 DEF ScalarRead
<1>9. \A q \in 1 .. last : BracketRead(Run(s), s, q) =>
        /\ W[q].type \in Container /\ s[q] = Opener[W[q].type]
        /\ W[q].value \in 1 .. Len(a) /\ SizeAt(W, a, q) \in Nat
  BY <1>1, <1>2, <1>3, <1>4, BracketsHeld
<1>10. \A q \in 1 .. last : KeyRead(Run(s), s, q) => W[q].value = Payload("string", q)
  <2>1. \A q \in 1 .. last :
          KeyRead(Run(s), s, q) => W[q] = Word("text", Payload("string", q))
    BY <1>3 DEF AstReads
  <2>2. \A payload : Word("text", payload).value = payload
    BY DEF Word
  <2> QED
    BY <2>1, <2>2
<1>11. \A q \in 1 .. last : CloserRead(Run(s), s, q) =>
         SizeAt(W, a, Host(s, q).at) = CountAt(Run(s)[q - 1])
  <2>1. \A q \in 1 .. last : CloserRead(Run(s), s, q) => ContainerHeld(s, W, a, q)
    BY <1>3 DEF AstReads
  <2>2. ASSUME NEW q \in 1 .. last, ContainerHeld(s, W, a, q)
        PROVE  SizeAt(W, a, Host(s, q).at) = CountAt(Run(s)[q - 1])
    <3>1. PICK distance \in 1 .. Len(a) :
            /\ W[Host(s, q).at] = Word(Host(s, q).kind, distance)
            /\ Back(a, distance).value = CountAt(Run(s)[q - 1])
      BY <2>2 DEF ContainerHeld
    <3>2. W[Host(s, q).at].value = distance
      BY <3>1 DEF Word
    <3> QED
      BY <3>1, <3>2 DEF SizeAt
  <2> QED
    BY <2>1, <2>2
<1>12. \A q \in 1 .. last : ScalarRead(Run(s), s, q) => ScalarHeld(s, W, a, q)
  BY <1>3 DEF AstReads
<1>13. AstIs(s, W, a, type)
  BY <1>1, <1>2, <1>3, <1>4, <1>7, <1>8, <1>9, <1>10, <1>11, <1>12 DEF AstIs
<1> QED
  BY <1>1, <1>13

-----------------------------------------------------------------------------
(***************************************************************************)
(* The walk. A helper for every container that is open, at the element     *)
(* that was read; one whose container was just shown is before its first.  *)
(***************************************************************************)

\* The helper of the container m of a state of reading.
HelperIs(helper, W, a, st, m) ==
  /\ helper = [value |-> helper.value, current_type |-> helper.current_type,
               index |-> helper.index]
  /\ helper.value = ValueAt(W, a, st.open[m].at)
  /\ helper.index = IF m = Len(st.open) /\ st.expects = "first" THEN -1
                                                               ELSE st.open[m].index
  /\ helper.current_type = "key" <=> m = Len(st.open) /\ st.expects = "colon"
HelpersAre(helpers, W, a, st) ==
  /\ \E S : helpers \in Seq(S)
  /\ Len(helpers) = Len(st.open)
  /\ \A m \in 1 .. Len(st.open) : HelperIs(helpers[m], W, a, st, m)

ShownAt(type, s, W, a, q) ==
  /\ ScalarRead(Run(s), s, q) => type = TypeOf(ValueAt(W, a, q))
  /\ BracketRead(Run(s), s, q) => type = W[q].type
  /\ KeyRead(Run(s), s, q) => type = "key"
  /\ CloserRead(Run(s), s, q) => type = "end_of_container"

WalkReads(s, W, a, q) ==
  IF q = 0
    THEN current_type = "end_of_document" /\ container_stack = <<>>
    ELSE /\ q \in 1 .. Len(s) /\ IsEvent(s, q)
         /\ ShownAt(current_type, s, W, a, q)
         /\ HelpersAre(container_stack, W, a, Run(s)[q])
         /\ ScalarRead(Run(s), s, q) \/ KeyRead(Run(s), s, q) =>
              Top.current_type = current_type

\* next() moves the helper on top to an index and shows a type.
Standing(value, type, index) ==
  [value |-> value, current_type |-> type, index |-> index]
Shows(value, index, type) ==
  /\ current_type' = type
  /\ container_stack' =
       CASE type = "end_of_container" -> Front(container_stack)
         [] type \in Container ->
              Front(container_stack) \o
                <<Standing(value, type, index), Helper(ElementOf(ast, value, index))>>
         [] OTHER -> Append(Front(container_stack), Standing(value, type, index))

\* The helper on top, in the state of reading st.
TopIsAs(st, value, index) ==
  /\ container_stack # <<>>
  /\ Top = [value |-> Top.value, current_type |-> Top.current_type, index |-> Top.index]
  /\ Top.value = value
  /\ Top.index = IF st.expects = "first" THEN -1 ELSE index
  /\ Top.current_type = "key" <=> st.expects = "colon"

LEMMA ShowIs ==
  ASSUME Top = [value |-> Top.value, current_type |-> Top.current_type, index |-> Top.index],
         NEW index, NEW type, Show(index, type)
  PROVE  Shows(Top.value, index, type)
<1>1. PICK top : top = Top
  OBVIOUS
<1>2. PICK helper : helper = Moved(index, type)
  OBVIOUS
<1>3. helper = Standing(top.value, type, index)
  <2>1. top = [value |-> top.value, current_type |-> top.current_type,
               index |-> top.index]
    BY <1>1
  <2>2. helper = [top EXCEPT !.index = index, !.current_type = type]
    BY <1>1, <1>2 DEF Moved
  <2> QED
    BY <2>1, <2>2 DEF Standing
<1>4. Element(helper) = ElementOf(ast, top.value, index)
  BY <1>3 DEF Element, Standing
<1>5. /\ current_type' = type
      /\ container_stack' =
           CASE type = "end_of_container" -> Front(container_stack)
             [] type \in Container -> Front(container_stack) \o <<helper, Helper(Element(helper))>>
             [] OTHER -> Append(Front(container_stack), helper)
  BY <1>2 DEF Show
<1> QED
  BY <1>1, <1>3, <1>4, <1>5 DEF Shows

\* What next() does: it stays at the index of a key, and goes on to the next
\* element after anything else.
LEMMA TopDoes ==
  ASSUME CallNext, NEW st, NEW value, NEW index \in Nat, TopIsAs(st, value, index),
         value.type \in Container, st.expects = "first" => index = 0,
         st.expects = "colon" => value.type = "object",
         NEW size \in Nat, size = LengthOf(ast, value),
         NEW next, next = IF st.expects \in {"first", "colon"} THEN index ELSE index + 1
  PROVE  /\ next >= size => Shows(value, next, "end_of_container")
         /\ next < size =>
              Shows(value, next,
                    IF value.type = "object" /\ st.expects # "colon" THEN "key"
                    ELSE TypeOf(ElementOf(ast, value, next)))
<1>1. PICK top : top = Top
  OBVIOUS
<1>2. /\ container_stack # <<>>
      /\ top = [value |-> top.value, current_type |-> top.current_type, index |-> top.index]
      /\ top.value = value /\ (top.current_type = "key" <=> st.expects = "colon")
      /\ top.index = IF st.expects = "first" THEN -1 ELSE index
  BY <1>1 DEF TopIsAs
<1>3. next \in Nat /\ (next >= size <=> ~(next < size))
  OBVIOUS
<1>4. \A type : Show(next, type) => Shows(value, next, type)
  BY <1>1, <1>2, ShowIs
<1>5. LengthOf(ast, Top.value) = size /\ Top = top
  BY <1>1, <1>2
<1>6. [Top EXCEPT !.index = next] = [value |-> value, current_type |-> top.current_type,
                                     index |-> next]
  BY <1>1, <1>2
<1>7. Element([Top EXCEPT !.index = next]) = ElementOf(ast, value, next)
  BY <1>6 DEF Element
<1>8. CASE value.type = "object"
  <2>1. ObjectNext
    BY <1>2, <1>5, <1>8 DEF CallNext, ArrayNext, TopIs, DocumentEnded
  <2>2. NextMember = next
    BY <1>2, <1>5 DEF NextMember
  <2>3. \/ next >= size /\ Show(next, "end_of_container")
        \/ ~(next >= size) /\ top.current_type # "key" /\ Show(next, "key")
        \/ /\ ~(next >= size) /\ top.current_type = "key"
           /\ Show(next, TypeOf(ElementOf(ast, value, next)))
    BY <1>5, <1>7, <2>1, <2>2 DEF ObjectNext, Ended
  <2> QED
    BY <1>2, <1>3, <1>4, <1>8, <2>3
<1>9. CASE value.type = "array"
  <2>1. ArrayNext
    BY <1>2, <1>5, <1>9 DEF CallNext, ObjectNext, TopIs, DocumentEnded
  <2>2. Top.index + 1 = next
    BY <1>2, <1>5, <1>9
  <2>3. \/ next >= size /\ Show(next, "end_of_container")
        \/ ~(next >= size) /\ Show(next, TypeOf(ElementOf(ast, value, next)))
    BY <1>5, <1>7, <2>1, <2>2 DEF ArrayNext, Ended
  <2> QED
    BY <1>3, <1>4, <1>9, <2>3
<1> QED
  BY <1>8, <1>9, TokenNames

LEMMA CallsNothing ==
  ASSUME CallNext, container_stack = <<>>
  PROVE  current_type' = "end_of_document" /\ container_stack' = container_stack
BY DEF CallNext, TopIs, ObjectNext, ArrayNext, DocumentEnded

\* The helper on top moves on.
LEMMA TopMoves ==
  ASSUME NEW helpers, NEW W, NEW a, NEW st, HelpersAre(helpers, W, a, st),
         Len(st.open) \in Nat \ {0},
         NEW later, SameOpen(st, later), later.expects # "first",
         NEW helper, HelperIs(helper, W, a, later, Len(later.open))
  PROVE  HelpersAre(Append(Front(helpers), helper), W, a, later)
<1>1. PICK S : helpers \in Seq(S)
  BY DEF HelpersAre
<1>2. PICK T : T = S \cup {helper}
  OBVIOUS
<1>3. helpers \in Seq(T) /\ helper \in T
  BY <1>1, <1>2
<1>4. PICK depth \in Nat \ {0} : depth = Len(st.open)
  OBVIOUS
<1>5. Len(helpers) = depth /\ helpers # <<>>
  BY <1>4, EmptySeq DEF HelpersAre
<1>6. PICK new : new = Append(Front(helpers), helper)
  OBVIOUS
<1>7. /\ new \in Seq(T) /\ Len(new) = depth /\ new[depth] = helper
      /\ \A m \in 1 .. depth - 1 : new[m] = helpers[m]
  <2>1. /\ Append(Front(helpers), helper) \in Seq(T)
        /\ Len(Append(Front(helpers), helper)) = Len(helpers)
        /\ \A m \in 1 .. Len(helpers) - 1 : Append(Front(helpers), helper)[m] = helpers[m]
        /\ Append(Front(helpers), helper)[Len(helpers)] = helper
    BY <1>3, <1>5, ReplaceTop
  <2> QED
    BY <1>5, <1>6, <2>1
<1>8. Len(later.open) = depth
  BY <1>4 DEF SameOpen
<1>9. ASSUME NEW m \in 1 .. depth
      PROVE  HelperIs(new[m], W, a, later, m)
  <2>1. CASE m = depth
    BY <1>7, <1>8, <2>1
  <2>2. CASE m # depth
    <3>1. m \in 1 .. depth - 1
      BY <1>4, <2>2
    <3>2. later.open[m] = st.open[m] /\ new[m] = helpers[m]
      BY <1>4, <1>7, <3>1 DEF SameOpen
    <3>3. HelperIs(helpers[m], W, a, st, m)
      BY <1>4, <3>1 DEF HelpersAre
    <3> QED
      BY <1>4, <1>8, <2>2, <3>2, <3>3 DEF HelperIs
  <2> QED
    BY <2>1, <2>2
<1> QED
  BY <1>6, <1>7, <1>8, <1>9 DEF HelpersAre

\* The container it is at gets a helper of its own.
LEMMA ContainerShown ==
  ASSUME NEW helpers, NEW W, NEW a, NEW st, HelpersAre(helpers, W, a, st),
         Len(st.open) \in Nat \ {0},
         NEW mid, SameOpen(st, mid), mid.expects # "first", mid.expects # "colon",
         NEW helper, HelperIs(helper, W, a, mid, Len(mid.open)),
         NEW later, later.expects = "first", Len(later.open) = Len(mid.open) + 1,
         \A m \in 1 .. Len(mid.open) : later.open[m] = mid.open[m],
         NEW inner, HelperIs(inner, W, a, later, Len(later.open))
  PROVE  HelpersAre(Front(helpers) \o <<helper, inner>>, W, a, later)
<1>1. PICK S : helpers \in Seq(S)
  BY DEF HelpersAre
<1>2. PICK T : T = S \cup {helper, inner}
  OBVIOUS
<1>3. helpers \in Seq(T) /\ helper \in T /\ inner \in T
  BY <1>1, <1>2
<1>4. PICK depth \in Nat \ {0} : depth = Len(st.open)
  OBVIOUS
<1>5. Len(helpers) = depth /\ helpers # <<>>
  BY <1>4, EmptySeq DEF HelpersAre
<1>6. PICK new : new = Front(helpers) \o <<helper, inner>>
  OBVIOUS
<1>7. /\ new \in Seq(T) /\ Len(new) = depth + 1
      /\ new[depth] = helper /\ new[depth + 1] = inner
      /\ \A m \in 1 .. depth - 1 : new[m] = helpers[m]
  <2>1. LET t == Front(helpers) \o <<helper, inner>>
        IN  /\ t \in Seq(T)
            /\ Len(t) = Len(helpers) + 1
            /\ \A m \in 1 .. Len(helpers) - 1 : t[m] = helpers[m]
            /\ t[Len(helpers)] = helper
            /\ t[Len(helpers) + 1] = inner
    <3>1. helpers \in Seq(T) /\ helpers # <<>> /\ helper \in T /\ inner \in T
      BY <1>3, <1>5
    <3> QED
      BY <3>1, ReplaceAndPush
  <2> QED
    BY <1>5, <1>6, <2>1
<1>8. Len(mid.open) = depth /\ Len(later.open) = depth + 1
  BY <1>4 DEF SameOpen
<1>9. ASSUME NEW m \in 1 .. depth + 1
      PROVE  HelperIs(new[m], W, a, later, m)
  <2>1. CASE m = depth + 1
    BY <1>7, <1>8, <2>1
  <2>2. CASE m = depth
    <3>1. later.open[depth] = mid.open[depth] /\ depth # depth + 1
      BY <1>4, <1>8
    <3>2. HelperIs(helper, W, a, mid, depth)
      BY <1>8
    <3> QED
      BY <1>7, <1>8, <2>2, <3>1, <3>2 DEF HelperIs
  <2>3. CASE m # depth + 1 /\ m # depth
    <3>1. m \in 1 .. depth - 1 /\ m \in 1 .. depth
      BY <1>4, <2>3
    <3>2. later.open[m] = st.open[m] /\ new[m] = helpers[m]
      BY <1>4, <1>7, <1>8, <3>1 DEF SameOpen
    <3>3. HelperIs(helpers[m], W, a, st, m)
      BY <1>4, <3>1 DEF HelpersAre
    <3> QED
      BY <1>4, <1>8, <2>3, <3>2, <3>3 DEF HelperIs
  <2> QED
    BY <2>1, <2>2, <2>3
<1> QED
  BY <1>6, <1>7, <1>8, <1>9 DEF HelpersAre

\* It is gone.
LEMMA TopLeaves ==
  ASSUME NEW helpers, NEW W, NEW a, NEW st, HelpersAre(helpers, W, a, st),
         Len(st.open) \in Nat \ {0},
         NEW later, later.expects = "separator", Len(later.open) = Len(st.open) - 1,
         \A m \in 1 .. Len(st.open) - 1 : later.open[m] = st.open[m]
  PROVE  HelpersAre(Front(helpers), W, a, later)
<1>1. PICK S : helpers \in Seq(S)
  BY DEF HelpersAre
<1>2. PICK depth \in Nat \ {0} : depth = Len(st.open)
  OBVIOUS
<1>3. Len(helpers) = depth /\ helpers # <<>>
  BY <1>2, EmptySeq DEF HelpersAre
<1>4. /\ Front(helpers) \in Seq(S) /\ Len(Front(helpers)) = depth - 1
      /\ \A m \in 1 .. depth - 1 : Front(helpers)[m] = helpers[m]
  <2>1. /\ Front(helpers) \in Seq(S) /\ Len(Front(helpers)) = Len(helpers) - 1
        /\ \A m \in 1 .. Len(helpers) - 1 : Front(helpers)[m] = helpers[m]
    BY <1>1, <1>3, FrontFacts
  <2> QED
    BY <1>3, <2>1
<1>5. ASSUME NEW m \in 1 .. depth - 1
      PROVE  HelperIs(Front(helpers)[m], W, a, later, m)
  <2>1. m \in 1 .. depth /\ m # depth
    BY <1>2
  <2>2. HelperIs(helpers[m], W, a, st, m)
    BY <1>2, <2>1 DEF HelpersAre
  <2>3. later.open[m] = st.open[m] /\ Front(helpers)[m] = helpers[m]
    BY <1>2, <1>4
  <2> QED
    BY <1>2, <2>1, <2>2, <2>3 DEF HelperIs
<1> QED
  BY <1>2, <1>4, <1>5 DEF HelpersAre

\* The container that is read.
LEMMA ScopeKind ==
  ASSUME NEW s, NEW W, NEW a, NEW type, AstIs(s, W, a, type),
         NEW n \in 0 .. Len(s), NEW st, st = Run(s)[n], st.open # <<>>,
         NEW value, value = ValueAt(W, a, Inner(st).at)
  PROVE  /\ value.type = Inner(st).kind /\ value.type \in Container
         /\ Inner(st).index \in Nat
         /\ st.expects = "first" => Inner(st).index = 0
         /\ IsState(st) /\ Len(st.open) \in Nat \ {0}
         /\ Inner(st) = st.open[Len(st.open)]
         /\ W[Inner(st).at].value \in 1 .. Len(a)
         /\ LengthOf(a, value) = SizeAt(W, a, Inner(st).at)
         /\ LengthOf(a, value) \in Nat
<1>1. Len(s) \in Nat /\ Len(a) \in Nat
  BY DEF AstIs
<1>2. IsState(st)
  BY <1>1, RunStates
<1>3. /\ Len(st.open) \in Nat \ {0} /\ Inner(st) = st.open[Len(st.open)]
      /\ Inner(st).index \in Nat
  BY <1>2, InnerFacts
<1>4. st.expects = "first" => Inner(st).index = 0
  BY <1>1, FirstIndex
<1>5. PICK o, kind, depth :
        o = Inner(st).at /\ kind = Inner(st).kind /\ depth = Len(st.open)
  OBVIOUS
<1>6. /\ o \in 1 .. n /\ BracketRead(Run(s), s, o)
      /\ kind \in Container /\ s[o] = Opener[kind]
  <2>1. depth \in 1 .. Len(st.open) /\ o = st.open[depth].at /\ kind = st.open[depth].kind
    BY <1>3, <1>5
  <2>2. /\ Len(s) \in Nat /\ n \in 0 .. Len(s) /\ st = Run(s)[n]
        /\ depth \in 1 .. Len(st.open) /\ o = st.open[depth].at
    BY <1>1, <2>1
  <2>3. BracketRead(Run(s), s, o)
    BY <2>2, ScopeRead
  <2>4. o \in 1 .. n
    BY <2>2, ScopeRead
  <2>5. st.open[depth].kind \in Container /\ s[o] = Opener[st.open[depth].kind]
    BY <2>2, ScopeRead, SMTT(20)
  <2> QED
    BY <2>1, <2>3, <2>4, <2>5
<1>7. /\ W[o].type \in Container /\ s[o] = Opener[W[o].type]
      /\ W[o].value \in 1 .. Len(a) /\ SizeAt(W, a, o) \in Nat
  <2>1. o \in 1 .. Len(s)
    BY <1>1, <1>6
  <2> QED
    BY <1>6, <2>1 DEF AstIs
<1>8. W[o].type = kind
  BY <1>6, <1>7, TokenNames
<1>9. value.type = W[o].type /\ value.at = Len(a) + 1 - W[o].value
  BY <1>5 DEF ValueAt
<1>10. LengthOf(a, value) = SizeAt(W, a, o)
  <2>1. PICK size \in Nat, d \in Nat : size = Len(a) /\ d = W[o].value
    BY <1>1, <1>7
  <2>2. size + 1 - d = size - d + 1
    OBVIOUS
  <2> QED
    BY <1>9, <2>1, <2>2 DEF LengthOf, SizeAt, Back
<1> QED
  BY <1>2, <1>3, <1>4, <1>5, <1>6, <1>7, <1>8, <1>9, <1>10

LEMMA TopNow ==
  ASSUME NEW W, NEW a, NEW st, HelpersAre(container_stack, W, a, st),
         Len(st.open) \in Nat \ {0}, Inner(st) = st.open[Len(st.open)]
  PROVE  TopIsAs(st, ValueAt(W, a, Inner(st).at), Inner(st).index)
<1>1. PICK depth \in Nat \ {0} : depth = Len(st.open)
  OBVIOUS
<1>2. /\ Len(container_stack) = depth
      /\ HelperIs(container_stack[depth], W, a, st, depth)
  BY <1>1 DEF HelpersAre
<1>3. container_stack # <<>>
  BY <1>1, <1>2, EmptySeq
<1>4. PICK top : top = Top
  OBVIOUS
<1>5. top = container_stack[depth]
  BY <1>2, <1>4 DEF Top, Last
<1>6. /\ top = [value |-> top.value, current_type |-> top.current_type, index |-> top.index]
      /\ top.value = ValueAt(W, a, Inner(st).at)
      /\ top.index = IF st.expects = "first" THEN -1 ELSE Inner(st).index
      /\ top.current_type = "key" <=> st.expects = "colon"
  BY <1>1, <1>2, <1>5 DEF HelperIs
<1> QED
  BY <1>3, <1>4, <1>6 DEF TopIsAs

\* The AST has an item where the walk looks for it.
LEMMA ItemThere ==
  ASSUME NEW s, NEW W, NEW a, NEW type, AstIs(s, W, a, type),
         NEW q \in 1 .. Len(s), IsItem(s, q), Run(s)[q - 1].open # <<>>,
         NEW value, value = ValueAt(W, a, Host(s, q).at),
         NEW index, index = Host(s, q).index
  PROVE  /\ index < LengthOf(a, value)
         /\ ~KeyRead(Run(s), s, q) => ElementOf(a, value, index) = ValueAt(W, a, q)
         /\ KeyRead(Run(s), s, q) => KeyOf(a, value, index) = W[q].value
<1>1. Len(s) \in Nat /\ q - 1 \in 0 .. Len(s)
  BY DEF AstIs
<1>2. PICK st : st = Run(s)[q - 1]
  OBVIOUS
<1>3. Inner(st) = Host(s, q)
  BY <1>2 DEF Host
<1>4. /\ value.type = Host(s, q).kind /\ value.type \in Container
      /\ W[Host(s, q).at].value \in 1 .. Len(a)
      /\ LengthOf(a, value) = SizeAt(W, a, Host(s, q).at)
      /\ Len(st.open) \in Nat \ {0} /\ index \in Nat
  <2>1. /\ q - 1 \in 0 .. Len(s) /\ st = Run(s)[q - 1] /\ st.open # <<>>
        /\ value = ValueAt(W, a, Inner(st).at)
    BY <1>1, <1>2, <1>3
  <2>2. PICK before : before = q - 1
    OBVIOUS
  <2>3. /\ before \in 0 .. Len(s) /\ st = Run(s)[before] /\ st.open # <<>>
        /\ AstIs(s, W, a, type) /\ value = ValueAt(W, a, Inner(st).at)
    BY <2>1, <2>2
  <2>4. value.type = Inner(st).kind /\ value.type \in Container
    BY <2>3, ScopeKind
  <2>5. W[Inner(st).at].value \in 1 .. Len(a)
    BY <2>3, ScopeKind
  <2>6. LengthOf(a, value) = SizeAt(W, a, Inner(st).at)
    BY <2>3, ScopeKind
  <2>7. Len(st.open) \in Nat \ {0} /\ Inner(st).index \in Nat
    BY <2>3, ScopeKind
  <2> QED
    BY <1>3, <2>4, <2>5, <2>6, <2>7
<1>5. Depth(s, q - 1) # 0
  BY <1>2, <1>4 DEF Depth
<1>6. Stored(s, W, a, q)
  BY <1>5 DEF AstIs
<1>7. PICK size, around, place, n :
        /\ size = Len(a) /\ around = W[Host(s, q).at].value /\ around \in 1 .. size
        /\ place = Place(s, q) /\ size \in Nat /\ around \in Nat
        /\ n = index /\ n \in Nat
  BY <1>4 DEF AstIs
<1>8. /\ index < Back(a, around).value
      /\ Back(a, around - place) =
           IF KeyRead(Run(s), s, q) THEN W[q] ELSE Word(W[q].type, around - W[q].value)
  BY <1>6, <1>7 DEF Stored
<1>9. index < LengthOf(a, value)
  BY <1>4, <1>7, <1>8 DEF SizeAt
<1>10. value.at = size + 1 - around
  BY <1>7 DEF ValueAt
<1>11. CASE KeyRead(Run(s), s, q)
  <2>1. place = 3 * index + 1
    BY <1>7, <1>11 DEF Place
  <2>2. value.at + 3 * index + 1 = size - (around - place) + 1
    <3>1. /\ size \in Nat /\ around \in Nat /\ n \in Nat
          /\ place = 3 * n + 1 /\ value.at = size + 1 - around
      BY <1>7, <1>10, <2>1
    <3>2. size + 1 - around + 3 * n + 1 = size - (around - (3 * n + 1)) + 1
      BY <3>1
    <3>3. value.at + 3 * n + 1 = size - (around - place) + 1
      BY <3>1, <3>2
    <3> QED
      BY <1>7, <3>3
  <2>3. KeyOf(a, value, index) = a[size - (around - place) + 1].value
    BY <2>2 DEF KeyOf
  <2>4. Back(a, around - place) = a[size - (around - place) + 1]
    BY <1>7 DEF Back
  <2> QED
    BY <1>8, <1>9, <1>11, <2>3, <2>4
<1>12. CASE ~KeyRead(Run(s), s, q)
  <2>1. place = IF value.type = "object" THEN 3 * index + 3 ELSE index + 1
    BY <1>4, <1>7, <1>12 DEF Place, PlaceOf
  <2>2. value.at + place = size - (around - place) + 1
    <3>1. place \in Nat
      BY <1>4, <2>1
    <3> QED
      BY <1>7, <1>10, <3>1
  <2>3. Back(a, around - place) = a[value.at + place]
    BY <1>7, <2>2 DEF Back
  <2>4. ElementOf(a, value, index) =
          [type |-> W[q].type, at |-> value.at + (around - W[q].value)]
    <3>1. PICK element : element = a[value.at + place]
      OBVIOUS
    <3>2. element = Word(W[q].type, around - W[q].value)
      BY <1>8, <1>12, <2>3, <3>1
    <3>3. element.type = W[q].type /\ element.value = around - W[q].value
      BY <3>2 DEF Word
    <3>4. ElementOf(a, value, index) =
            [type |-> element.type, at |-> value.at + element.value]
      BY <2>1, <3>1 DEF ElementOf
    <3> QED
      BY <3>3, <3>4
  <2>5. W[q].value \in Nat
    <3>1. ScalarRead(Run(s), s, q) \/ BracketRead(Run(s), s, q)
      BY <1>12 DEF IsItem
    <3>2. CASE ScalarRead(Run(s), s, q)
      <4>1. PICK distance \in 0 .. Len(a) : W[q] = Word(TypeIn[s[q]], distance)
        BY <3>2 DEF AstIs, ScalarHeld
      <4> QED
        BY <1>7, <4>1 DEF Word
    <3>3. CASE BracketRead(Run(s), s, q)
      BY <1>7, <3>3 DEF AstIs
    <3> QED
      BY <3>1, <3>2, <3>3
  <2>6. PICK d \in Nat : d = W[q].value
    BY <2>5
  <2>7. value.at + (around - d) = size + 1 - d
    <3>1. /\ size \in Nat /\ around \in Nat /\ d \in Nat
          /\ value.at = size + 1 - around
      BY <1>7, <1>10
    <3>2. size + 1 - around + (around - d) = size + 1 - d
      BY <3>1
    <3> QED
      BY <3>1, <3>2
  <2>8. ElementOf(a, value, index) = ValueAt(W, a, q)
    BY <1>7, <2>4, <2>6, <2>7 DEF ValueAt
  <2> QED
    BY <1>9, <1>12, <2>8
<1> QED
  BY <1>11, <1>12

\* What a scalar is shown as.
ShownAs ==
  [kind \in ScalarKind |->
     IF kind = "narrow" THEN "integer"
     ELSE IF kind \in NumberKind THEN "floating" ELSE CommonType[kind]]

LEMMA ScalarShown ==
  ASSUME NEW kind \in ScalarKind, NEW v, v.type = TypeIn[kind]
  PROVE  /\ TypeOf(v) = ShownAs[kind]
         /\ ShownAs[kind] \notin Container \cup {"key", "end_of_container"}
         /\ ShownAs[kind] \in WithGetter \/ kind = "null"
         /\ kind = "null" => ShownAs[kind] = "null"
         /\ ShownAs[kind] = "boolean" <=> kind \in {"true", "false"}
         /\ kind \in {"true", "false"} => TypeIn[kind] = kind
<1>1. kind \in {"string", "true", "false", "null", "narrow", "wide", "huge", "real"}
  BY TokenNames
<1>2. TypeIn[kind] = CASE kind = "narrow" -> "integer"
                       [] kind \in {"wide", "huge", "real"} -> "double"
                       [] OTHER -> kind
  BY <1>1 DEF TypeIn, NumberKind, Parser!NumberType
<1>3. ShownAs[kind] = CASE kind = "narrow" -> "integer"
                        [] kind \in {"wide", "huge", "real"} -> "floating"
                        [] kind \in {"true", "false"} -> "boolean"
                        [] OTHER -> kind
  BY <1>1 DEF ShownAs, NumberKind, CommonType
<1>4. TypeOf(v) = CASE v.type = "integer" -> "integer"
                    [] v.type = "double" -> "floating"
                    [] OTHER -> CommonType[v.type]
  BY DEF TypeOf
<1>5. TypeOf(v) = ShownAs[kind]
  BY <1>1, <1>2, <1>3, <1>4 DEF CommonType
<1>6. /\ ShownAs[kind] \notin Container \cup {"key", "end_of_container"}
      /\ ShownAs[kind] \in WithGetter \/ kind = "null"
  BY <1>1, <1>3, TokenNames DEF WithGetter
<1> QED
  BY <1>1, <1>2, <1>3, <1>5, <1>6

\* The helper on top, at what was just read.
LEMMA HelperMoved ==
  ASSUME NEW W, NEW a, NEW before, NEW later, NEW depth \in Nat \ {0},
         depth = Len(before.open), depth = Len(later.open),
         later.open[depth] = before.open[depth], Inner(before) = before.open[depth],
         NEW what, later.expects # "first", what = "key" <=> later.expects = "colon",
         NEW helper,
         helper = Standing(ValueAt(W, a, Inner(before).at), what, Inner(before).index)
  PROVE  HelperIs(helper, W, a, later, depth)
<1>1. /\ helper = [value |-> helper.value, current_type |-> helper.current_type,
                   index |-> helper.index]
      /\ helper.value = ValueAt(W, a, Inner(before).at)
      /\ helper.index = Inner(before).index /\ helper.current_type = what
  BY DEF Standing
<1> QED
  BY <1>1 DEF HelperIs

\* next() shows the item at q.
LEMMA ItemShown ==
  ASSUME NEW s, NEW W, NEW a, NEW root, AstIs(s, W, a, root), ast = a,
         NEW st, HelpersAre(container_stack, W, a, st), Len(st.open) \in Nat \ {0},
         NEW q \in 1 .. Len(s), IsItem(s, q),
         NEW before, before = Run(s)[q - 1], SameOpen(st, before),
         NEW value, value = ValueAt(W, a, Inner(before).at),
         NEW index, index = Inner(before).index,
         Shows(value, index, IF KeyRead(Run(s), s, q) THEN "key"
                             ELSE TypeOf(ElementOf(ast, value, index)))
  PROVE  WalkReads(s, W, a, q)'
<1>1. Len(s) \in Nat \ {0}
  BY DEF AstIs
<1>2. q \in 1 .. Len(s) /\ q - 1 \in 0 .. Len(s) /\ q # 0 /\ Len(s) \in Nat
  BY <1>1
<1>3. PICK r : r = Run(s)
  OBVIOUS
<1>4. PICK depth \in Nat \ {0} : depth = Len(st.open)
  OBVIOUS
<1>5. /\ IsState(before) /\ Len(before.open) = depth /\ before.open # <<>>
  <2>1. IsState(before)
    BY <1>2, RunStates
  <2> QED
    BY <1>4, <2>1, EmptySeq DEF SameOpen
<1>6. Inner(before) = before.open[depth] /\ Host(s, q) = Inner(before)
  BY <1>5, InnerFacts DEF Host
<1>7. ~KeyRead(r, s, q) => ElementOf(ast, value, index) = ValueAt(W, a, q)
  <2>1. /\ value = ValueAt(W, a, Host(s, q).at) /\ index = Host(s, q).index
        /\ Run(s)[q - 1].open # <<>>
    BY <1>5, <1>6
  <2>2. ~KeyRead(Run(s), s, q) => ElementOf(a, value, index) = ValueAt(W, a, q)
    BY <1>2, <2>1, ItemThere
  <2> QED
    BY <1>3, <2>2
<1>8. PICK what : what = IF KeyRead(r, s, q) THEN "key" ELSE TypeOf(ValueAt(W, a, q))
  OBVIOUS
<1>9. Shows(value, index, what)
  BY <1>3, <1>7, <1>8
<1>10. PICK helper : helper = Standing(value, what, index)
  OBVIOUS
<1>11. /\ current_type' = what
       /\ what \in Container => container_stack' =
            Front(container_stack) \o <<helper, Helper(ElementOf(ast, value, index))>>
       /\ what \notin Container \cup {"end_of_container"} =>
            container_stack' = Append(Front(container_stack), helper)
  <2>1. "end_of_container" \notin Container
    BY TokenNames
  <2> QED
    BY <1>9, <1>10, <2>1 DEF Shows
<1>12. IsEvent(s, q)
  BY <1>2, ReadOnce
<1>13. ASSUME NEW later, later = r[q], later.open = before.open,
              later.expects # "first", what = "key" <=> later.expects = "colon",
              what \notin Container \cup {"end_of_container"}
       PROVE  /\ HelpersAre(container_stack', W, a, Run(s)[q])
              /\ Top'.current_type = current_type'
  <2>1. SameOpen(st, later) /\ Len(later.open) = depth
    BY <1>5, <1>13 DEF SameOpen
  <2>2. HelperIs(helper, W, a, later, depth)
    <3>1. /\ depth = Len(before.open) /\ depth = Len(later.open)
          /\ later.open[depth] = before.open[depth] /\ Inner(before) = before.open[depth]
          /\ helper = Standing(ValueAt(W, a, Inner(before).at), what, Inner(before).index)
      BY <1>5, <1>6, <1>10, <1>13, <2>1
    <3> QED
      BY <1>13, <3>1, HelperMoved
  <2>3. HelpersAre(Append(Front(container_stack), helper), W, a, later)
    BY <1>13, <2>1, <2>2, TopMoves
  <2>4. container_stack' = Append(Front(container_stack), helper)
    BY <1>11, <1>13
  <2>5. Top' = helper
    <3>1. PICK S : container_stack \in Seq(S)
      BY DEF HelpersAre
    <3>2. PICK T : T = S \cup {helper}
      OBVIOUS
    <3>3. container_stack \in Seq(T) /\ helper \in T /\ container_stack # <<>>
      BY <1>4, <3>1, <3>2, EmptySeq DEF HelpersAre
    <3>4. /\ Len(Append(Front(container_stack), helper)) = Len(container_stack)
          /\ Append(Front(container_stack), helper)[Len(container_stack)] = helper
      BY <3>3, ReplaceTop
    <3> QED
      BY <2>4, <3>4 DEF Top, Last
  <2> QED
    BY <1>3, <1>10, <1>11, <1>13, <2>3, <2>4, <2>5 DEF Standing
<1>14. CASE ScalarRead(r, s, q)
  <2>1. /\ ~KeyRead(r, s, q) /\ ~BracketRead(r, s, q) /\ ~CloserRead(r, s, q)
    BY <1>2, <1>3, <1>14, ReadOnce
  <2>2. s[q] \in ScalarKind /\ r[q] = Expecting(before, "separator")
    BY <1>3, <1>14 DEF ScalarRead
  <2>3. ValueAt(W, a, q).type = TypeIn[s[q]]
    <3>1. PICK distance : W[q] = Word(TypeIn[s[q]], distance)
      BY <1>3, <1>14 DEF AstIs, ScalarHeld
    <3> QED
      BY <3>1 DEF ValueAt, Word
  <2>4. what = TypeOf(ValueAt(W, a, q))
        /\ what \notin Container \cup {"key", "end_of_container"}
    BY <1>8, <2>1, <2>2, <2>3, ScalarShown
  <2>5. r[q].open = before.open /\ r[q].expects = "separator"
    BY <1>5, <2>2, ExpectingState DEF Expectation
  <2>6. HelpersAre(container_stack', W, a, Run(s)[q]) /\ Top'.current_type = current_type'
    BY <1>13, <2>4, <2>5
  <2>7. ShownAt(current_type', s, W, a, q)
    BY <1>3, <1>11, <2>1, <2>4 DEF ShownAt
  <2> QED
    BY <1>2, <1>12, <2>6, <2>7 DEF WalkReads
<1>15. CASE KeyRead(r, s, q)
  <2>1. /\ ~ScalarRead(r, s, q) /\ ~BracketRead(r, s, q) /\ ~CloserRead(r, s, q)
    BY <1>2, <1>3, <1>15, ReadOnce
  <2>2. what = "key" /\ what \notin Container \cup {"end_of_container"}
    BY <1>8, <1>15, TokenNames
  <2>3. r[q].open = before.open /\ r[q].expects = "colon"
    <3>1. r[q] = Expecting(before, "colon") /\ KeyNext(before)
      BY <1>3, <1>15 DEF KeyRead
    <3>2. Inner(before).kind = "object"
      BY <1>5, <3>1 DEF IsState, KeyNext
    <3> QED
      BY <1>5, <3>1, <3>2, ExpectingState DEF Expectation
  <2>4. HelpersAre(container_stack', W, a, Run(s)[q]) /\ Top'.current_type = current_type'
    BY <1>13, <2>2, <2>3
  <2>5. ShownAt(current_type', s, W, a, q)
    BY <1>3, <1>11, <2>1, <2>2 DEF ShownAt
  <2> QED
    BY <1>2, <1>12, <2>4, <2>5 DEF WalkReads
<1>16. CASE BracketRead(r, s, q)
  <2>1. /\ ~ScalarRead(r, s, q) /\ ~KeyRead(r, s, q) /\ ~CloserRead(r, s, q)
    BY <1>2, <1>3, <1>16, ReadOnce
  <2>2. W[q].type \in Container
    BY <1>3, <1>16 DEF AstIs
  <2>3. what = W[q].type /\ what \in Container /\ what # "key"
    <3>1. PICK v : v = ValueAt(W, a, q)
      OBVIOUS
    <3>2. v.type = W[q].type /\ v.type \in {"object", "array"}
      BY <2>2, <3>1, TokenNames DEF ValueAt
    <3>3. TypeOf(v) = v.type
      BY <3>2 DEF TypeOf, CommonType
    <3> QED
      BY <1>8, <2>1, <3>1, <3>2, <3>3, TokenNames
  <2>4. PICK kind \in Container : r[q] = Deeper(before, kind, q) /\ s[q] = Opener[kind]
    BY <1>3, <1>16 DEF BracketRead
  <2>5. PICK later : later = r[q]
    OBVIOUS
  <2>6. /\ later.expects = "first" /\ Len(later.open) = depth + 1
        /\ \A m \in 1 .. depth : later.open[m] = before.open[m]
        /\ later.open[depth + 1] = [at |-> q, kind |-> kind, index |-> 0]
    <3>1. q \in Nat \ {0} /\ IsState(before)
      BY <1>2, <1>5
    <3>2. /\ Deeper(before, kind, q).expects = "first"
          /\ Len(Deeper(before, kind, q).open) = Len(before.open) + 1
          /\ \A m \in 1 .. Len(before.open) :
               Deeper(before, kind, q).open[m] = before.open[m]
          /\ Deeper(before, kind, q).open[Len(before.open) + 1] =
               [at |-> q, kind |-> kind, index |-> 0]
      BY <3>1, DeeperState
    <3> QED
      BY <1>5, <2>4, <2>5, <3>2
  <2>7. PICK mid : mid = Expecting(before, "separator")
    OBVIOUS
  <2>8. mid.open = before.open /\ mid.expects = "separator"
    BY <1>5, <2>7, ExpectingState DEF Expectation
  <2>9. SameOpen(st, mid) /\ Len(mid.open) = depth
    BY <1>5, <2>8 DEF SameOpen
  <2>10. HelperIs(helper, W, a, mid, depth)
    <3>1. /\ depth = Len(before.open) /\ depth = Len(mid.open)
          /\ mid.open[depth] = before.open[depth] /\ Inner(before) = before.open[depth]
          /\ helper = Standing(ValueAt(W, a, Inner(before).at), what, Inner(before).index)
      BY <1>5, <1>6, <1>10, <2>8, <2>9
    <3>2. mid.expects # "first" /\ (what = "key" <=> mid.expects = "colon")
      BY <2>3, <2>8
    <3> QED
      BY <3>1, <3>2, HelperMoved
  <2>11. PICK inner : inner = Helper(ValueAt(W, a, q))
    OBVIOUS
  <2>12. HelperIs(inner, W, a, later, depth + 1)
    <3>1. inner = [value |-> ValueAt(W, a, q), current_type |-> W[q].type, index |-> -1]
      BY <2>11 DEF Helper, ValueAt
    <3>2. W[q].type # "key"
      BY <2>3
    <3> QED
      BY <2>6, <3>1, <3>2 DEF HelperIs
  <2>13. HelpersAre(Front(container_stack) \o <<helper, inner>>, W, a, later)
    <3>1. \A m \in 1 .. Len(mid.open) : later.open[m] = mid.open[m]
      BY <2>6, <2>8, <2>9
    <3>2. Len(later.open) = Len(mid.open) + 1
      BY <2>6, <2>9
    <3>3. /\ HelperIs(inner, W, a, later, Len(later.open))
          /\ HelperIs(helper, W, a, mid, Len(mid.open))
      BY <2>6, <2>9, <2>10, <2>12
    <3>4. HelpersAre(container_stack, W, a, st) /\ Len(st.open) \in Nat \ {0}
      OBVIOUS
    <3>5. /\ mid.expects # "first" /\ mid.expects # "colon"
          /\ later.expects = "first" /\ SameOpen(st, mid)
      BY <2>6, <2>8, <2>9
    <3> QED
      BY <3>1, <3>2, <3>3, <3>4, <3>5, ContainerShown
  <2>14. container_stack' = Front(container_stack) \o <<helper, inner>>
    BY <1>7, <1>11, <2>1, <2>3, <2>11
  <2>15. HelpersAre(container_stack', W, a, Run(s)[q])
    BY <1>3, <2>5, <2>13, <2>14
  <2>16. ShownAt(current_type', s, W, a, q)
    BY <1>3, <1>11, <2>1, <2>3 DEF ShownAt
  <2> QED
    BY <1>2, <1>3, <1>12, <2>1, <2>15, <2>16 DEF WalkReads
<1> QED
  BY <1>3, <1>14, <1>15, <1>16 DEF IsItem

\* next() shows the end of the container on top.
LEMMA CloserShown ==
  ASSUME NEW s, NEW W, NEW a, NEW root, AstIs(s, W, a, root),
         NEW q \in 1 .. Len(s), CloserRead(Run(s), s, q),
         HelpersAre(container_stack, W, a, Run(s)[q - 1]),
         NEW value, NEW index, Shows(value, index, "end_of_container")
  PROVE  WalkReads(s, W, a, q)'
<1>1. Len(s) \in Nat /\ q - 1 \in 0 .. Len(s) /\ q # 0
  BY DEF AstIs
<1>2. PICK st, later : st = Run(s)[q - 1] /\ later = Run(s)[q]
  OBVIOUS
<1>3. IsState(st) /\ st.open # <<>> /\ later = Shallower(st)
  BY <1>1, <1>2, RunStates DEF CloserRead, CloserNext
<1>4. Len(st.open) \in Nat \ {0}
  BY <1>3, InnerFacts
<1>5. /\ later.expects = "separator" /\ Len(later.open) = Len(st.open) - 1
      /\ \A m \in 1 .. Len(st.open) - 1 : later.open[m] = st.open[m]
  BY <1>3, ShallowerState
<1>6. /\ current_type' = "end_of_container"
      /\ container_stack' = Front(container_stack)
  <2>1. "end_of_container" \notin Container
    BY TokenNames
  <2> QED
    BY <2>1 DEF Shows
<1>7. HelpersAre(container_stack', W, a, Run(s)[q])
  BY <1>2, <1>4, <1>5, <1>6, TopLeaves
<1>8. /\ IsEvent(s, q) /\ ~ScalarRead(Run(s), s, q)
      /\ ~BracketRead(Run(s), s, q) /\ ~KeyRead(Run(s), s, q)
  BY <1>1, ReadOnce
<1>9. ShownAt(current_type', s, W, a, q)
  BY <1>6, <1>8 DEF ShownAt
<1> QED
  BY <1>1, <1>7, <1>8, <1>9 DEF WalkReads

\* The helper on top goes on from what was read.
LEMMA TopGoesOn ==
  ASSUME NEW s, NEW W, NEW a, NEW root, AstIs(s, W, a, root), ast = a, CallNext,
         NEW n \in 0 .. Len(s), NEW st, st = Run(s)[n], st.open # <<>>,
         HelpersAre(container_stack, W, a, st),
         NEW value, value = ValueAt(W, a, Inner(st).at),
         NEW next, next = IF st.expects \in {"first", "colon"} THEN Inner(st).index
                                                               ELSE Inner(st).index + 1
  PROVE  /\ value.type = Inner(st).kind /\ Len(st.open) \in Nat \ {0}
         /\ Inner(st).index \in Nat /\ next \in Nat
         /\ next = LengthOf(a, value) => Shows(value, next, "end_of_container")
         /\ next < LengthOf(a, value) =>
              Shows(value, next,
                    IF value.type = "object" /\ st.expects # "colon" THEN "key"
                    ELSE TypeOf(ElementOf(ast, value, next)))
<1>1. /\ value.type = Inner(st).kind /\ value.type \in Container
      /\ Len(st.open) \in Nat \ {0} /\ Inner(st) = st.open[Len(st.open)]
  BY ScopeKind
<1>2. /\ Inner(st).index \in Nat /\ LengthOf(a, value) \in Nat
      /\ st.expects = "first" => Inner(st).index = 0
      /\ IsState(st)
  BY ScopeKind
<1>3. TopIsAs(st, value, Inner(st).index)
  BY <1>1, TopNow
<1>4. st.expects = "colon" => value.type = "object"
  BY <1>1, <1>2 DEF IsState
<1>5. PICK size \in Nat, index \in Nat : size = LengthOf(ast, value) /\ index = Inner(st).index
  BY <1>2
<1>6. next = IF st.expects \in {"first", "colon"} THEN index ELSE index + 1
  BY <1>5
<1>7. next \in Nat /\ (next = size => next >= size)
  BY <1>6
<1>8. /\ next >= size => Shows(value, next, "end_of_container")
      /\ next < size =>
           Shows(value, next,
                 IF value.type = "object" /\ st.expects # "colon" THEN "key"
                 ELSE TypeOf(ElementOf(ast, value, next)))
  <2>1. /\ TopIsAs(st, value, index) /\ value.type \in Container
        /\ st.expects = "first" => index = 0
        /\ st.expects = "colon" => value.type = "object"
        /\ size = LengthOf(ast, value)
    BY <1>1, <1>2, <1>3, <1>4, <1>5
  <2> QED
    BY <1>6, <2>1, TopDoes
<1> QED
  BY <1>1, <1>2, <1>5, <1>7, <1>8

\* An item comes next.
LEMMA ItemCall ==
  ASSUME NEW s, NEW W, NEW a, NEW root, AstIs(s, W, a, root), ast = a, CallNext,
         NEW n \in 0 .. Len(s), NEW st, st = Run(s)[n], st.open # <<>>,
         HelpersAre(container_stack, W, a, st),
         NEW e \in 1 .. Len(s), IsItem(s, e),
         NEW before, before = Run(s)[e - 1], SameOpen(st, before),
         Inner(before).at = Inner(st).at,
         Inner(before).index = IF st.expects \in {"first", "colon"} THEN Inner(st).index
                                                                   ELSE Inner(st).index + 1,
         KeyRead(Run(s), s, e) <=> Inner(st).kind = "object" /\ st.expects # "colon"
  PROVE  WalkReads(s, W, a, e)'
<1>1. PICK value, next : value = ValueAt(W, a, Inner(st).at) /\ next = Inner(before).index
  OBVIOUS
<1>2. /\ value.type = Inner(st).kind /\ Len(st.open) \in Nat \ {0}
      /\ next < LengthOf(a, value) =>
           Shows(value, next,
                 IF value.type = "object" /\ st.expects # "colon" THEN "key"
                 ELSE TypeOf(ElementOf(ast, value, next)))
  BY <1>1, TopGoesOn
<1>3. before.open # <<>>
  <2>1. Len(before.open) # 0
    BY <1>2 DEF SameOpen
  <2> QED
    BY <2>1
<1>4. next < LengthOf(a, value)
  <2>1. /\ value = ValueAt(W, a, Host(s, e).at) /\ next = Host(s, e).index
        /\ Run(s)[e - 1].open # <<>>
    BY <1>1, <1>3 DEF Host
  <2> QED
    BY <2>1, ItemThere
<1>5. Shows(value, next, IF KeyRead(Run(s), s, e) THEN "key"
                         ELSE TypeOf(ElementOf(ast, value, next)))
  BY <1>2, <1>4
<1>6. value = ValueAt(W, a, Inner(before).at) /\ next = Inner(before).index
  BY <1>1
<1> QED
  BY <1>2, <1>5, <1>6, ItemShown

\* The end of the container comes next.
LEMMA CloserCall ==
  ASSUME NEW s, NEW W, NEW a, NEW root, AstIs(s, W, a, root), ast = a, CallNext,
         NEW n \in 0 .. Len(s), NEW st, st = Run(s)[n], st.open # <<>>,
         HelpersAre(container_stack, W, a, st),
         NEW e \in 1 .. Len(s), e - 1 = n, CloserRead(Run(s), s, e)
  PROVE  WalkReads(s, W, a, e)'
<1>1. PICK value, next :
        /\ value = ValueAt(W, a, Inner(st).at)
        /\ next = IF st.expects \in {"first", "colon"} THEN Inner(st).index
                                                       ELSE Inner(st).index + 1
  OBVIOUS
<1>2. next = LengthOf(a, value) => Shows(value, next, "end_of_container")
  BY <1>1, TopGoesOn
<1>3. LengthOf(a, value) = SizeAt(W, a, Inner(st).at)
  BY <1>1, ScopeKind
<1>4. st.expects = "first" => Inner(st).index = 0
  BY ScopeKind
<1>5. CloserNext(st, s[e])
  BY DEF CloserRead
<1>6. st.expects \in {"first", "separator"}
  BY <1>5 DEF CloserNext
<1>7. SizeAt(W, a, Host(s, e).at) = CountAt(Run(s)[e - 1])
  BY DEF AstIs
<1>8. Host(s, e) = Inner(st)
  BY DEF Host
<1>9. next = CountAt(st)
  BY <1>1, <1>4, <1>6 DEF CountAt
<1>10. Shows(value, next, "end_of_container")
  BY <1>2, <1>3, <1>7, <1>8, <1>9
<1>11. HelpersAre(container_stack, W, a, Run(s)[e - 1])
  OBVIOUS
<1> QED
  BY <1>10, <1>11, CloserShown

\* A call of next() shows the next event of the text.
LEMMA CallShows ==
  ASSUME NEW s, NEW W, NEW a, NEW root, AstIs(s, W, a, root), ast = a,
         NEW q, WalkReads(s, W, a, q), CallNext
  PROVE  WalkReads(s, W, a, NextEvent(s, q))'
<1>1. PICK last \in Nat \ {0} : last = Len(s) /\ IsWhole(Run(s)[last])
  BY DEF AstIs
<1>2. Len(s) \in Nat /\ last \in 0 .. Len(s)
  BY <1>1
<1>3. ASSUME container_stack = <<>>
      PROVE  WalkReads(s, W, a, 0)'
  BY <1>3, CallsNothing DEF WalkReads
<1>4. CASE q = 0
  <2>1. NextEvent(s, q) = 0
    BY <1>4 DEF NextEvent
  <2> QED
    BY <1>3, <1>4, <2>1 DEF WalkReads
<1>5. CASE q # 0
  <2>1. PICK r, st : r = Run(s) /\ st = Run(s)[q]
    OBVIOUS
  <2>2. /\ q \in 1 .. Len(s) /\ IsEvent(s, q) /\ q \in 1 .. last
        /\ HelpersAre(container_stack, W, a, st)
    BY <1>1, <1>5, <2>1 DEF WalkReads
  <2>3. q \in 0 .. Len(s) /\ q - 1 \in 0 .. Len(s) /\ q + 1 - 1 = q /\ q + 2 - 1 = q + 1
        /\ q \in 0 .. last
    BY <1>1, <1>2, <2>2
  <2>4. IsState(st)
    BY <1>2, <2>1, <2>3, RunStates
  <2>5. CASE IsWhole(st)
    <3>1. NextEvent(s, q) = 0
      BY <2>1, <2>5 DEF NextEvent
    <3>2. Len(container_stack) = 0 /\ \E S : container_stack \in Seq(S)
      BY <2>2, <2>5, EmptySeq DEF HelpersAre, IsWhole
    <3>3. container_stack = <<>>
      BY <3>2, EmptySeq
    <3> QED
      BY <1>3, <3>1, <3>3
  <2>6. CASE st.expects = "first"
    <3>1. st.open # <<>>
      BY <2>4, <2>6 DEF IsState
    <3>2. PICK e : e = q + 1
      OBVIOUS
    <3>3. /\ e \in 1 .. Len(s) /\ NextEvent(s, q) = e /\ e - 1 = q
          /\ \/ ScalarRead(r, s, e) \/ BracketRead(r, s, e)
             \/ KeyRead(r, s, e) \/ CloserRead(r, s, e)
      <4>1. r[q].expects = "first" /\ r = Run(s) /\ q \in 1 .. last
        BY <2>1, <2>2, <2>6
      <4>2. /\ q + 1 \in 1 .. last /\ NextEvent(s, q) = q + 1
            /\ \/ ScalarRead(r, s, q + 1) \/ BracketRead(r, s, q + 1)
               \/ KeyRead(r, s, q + 1) \/ CloserRead(r, s, q + 1)
        BY <1>1, <1>2, <4>1, AfterBracket
      <4> QED
        BY <1>1, <2>3, <3>2, <4>2
    <3>4. CASE CloserRead(r, s, e)
      <4>1. CloserRead(Run(s), s, e)
        BY <2>1, <3>4
      <4>2. WalkReads(s, W, a, e)'
        BY <2>1, <2>2, <2>3, <3>1, <3>3, <4>1, CloserCall
      <4> QED
        BY <3>3, <4>2
    <3>5. CASE ~CloserRead(r, s, e)
      <4>1. IsItem(s, e) /\ st = Run(s)[e - 1]
        BY <2>1, <3>3, <3>5 DEF IsItem
      <4>2. KeyRead(Run(s), s, e) <=> Inner(st).kind = "object" /\ st.expects # "colon"
        <5>1. ValueNext(st) <=> Inner(st).kind = "array"
          BY <2>6 DEF ValueNext
        <5>2. KeyNext(st) <=> Inner(st).kind = "object"
          BY <2>6 DEF KeyNext
        <5>3. /\ ScalarRead(r, s, e) \/ BracketRead(r, s, e) => ValueNext(st)
              /\ KeyRead(r, s, e) => KeyNext(st)
          BY <2>1, <4>1 DEF ScalarRead, BracketRead, KeyRead
        <5> QED
          BY <2>1, <2>6, <3>3, <3>5, <5>1, <5>2, <5>3
      <4>3. SameOpen(st, st)
        BY SameItself
      <4>4. Inner(st).index = IF st.expects \in {"first", "colon"} THEN Inner(st).index
                                                                   ELSE Inner(st).index + 1
        BY <2>6
      <4>5. WalkReads(s, W, a, e)'
        BY <2>1, <2>2, <2>3, <3>1, <3>3, <4>1, <4>2, <4>3, <4>4, ItemCall
      <4> QED
        BY <3>3, <4>5
    <3> QED
      BY <3>4, <3>5
  <2>7. CASE st.expects = "colon"
    <3>1. st.open # <<>>
      BY <2>4, <2>7 DEF IsState
    <3>2. PICK e, before : e = q + 2 /\ before = Run(s)[e - 1]
      OBVIOUS
    <3>3. /\ e \in 1 .. Len(s) /\ NextEvent(s, q) = e
          /\ before = Expecting(st, "value")
          /\ ScalarRead(r, s, e) \/ BracketRead(r, s, e)
      <4>1. r[q].expects = "colon" /\ r = Run(s) /\ q \in 1 .. last
        BY <2>1, <2>2, <2>7
      <4>2. /\ q + 2 \in 1 .. last /\ NextEvent(s, q) = q + 2
            /\ r[q + 1] = Expecting(r[q], "value")
            /\ ScalarRead(r, s, q + 2) \/ BracketRead(r, s, q + 2)
        BY <1>1, <1>2, <4>1, AfterKey
      <4> QED
        BY <1>1, <2>1, <2>3, <3>2, <4>2
    <3>4. before.open = st.open /\ Inner(before) = Inner(st)
      BY <2>4, <3>3, ExpectingState DEF Expectation
    <3>5. SameOpen(st, before)
      BY <3>4 DEF SameOpen
    <3>6. IsItem(s, e)
      BY <2>1, <3>3 DEF IsItem
    <3>7. ~KeyRead(Run(s), s, e)
      BY <1>2, <2>1, <3>3, ReadOnce
    <3>8. /\ Inner(before).at = Inner(st).at
          /\ Inner(before).index = IF st.expects \in {"first", "colon"} THEN Inner(st).index
                                                                       ELSE Inner(st).index + 1
          /\ KeyRead(Run(s), s, e) <=> Inner(st).kind = "object" /\ st.expects # "colon"
      BY <2>7, <3>4, <3>7
    <3>9. WalkReads(s, W, a, e)'
      BY <2>1, <2>2, <2>3, <3>1, <3>2, <3>3, <3>5, <3>6, <3>8, ItemCall
    <3> QED
      BY <3>3, <3>9
  <2>8. CASE st.expects = "separator" /\ ~IsWhole(st)
    <3>1. st.open # <<>>
      BY <2>8 DEF IsWhole
    <3>2. \/ /\ q + 1 \in 1 .. last /\ NextEvent(s, q) = q + 1 /\ CloserRead(r, s, q + 1)
          \/ /\ q + 2 \in 1 .. last /\ NextEvent(s, q) = q + 2
             /\ r[q + 1] = Onward(st)
             /\ \/ ScalarRead(r, s, q + 2) \/ BracketRead(r, s, q + 2)
                \/ KeyRead(r, s, q + 2)
             /\ KeyRead(r, s, q + 2) <=> Inner(st).kind = "object"
      <4>1. r[q].expects = "separator" /\ ~IsWhole(r[q]) /\ r[q] = st
        BY <2>1, <2>8
      <4>2. r = Run(s) /\ q \in 1 .. last
        BY <2>1, <2>2
      <4> QED
        BY <1>1, <1>2, <4>1, <4>2, AfterValue
    <3>3. CASE q + 1 \in 1 .. last /\ NextEvent(s, q) = q + 1 /\ CloserRead(r, s, q + 1)
      <4>1. PICK e : e = q + 1
        OBVIOUS
      <4>2. /\ e \in 1 .. Len(s) /\ NextEvent(s, q) = e /\ e - 1 = q
            /\ CloserRead(Run(s), s, e)
        BY <1>1, <2>1, <2>3, <3>3, <4>1
      <4>3. WalkReads(s, W, a, e)'
        BY <2>1, <2>2, <2>3, <3>1, <4>2, CloserCall
      <4> QED
        BY <4>2, <4>3
    <3>4. CASE /\ q + 2 \in 1 .. last /\ NextEvent(s, q) = q + 2
               /\ r[q + 1] = Onward(st)
               /\ \/ ScalarRead(r, s, q + 2) \/ BracketRead(r, s, q + 2)
                  \/ KeyRead(r, s, q + 2)
               /\ KeyRead(r, s, q + 2) <=> Inner(st).kind = "object"
      <4>1. PICK e, before : e = q + 2 /\ before = Run(s)[e - 1]
        OBVIOUS
      <4>2. /\ e \in 1 .. Len(s) /\ NextEvent(s, q) = e /\ before = Onward(st)
            /\ ScalarRead(r, s, e) \/ BracketRead(r, s, e) \/ KeyRead(r, s, e)
            /\ KeyRead(r, s, e) <=> Inner(st).kind = "object"
        BY <1>1, <2>1, <2>3, <3>4, <4>1
      <4>3. /\ Len(before.open) = Len(st.open)
            /\ \A m \in 1 .. Len(st.open) - 1 : before.open[m] = st.open[m]
            /\ Inner(before).at = Inner(st).at /\ Inner(before).kind = Inner(st).kind
            /\ Inner(before).index = Inner(st).index + 1
            /\ before.open[Len(st.open)] = Inner(before)
        BY <2>4, <3>1, <4>2, OnwardState
      <4>4. SameOpen(st, before)
        <5>1. Inner(st) = st.open[Len(st.open)]
          BY <2>4, <3>1, InnerFacts
        <5> QED
          BY <4>3, <5>1 DEF SameOpen
      <4>5. IsItem(s, e)
        BY <2>1, <4>2 DEF IsItem
      <4>6. /\ Inner(before).index = IF st.expects \in {"first", "colon"} THEN Inner(st).index
                                                                         ELSE Inner(st).index + 1
            /\ KeyRead(Run(s), s, e) <=> Inner(st).kind = "object" /\ st.expects # "colon"
        BY <2>1, <2>8, <4>2, <4>3
      <4>7. WalkReads(s, W, a, e)'
        BY <2>1, <2>2, <2>3, <3>1, <4>1, <4>2, <4>3, <4>4, <4>5, <4>6, ItemCall
      <4> QED
        BY <4>2, <4>7
    <3> QED
      BY <3>2, <3>3, <3>4
  <2>9. st.expects \in {"first", "colon", "separator"}
    <3>1. ScalarRead(r, s, q) \/ BracketRead(r, s, q) \/ KeyRead(r, s, q)
            \/ CloserRead(r, s, q)
      BY <1>1, <1>2, <2>1, <2>2, EventIs
    <3>2. PICK was : was = r[q - 1]
      OBVIOUS
    <3>3. was = [expects |-> was.expects, open |-> was.open]
      BY <1>2, <2>1, <2>3, <3>2, RunStates DEF IsState
    <3>4. /\ Expecting(was, "separator").expects = "separator"
          /\ Expecting(was, "colon").expects = "colon"
          /\ Shallower(was).expects = "separator"
          /\ \A kind \in Container : Deeper(was, kind, q).expects = "first"
      BY <3>3 DEF Expecting, Shallower, Deeper
    <3> QED
      BY <2>1, <3>1, <3>2, <3>4 DEF ScalarRead, BracketRead, KeyRead, CloserRead
  <2> QED
    BY <2>5, <2>6, <2>7, <2>8, <2>9
<1> QED
  BY <1>4, <1>5

\* The constructor of the traverser shows the first event.
LEMMA ConstructShows ==
  ASSUME NEW s, NEW W, NEW a, AstIs(s, W, a, root_type), Construct
  PROVE  WalkReads(s, W, a, FirstEvent(s))'
<1>1. /\ Len(s) \in Nat \ {0} /\ IsWhole(Run(s)[Len(s)]) /\ Len(a) \in Nat
      /\ FirstEvent(s) = 1 /\ BracketRead(Run(s), s, 1)
      /\ W[1] = Word(root_type, Len(a))
  BY DEF AstIs
<1>2. PICK r, st : r = Run(s) /\ st = Run(s)[1]
  OBVIOUS
<1>3. 1 \in 1 .. Len(s) /\ Len(s) \in Nat /\ 1 \in Nat \ {0} /\ 1 - 1 = 0
  BY <1>1
<1>4. r[0] = Outset
  BY <1>1, <1>2, RunSteps
<1>5. /\ ~ScalarRead(r, s, 1) /\ ~KeyRead(r, s, 1) /\ ~CloserRead(r, s, 1)
      /\ IsEvent(s, 1)
  BY <1>1, <1>2, <1>3, ReadOnce DEF IsItem
<1>6. /\ W[1].type = root_type /\ W[1].value = Len(a)
      /\ root_type \in Container
  BY <1>1, <1>3 DEF AstIs, Word
<1>7. ValueAt(W, a, 1) = Root
  <2>1. Len(a) + 1 - Len(a) = 1
    BY <1>1
  <2> QED
    BY <1>6, <2>1 DEF ValueAt, Root
<1>8. current_type' = root_type
  <2>1. TypeOf(Root) = root_type
    BY <1>6, TokenNames DEF TypeOf, Root, CommonType
  <2> QED
    BY <2>1 DEF Construct
<1>9. ShownAt(current_type', s, W, a, 1)
  BY <1>2, <1>5, <1>6, <1>8 DEF ShownAt
<1>10. PICK helper : helper = Helper(ValueAt(W, a, 1))
  OBVIOUS
<1>11. container_stack' = <<helper>>
  BY <1>7, <1>10 DEF Construct
<1>12. PICK kind \in Container : r[1] = Deeper(Outset, kind, 1)
  BY <1>1, <1>2, <1>3, <1>4 DEF BracketRead
<1>13. /\ st.expects = "first" /\ Len(st.open) = 1
       /\ st.open[1] = [at |-> 1, kind |-> kind, index |-> 0]
  <2>1. IsState(Outset)
    BY <1>1, <1>2, <1>3, <1>4, RunStates
  <2>2. /\ Deeper(Outset, kind, 1).expects = "first"
        /\ Len(Deeper(Outset, kind, 1).open) = Len(Outset.open) + 1
        /\ Deeper(Outset, kind, 1).open[Len(Outset.open) + 1] =
             [at |-> 1, kind |-> kind, index |-> 0]
    BY <1>3, <2>1, DeeperState
  <2>3. Len(Outset.open) = 0
    BY DEF Outset
  <2> QED
    BY <1>2, <1>12, <2>2, <2>3
<1>14. HelperIs(helper, W, a, st, 1)
  <2>1. /\ helper.value = ValueAt(W, a, 1) /\ helper.index = -1
        /\ helper.current_type = root_type
        /\ helper = [value |-> helper.value, current_type |-> helper.current_type,
                     index |-> helper.index]
    BY <1>6, <1>10 DEF Helper, ValueAt
  <2>2. root_type # "key"
    BY <1>6, TokenNames
  <2> QED
    BY <1>13, <2>1, <2>2 DEF HelperIs
<1>15. HelpersAre(<<helper>>, W, a, st)
  <2>1. PICK helpers : helpers = <<helper>>
    OBVIOUS
  <2>2. helpers \in Seq({helper}) /\ Len(helpers) = 1 /\ helpers[1] = helper
    BY <2>1
  <2>3. \A m \in 1 .. 1 : m = 1
    OBVIOUS
  <2>4. HelpersAre(helpers, W, a, st)
    BY <1>13, <1>14, <2>2, <2>3 DEF HelpersAre
  <2> QED
    BY <2>1, <2>4
<1> QED
  BY <1>1, <1>2, <1>3, <1>5, <1>9, <1>11, <1>15 DEF WalkReads

-----------------------------------------------------------------------------
(***************************************************************************)
(* What is shown, and what the getters return.                             *)
(***************************************************************************)

LEMMA NoGetter ==
  /\ "end_of_document" \notin WithGetter /\ "end_of_container" \notin WithGetter
  /\ "null" \notin WithGetter /\ "key" \in WithGetter
  /\ \A kind \in Container : kind \notin WithGetter
  /\ "object" \notin ScalarKind /\ "array" \notin ScalarKind
  /\ \A kind \in ScalarKind : kind \notin Container
BY TokenNames DEF WithGetter

\* In a text that begins with a bracket every scalar is inside a container.
LEMMA ScalarInside ==
  ASSUME NEW s, Len(s) \in Nat, NEW last \in 0 .. Len(s), IsWhole(Run(s)[last]),
         BracketRead(Run(s), s, 1), NEW q \in 1 .. last, ScalarRead(Run(s), s, q)
  PROVE  Run(s)[q - 1].open # <<>>
<1>1. PICK r, k : r = Run(s) /\ k = q - 1
  OBVIOUS
<1>2. /\ Len(s) \in Nat /\ q \in 1 .. Len(s) /\ k \in 0 .. last /\ k \in 0 .. Len(s)
      /\ q \in Nat
  BY <1>1
<1>3. q # 1
  <2>1. q = 1 => 1 \in 1 .. Len(s) /\ ScalarRead(Run(s), s, 1)
    BY <1>2
  <2> QED
    BY <2>1, ReadOnce
<1>4. k \in 1 .. last /\ k \in 1 .. Len(s) /\ k - 1 \in 0 .. Len(s)
  BY <1>1, <1>2, <1>3
<1>5. PICK st, was, token : st = r[k] /\ was = r[k - 1] /\ token = s[k]
  OBVIOUS
<1>6. IsState(st) /\ IsState(was)
  BY <1>1, <1>2, <1>4, <1>5, RunStates
<1>7. TokenReads(was, st, token, k)
  BY <1>1, <1>4, <1>5, WholeIsLast
<1>8. ~(k = 1 /\ token = "EF")
  <2>1. s[1] # "EF"
    BY TokenNames DEF BracketRead
  <2> QED
    BY <1>5, <2>1
<1>9. ValueNext(st)
  BY <1>1, <1>5 DEF ScalarRead
<1>10. CASE st.expects = "first"
  BY <1>1, <1>5, <1>6, <1>10 DEF IsState
<1>11. CASE st.expects = "value"
  <2>1. \A what : /\ Expecting(was, what).expects = what
                  /\ Expecting(was, what).open = was.open
    BY <1>6 DEF Expecting, IsState
  <2>2. Shallower(was).expects = "separator"
    BY DEF Shallower
  <2>3. \A kind : Deeper(was, kind, k).expects = "first"
    BY DEF Deeper
  <2>4. \/ was.expects = "colon" /\ st = Expecting(was, "value")
        \/ CommaNext(was) /\ st = Onward(was)
    BY <1>7, <1>8, <1>11, <2>1, <2>2, <2>3 DEF TokenReads
  <2>5. CASE was.expects = "colon" /\ st = Expecting(was, "value")
    BY <1>1, <1>5, <1>6, <2>1, <2>5 DEF IsState
  <2>6. CASE CommaNext(was) /\ st = Onward(was)
    <3>1. was.open # <<>>
      BY <2>6 DEF CommaNext
    <3>2. Onward(was).open # <<>>
      BY <1>6, <3>1, OnwardState
    <3> QED
      BY <1>1, <1>5, <2>6, <3>2
  <2> QED
    BY <2>4, <2>5, <2>6
<1> QED
  BY <1>9, <1>10, <1>11 DEF ValueNext

LEMMA EventIsShown ==
  ASSUME NEW s, NEW W, NEW a, NEW root, AstIs(s, W, a, root), ast = a,
         NEW q, WalkReads(s, W, a, q)
  PROVE  Shown = EventAt(s, q, ShownAs)
<1>1. PICK last \in Nat \ {0} : last = Len(s) /\ IsWhole(Run(s)[last])
  BY DEF AstIs
<1>2. Len(s) \in Nat /\ last \in 0 .. Len(s) /\ last \in Nat
  BY <1>1
<1>3. PICK top, getter : top = Top /\ getter = Getter
  OBVIOUS
<1>4. Shown = Value(current_type, IF current_type \in WithGetter THEN getter ELSE NoPayload)
  BY <1>3 DEF Shown
<1>5. /\ top.current_type = "key" => getter = KeyOf(a, top.value, top.index)
      /\ top.current_type = "boolean" => getter = ElementOf(a, top.value, top.index).type
      /\ top.current_type \notin {"key", "boolean"} =>
           getter = a[ElementOf(a, top.value, top.index).at].value
  BY <1>3 DEF Getter, Element
<1>6. CASE q = 0
  <2>1. current_type = "end_of_document"
    BY <1>6 DEF WalkReads
  <2>2. EventAt(s, q, ShownAs) = Value("end_of_document", NoPayload)
    BY <1>6 DEF EventAt
  <2> QED
    BY <1>4, <2>1, <2>2, NoGetter
<1>7. CASE q # 0
  <2>1. PICK r, st, before : r = Run(s) /\ st = Run(s)[q] /\ before = Run(s)[q - 1]
    OBVIOUS
  <2>2. /\ q \in 1 .. Len(s) /\ q \in 1 .. last /\ IsEvent(s, q)
        /\ ShownAt(current_type, s, W, a, q)
        /\ HelpersAre(container_stack, W, a, st)
        /\ ScalarRead(r, s, q) \/ KeyRead(r, s, q) => top.current_type = current_type
    BY <1>1, <1>3, <1>7, <2>1 DEF WalkReads
  <2>3. q - 1 \in 0 .. Len(s) /\ q \in 0 .. Len(s)
    BY <1>1, <2>2
  <2>4. ScalarRead(r, s, q) \/ BracketRead(r, s, q) \/ KeyRead(r, s, q)
          \/ CloserRead(r, s, q)
    BY <1>1, <1>2, <2>1, <2>2, EventIs
  <2>5. IsState(before)
    BY <1>2, <2>1, <2>3, RunStates
  \* The helper on top stands on an item that was just read.
  <2>6. ASSUME IsItem(s, q), before.open # <<>>, st.open = before.open,
               st.expects # "first"
        PROVE  /\ KeyRead(r, s, q) => KeyOf(a, top.value, top.index) = W[q].value
               /\ ~KeyRead(r, s, q) =>
                    ElementOf(a, top.value, top.index) = ValueAt(W, a, q)
    <3>1. Inner(st) = Inner(before) /\ Inner(st) = Host(s, q)
      BY <2>1, <2>6 DEF Inner, Host
    <3>2. Len(st.open) \in Nat \ {0} /\ Inner(st) = st.open[Len(st.open)]
      BY <2>5, <2>6, <3>1, InnerFacts
    <3>3. PICK value, index : value = ValueAt(W, a, Host(s, q).at) /\ index = Host(s, q).index
      OBVIOUS
    <3>4. TopIsAs(st, value, index)
      BY <2>2, <3>1, <3>2, <3>3, TopNow
    <3>5. top.value = value /\ top.index = index
      BY <1>3, <2>6, <3>4 DEF TopIsAs
    <3>6. /\ ~KeyRead(r, s, q) => ElementOf(a, value, index) = ValueAt(W, a, q)
          /\ KeyRead(r, s, q) => KeyOf(a, value, index) = W[q].value
      BY <2>1, <2>2, <2>6, <3>3, ItemThere
    <3> QED
      BY <3>5, <3>6
  <2>7. CASE ScalarRead(r, s, q)
    <3>1. ~BracketRead(r, s, q) /\ ~KeyRead(r, s, q) /\ ~CloserRead(r, s, q)
      BY <1>2, <2>1, <2>2, <2>7, ReadOnce
    <3>2. s[q] \in ScalarKind /\ st = Expecting(before, "separator") /\ IsItem(s, q)
      BY <2>1, <2>7 DEF ScalarRead, IsItem
    <3>3. st.expects = "separator" /\ st.open = before.open
      BY <2>5, <3>2, ExpectingState DEF Expectation
    <3>4. before.open # <<>>
      <4>1. BracketRead(Run(s), s, 1)
        BY DEF AstIs
      <4> QED
        BY <1>1, <1>2, <2>1, <2>2, <2>7, <4>1, ScalarInside
    <3>5. PICK v : v = ValueAt(W, a, q)
      OBVIOUS
    <3>6. ElementOf(a, top.value, top.index) = v
      BY <2>6, <3>1, <3>2, <3>3, <3>4, <3>5
    <3>7. PICK distance \in 0 .. Len(a) :
            /\ W[q] = Word(TypeIn[s[q]], distance)
            /\ s[q] \notin AtomKind =>
                 distance # 0 /\ Back(a, distance).value = Payload(s[q], q)
      BY <2>1, <2>2, <2>7 DEF AstIs, ScalarHeld
    <3>8. v.type = TypeIn[s[q]] /\ v.at = Len(a) + 1 - distance
      BY <3>5, <3>7 DEF ValueAt, Word
    <3>9. a[v.at].value = Back(a, distance).value
      BY <3>8 DEF Back
    <3>10. /\ TypeOf(v) = ShownAs[s[q]]
           /\ ShownAs[s[q]] \in WithGetter \/ s[q] = "null"
           /\ s[q] = "null" => ShownAs[s[q]] = "null"
           /\ ShownAs[s[q]] # "key"
           /\ ShownAs[s[q]] = "boolean" <=> s[q] \in {"true", "false"}
           /\ s[q] \in {"true", "false"} => TypeIn[s[q]] = s[q]
      BY <3>2, <3>8, ScalarShown
    <3>11. current_type = ShownAs[s[q]] /\ top.current_type = ShownAs[s[q]]
      BY <2>1, <2>2, <2>7, <3>5, <3>10 DEF ShownAt
    <3>12. s[q] # "null" => getter = Payload(s[q], q)
      <4>1. s[q] \in {"true", "false", "null"} <=> s[q] \in AtomKind
        BY DEF AtomKind
      <4>2. CASE s[q] \in {"true", "false"}
        <5>1. getter = s[q]
          BY <1>5, <3>6, <3>8, <3>10, <3>11, <4>2
        <5>2. Payload(s[q], q) = s[q]
          BY <4>2 DEF Payload
        <5> QED
          BY <5>1, <5>2
      <4>3. CASE s[q] \notin AtomKind
        <5>1. getter = a[v.at].value
          BY <1>5, <3>6, <3>10, <3>11, <4>1, <4>3
        <5> QED
          BY <3>7, <3>9, <4>3, <5>1
      <4> QED
        BY <4>1, <4>2, <4>3
    <3>13. s[q] = "null" => Payload(s[q], q) = NoPayload
      BY DEF Payload
    <3>14. EventAt(s, q, ShownAs) = Value(ShownAs[s[q]], Payload(s[q], q))
      <4>1. s[q] \notin {"begin_object", "begin_array"} \cup Closing
        BY <3>2, TokenNames
      <4>2. Run(s)[q].expects # "colon"
        BY <2>1, <3>3
      <4> QED
        BY <1>7, <3>2, <4>1, <4>2 DEF EventAt
    <3>15. Shown = Value(ShownAs[s[q]], Payload(s[q], q))
      BY <1>4, <3>10, <3>11, <3>12, <3>13, NoGetter
    <3> QED
      BY <3>14, <3>15
  <2>8. CASE KeyRead(r, s, q)
    <3>1. s[q] = "string" /\ st = Expecting(before, "colon") /\ KeyNext(before)
      BY <2>1, <2>8 DEF KeyRead
    <3>2. before.open # <<>> /\ Inner(before).kind = "object"
      BY <2>5, <3>1 DEF IsState, KeyNext
    <3>3. st.expects = "colon" /\ st.open = before.open
      BY <2>5, <3>1, <3>2, ExpectingState DEF Expectation
    <3>4. IsItem(s, q)
      BY <2>1, <2>8 DEF IsItem
    <3>5. KeyOf(a, top.value, top.index) = W[q].value
      BY <2>6, <2>8, <3>2, <3>3, <3>4
    <3>6. W[q].value = Payload("string", q)
      BY <2>1, <2>2, <2>8 DEF AstIs
    <3>7. current_type = "key" /\ top.current_type = "key"
      BY <2>1, <2>2, <2>8 DEF ShownAt
    <3>8. getter = Payload("string", q)
      BY <1>5, <3>5, <3>6, <3>7
    <3>9. EventAt(s, q, ShownAs) = Value("key", Payload("string", q))
      <4>1. Run(s)[q].expects = "colon" /\ s[q] \in ScalarKind
        BY <2>1, <3>1, <3>3, TokenNames
      <4> QED
        BY <1>7, <3>1, <4>1, TokenNames DEF EventAt
    <3> QED
      BY <1>4, <3>7, <3>8, <3>9, NoGetter
  <2>9. CASE BracketRead(r, s, q)
    <3>1. W[q].type \in Container /\ s[q] = Opener[W[q].type]
      BY <2>1, <2>2, <2>9 DEF AstIs
    <3>2. current_type = W[q].type
      BY <2>1, <2>2, <2>9 DEF ShownAt
    <3>3. EventAt(s, q, ShownAs) = Value(W[q].type, NoPayload)
      BY <1>7, <3>1, TokenNames DEF EventAt
    <3> QED
      BY <1>4, <3>1, <3>2, <3>3, NoGetter
  <2>10. CASE CloserRead(r, s, q)
    <3>1. s[q] \in Closing
      BY <2>1, <2>5, <2>10, InnerFacts, TokenNames DEF CloserRead, CloserNext
    <3>2. EventAt(s, q, ShownAs) = Value("end_of_container", NoPayload)
      BY <1>7, <3>1, TokenNames DEF EventAt
    <3>3. current_type = "end_of_container"
      BY <2>1, <2>2, <2>10 DEF ShownAt
    <3> QED
      BY <1>4, <3>2, <3>3, NoGetter
  <2> QED
    BY <2>4, <2>7, <2>8, <2>9, <2>10
<1> QED
  BY <1>6, <1>7

-----------------------------------------------------------------------------
(***************************************************************************)
(* The verdict. A text is accepted if and only if it is one whole value    *)
(* that is a container.                                                    *)
(***************************************************************************)

IsTaken(s) == s[1] \in Opening /\ Len(s) # 0 /\ IsWhole(Run(s)[Len(s)])

\* A container that could be closed was, before a value or a key is read.
VerdictInv ==
  /\ label \in {"next_element", "object_key"} /\ p <= Len(text) =>
       ~CloserNext(Run(text)[p - 1], text[p])
  /\ label = "accepted" => IsTaken(text)
  /\ label = "rejected" => ~IsTaken(text)

\* Where the parser is.
Stood(s, n, st) ==
  /\ s = text /\ Len(s) \in Nat /\ n \in Nat /\ n \in 0 .. Len(s) /\ p = n + 1
  /\ n = p - 1 /\ st = Run(s)[n] /\ IsState(st) /\ ReadsOn(label, st)
  /\ st.open # <<>> => root_type = Inner(st).kind
  /\ st.open # <<>> => \E bases : BasesFit(st, bases, stack, current_base, root_type)

LEMMA StoodThere ==
  ASSUME ParserInv, FollowInv, label \in InText
  PROVE  \E s, n, st : Stood(s, n, st)
<1>1. PICK s, n, st, bases, W : StandsAt(s, n, st, bases, W)
  BY StandsSomewhere
<1>2. /\ s = text /\ Len(s) \in Nat /\ n \in Nat /\ n \in 0 .. Len(s) /\ p = n + 1
      /\ st = Run(s)[n] /\ IsState(st) /\ ReadsOn(label, st)
      /\ BasesFit(st, bases, stack, current_base, root_type)
  BY <1>1 DEF StandsAt
<1>3. st.open # <<>> => root_type = Inner(st).kind
  BY <1>2 DEF BasesFit
<1>4. n = p - 1
  BY <1>2
<1>5. Stood(s, n, st)
  BY <1>2, <1>3, <1>4 DEF Stood
<1> QED
  BY <1>5

\* Before the last token of a container there is something to read.
LEMMA TakenAhead ==
  ASSUME NEW s, NEW n, NEW st, Stood(s, n, st), st.expects # "nothing",
         IsTaken(s)
  PROVE  \/ n = Len(s) /\ IsWhole(st)
         \/ /\ ~IsWhole(st) /\ p \in 1 .. Len(s) /\ p = n + 1
            /\ TokenReads(st, Run(s)[p], s[p], p)
            /\ ~(p = 1 /\ s[p] = "EF")
<1>1. /\ Len(s) \in Nat /\ n \in Nat /\ n \in 0 .. Len(s) /\ p = n + 1 /\ st = Run(s)[n]
  BY DEF Stood
<1>2. Len(s) \in 0 .. Len(s) /\ IsWhole(Run(s)[Len(s)]) /\ s[1] # "EF"
  BY <1>1, TokenNames DEF IsTaken
<1>3. \/ n = Len(s) /\ IsWhole(st)
      \/ /\ n < Len(s) /\ ~IsWhole(st) /\ n + 1 \in 1 .. Len(s)
         /\ TokenReads(st, Run(s)[n + 1], s[n + 1], n + 1)
  BY <1>1, <1>2, WholeAhead
<1> QED
  BY <1>1, <1>2, <1>3

LEMMA FirstVerdict ==
  ASSUME ParserInv, FollowInv, Parser!First
  PROVE  VerdictInv'
<1>1. /\ label = "close_or_first" /\ p <= Len(text)
      /\ text[p] # Closer[root_type]
      /\ label' \in {"next_element", "object_key"} /\ text' = text /\ p' = p
  BY DEF Parser!First, Parser!AfterSeparator, Parser!Here, Parser!Closer, Closer
<1>2. PICK s, n, st : Stood(s, n, st)
  BY <1>1, StoodThere DEF InText
<1>3. /\ s = text /\ n = p - 1 /\ st = Run(s)[n] /\ IsState(st) /\ st.expects = "first"
      /\ st.open # <<>> => root_type = Inner(st).kind
  BY <1>1, <1>2 DEF Stood, ReadsOn
<1>4. ~CloserNext(st, text[p])
  BY <1>1, <1>3 DEF CloserNext, IsState
<1> QED
  BY <1>1, <1>3, <1>4 DEF VerdictInv

LEMMA CommaVerdict ==
  ASSUME ParserInv, FollowInv, Parser!Comma
  PROVE  VerdictInv'
<1>1. /\ label = "close_or_comma" /\ p <= Len(text) /\ text[p] = "comma"
      /\ label' \in {"next_element", "object_key"} /\ text' = text /\ p' = p + 1
  BY DEF Parser!Comma, Parser!AfterSeparator, Parser!Here
<1>2. PICK s, n, st : Stood(s, n, st)
  BY <1>1, StoodThere DEF InText
<1>3. /\ s = text /\ n \in Nat /\ p = n + 1 /\ st = Run(s)[n] /\ IsState(st)
      /\ st.expects = "separator" /\ st.open # <<>> /\ Len(s) \in Nat /\ n \in 0 .. Len(s)
  BY <1>1, <1>2 DEF Stood, ReadsOn
<1>4. n < Len(s) /\ s[n + 1] = "comma"
  BY <1>1, <1>3
<1>5. Comes(s, n, n + 1, st)
  BY <1>3, <1>4 DEF Comes
<1>6. Run(s)[n + 1].expects \in {"key", "value"}
  BY <1>3, <1>4, <1>5, CommaComes
<1>7. p' - 1 = n + 1
  BY <1>1, <1>3
<1>8. ~CloserNext(Run(s)[n + 1], s[p'])
  BY <1>6 DEF CloserNext
<1> QED
  BY <1>1, <1>3, <1>7, <1>8 DEF VerdictInv

LEMMA KeyVerdict ==
  ASSUME ParserInv, FollowInv, Parser!ObjectKey, label' # "rejected"
  PROVE  VerdictInv'
<1>1. /\ label = "object_key" /\ p <= Len(text) /\ text[p] = "string" /\ p < Len(text)
      /\ text[p + 1] = "colon"
      /\ label' = "next_element" /\ text' = text /\ p' = p + 2
  BY DEF Parser!ObjectKey, Parser!Reject, Parser!Here
<1>2. PICK s, n, st : Stood(s, n, st)
  BY <1>1, StoodThere DEF InText
<1>3. /\ s = text /\ n \in Nat /\ p = n + 1 /\ st = Run(s)[n] /\ IsState(st)
      /\ KeyNext(st) /\ Len(s) \in Nat /\ n \in 0 .. Len(s)
  BY <1>1, <1>2 DEF Stood, ReadsOn
<1>4. PICK q, more : q = n + 1 /\ more = q + 1
  OBVIOUS
<1>5. /\ q \in 1 .. Len(s) /\ more \in 1 .. Len(s) /\ s[more] = "colon"
      /\ s[q] = "string"
  BY <1>1, <1>3, <1>4
<1>6. Comes(s, n, q, st)
  BY <1>3, <1>4, <1>5 DEF Comes
<1>7. Run(s)[more].expects = "value"
  BY <1>3, <1>4, <1>5, <1>6, KeyComes
<1>8. p' - 1 = more
  BY <1>1, <1>3, <1>4
<1>9. ~CloserNext(Run(s)[more], s[p'])
  BY <1>7 DEF CloserNext
<1> QED
  BY <1>1, <1>3, <1>8, <1>9 DEF VerdictInv

\* What makes the parser stop: what is read next fits nothing.
LEMMA RefusedVerdict ==
  ASSUME ParserInv, FollowInv, VerdictInv,
         Parser!NoElement \/ Parser!NoSeparator
           \/ (Parser!ObjectKey /\ label' = "rejected")
  PROVE  VerdictInv'
<1>1. /\ label' = "rejected" /\ text' = text
      /\ label \in {"next_element", "close_or_first", "close_or_comma", "object_key"}
  BY DEF Parser!NoElement, Parser!NoSeparator, Parser!ObjectKey, Parser!Reject,
         Parser!NextElement
<1>2. PICK s, n, st : Stood(s, n, st)
  BY <1>1, StoodThere DEF InText
<1>3. /\ s = text /\ n \in Nat /\ p = n + 1 /\ st = Run(s)[n] /\ n = p - 1 /\ IsState(st)
      /\ Len(s) \in Nat /\ n \in 0 .. Len(s)
      /\ label = "next_element" => ValueNext(st)
      /\ label = "object_key" => KeyNext(st)
      /\ label = "close_or_first" => st.expects = "first"
      /\ label = "close_or_comma" => st.expects = "separator" /\ st.open # <<>>
      /\ st.open # <<>> => root_type = Inner(st).kind
  BY <1>2 DEF Stood, ReadsOn
<1>4. st.expects # "nothing" /\ ~IsWhole(st)
  BY <1>1, <1>3 DEF ValueNext, KeyNext, IsWhole, IsState
<1>5. ASSUME IsTaken(s)
      PROVE  FALSE
  <2>1. /\ p \in 1 .. Len(s) /\ TokenReads(st, Run(s)[p], s[p], p)
        /\ ~(p = 1 /\ s[p] = "EF")
    BY <1>2, <1>4, <1>5, TakenAhead
  <2>2. label \in {"next_element", "object_key"} => ~CloserNext(st, s[p])
    BY <1>3, <2>1 DEF VerdictInv
  <2>3. \A token : Parser!Here(token) <=> s[p] = token
    BY <1>3, <2>1 DEF Parser!Here
  <2>4. CASE Parser!NoElement
    <3>1. label = "next_element" /\ s[p] \notin ScalarKind \cup Opening
      BY <2>3, <2>4, SameAst DEF Parser!NoElement, Parser!NextElement, Parser!Opening, Opening
    <3> QED
      BY <1>3, <2>1, <2>2, <3>1, NextToken
  <2>5. CASE Parser!ObjectKey /\ label' = "rejected"
    <3>1. /\ label = "object_key"
          /\ ~(s[p] = "string" /\ p < Len(s) /\ s[p + 1] = "colon")
      BY <1>3, <2>3, <2>5 DEF Parser!ObjectKey
    <3>2. s[p] = "string"
      BY <1>3, <2>1, <2>2, <3>1, NextToken
    <3>3. Run(s)[p] = Expecting(st, "colon")
      BY <1>3, <2>1, <3>1, <3>2, StringReads
    <3>4. Run(s)[p].expects = "colon"
      BY <1>3, <3>3 DEF Expecting, IsState
    <3>5. PICK q, more : q = p /\ more = q + 1
      OBVIOUS
    <3>6. /\ q \in 0 .. Len(s) /\ Len(s) \in 0 .. Len(s) /\ IsWhole(Run(s)[Len(s)])
          /\ ~IsWhole(Run(s)[q]) /\ Run(s)[q].expects = "colon"
      BY <1>3, <1>5, <2>1, <3>4, <3>5 DEF IsTaken, IsWhole
    <3>7. /\ q < Len(s) /\ TokenReads(Run(s)[q], Run(s)[q + 1], s[q + 1], q + 1)
      BY <1>3, <3>6, WholeAhead
    <3>8. ~(q + 1 = 1 /\ s[q + 1] = "EF")
      BY <1>3, <3>5
    <3>9. s[q + 1] = "colon"
      BY <3>6, <3>7, <3>8, NextToken
    <3> QED
      BY <3>1, <3>2, <3>5, <3>7, <3>9
  <2>6. CASE Parser!NoSeparator
    <3>1. \/ label = "close_or_first" /\ p > Len(s)
          \/ label = "close_or_comma" /\ s[p] # "comma" /\ s[p] # Closer[root_type]
      BY <1>3, <2>3, <2>6 DEF Parser!NoSeparator, Parser!Closer, Closer
    <3>2. label = "close_or_comma" /\ s[p] # "comma" /\ s[p] # Closer[root_type]
      BY <1>3, <2>1, <3>1
    <3>3. st.expects = "separator" /\ ~CloserNext(st, s[p])
      BY <1>3, <3>2 DEF CloserNext
    <3> QED
      BY <2>1, <3>2, <3>3, NextToken
  <2> QED
    BY <2>4, <2>5, <2>6
<1> QED
  BY <1>1, <1>3, <1>5 DEF VerdictInv

LEMMA BeginVerdict ==
  ASSUME FollowInv, RootFirst, Parser!Begin
  PROVE  VerdictInv'
<1>1. p = 1 /\ Len(text) \in Nat
  BY DEF FollowInv, RootFirst, Parser!Begin
<1>2. CASE \E kind \in Parser!Container : label' = "close_or_first"
  BY <1>2 DEF VerdictInv
<1>3. CASE /\ ~Parser!Here("begin_object") /\ ~Parser!Here("begin_array")
           /\ label' = "rejected" /\ text' = text
  <2>1. Len(text) # 0 => text[1] \notin Opening
    BY <1>1, <1>3 DEF Parser!Here, Opening
  <2> QED
    BY <1>3, <2>1 DEF VerdictInv, IsTaken
<1> QED
  BY <1>2, <1>3 DEF Parser!Begin, Parser!Open, Parser!Reject

\* After the root nothing is read: if there is more, it makes no value.
LEMMA CloseVerdict ==
  ASSUME ParserInv, FollowInv, RootFirst, FollowInv', RootFirst', Parser!Close
  PROVE  VerdictInv'
<1>1. /\ label \in {"close_or_first", "close_or_comma"}
      /\ p <= Len(text) /\ text[p] = Closer[root_type]
      /\ p' = p + 1 /\ text' = text
      /\ \/ /\ stack[current_base + 1].value = -1
            /\ label' = IF p' > Len(text) THEN "accepted" ELSE "rejected"
         \/ label' = "close_or_comma"
  BY DEF Parser!Close, Parser!Here, Parser!Closer, Closer, Parser!RootMarker
<1>2. CASE label' = "close_or_comma"
  BY <1>2 DEF VerdictInv
<1>3. CASE label' = "accepted"
  <2>1. Len(text) # 0 /\ IsWhole(Run(text)[Len(text)])
    BY <1>1, <1>3 DEF FollowInv, AstHolds
  <2>2. text[1] \in Opening
    BY <1>1, <1>3 DEF RootFirst
  <2> QED
    BY <1>1, <1>3, <2>1, <2>2 DEF VerdictInv, IsTaken
<1>4. CASE label' = "rejected"
  <2>1. PICK s, n, st : Stood(s, n, st)
    BY <1>1, StoodThere DEF InText
  <2>2. /\ s = text /\ n \in Nat /\ p = n + 1 /\ st = Run(s)[n] /\ IsState(st)
        /\ Len(s) \in Nat /\ n \in 0 .. Len(s)
        /\ st.expects \in {"first", "separator"} /\ st.open # <<>>
        /\ root_type = Inner(st).kind
        /\ \E bases : BasesFit(st, bases, stack, current_base, root_type)
    BY <1>1, <2>1 DEF Stood, ReadsOn, IsState
  <2>3. PICK bases : BasesFit(st, bases, stack, current_base, root_type)
    BY <2>2
  <2>4. PICK depth : depth = Len(st.open) /\ depth \in Nat \ {0}
    BY <2>2, InnerFacts
  <2>5. depth = 1
    <3>1. /\ current_base = bases[depth]
          /\ \A m \in 1 .. depth : bases[m] \in Nat
          /\ \A m \in 2 .. depth :
               stack[bases[m] + 1] = Word(st.open[m - 1].kind, bases[m - 1])
      BY <2>2, <2>3, <2>4 DEF BasesFit
    <3>2. SUFFICES ASSUME depth # 1
                   PROVE  FALSE
      OBVIOUS
    <3>3. depth \in 2 .. depth /\ depth - 1 \in 1 .. depth
      <4>1. depth \in Nat \ {0}
        BY <2>4
      <4> QED
        BY <4>1, <3>2
    <3>4. stack[current_base + 1].value = bases[depth - 1]
      <4>1. \A type, value : Word(type, value).value = value
        BY DEF Word
      <4>2. stack[bases[depth] + 1] = Word(st.open[depth - 1].kind, bases[depth - 1])
        BY <3>1, <3>3
      <4>3. Word(st.open[depth - 1].kind, bases[depth - 1]).value = bases[depth - 1]
        BY <4>1
      <4>4. stack[current_base + 1] = Word(st.open[depth - 1].kind, bases[depth - 1])
        BY <3>1, <4>2, Zenon
      <4> QED
        BY <4>3, <4>4, Zenon
    <3>5. bases[depth - 1] \in Nat
      BY <3>1, <3>3
    <3> QED
      BY <1>1, <1>4, <3>4, <3>5
  <2>6. PICK q : q = n + 1
    OBVIOUS
  <2>7. q \in 1 .. Len(s) /\ q < Len(s) /\ s[q] = Closer[root_type] /\ q \in 0 .. Len(s)
    BY <1>1, <1>4, <2>2, <2>6
  <2>8. Comes(s, n, q, st) /\ CloserNext(st, s[q])
    BY <2>2, <2>6, <2>7 DEF Comes, CloserNext
  <2>9. /\ Run(s)[q].expects = "separator" /\ Depth(s, q) = Depth(s, n) - 1
        /\ IsState(Run(s)[q])
    BY <2>8, CloserComes
  <2>10. Len(Run(s)[q].open) = 0
    <3>1. Depth(s, n) = Len(Run(s)[n].open) /\ Depth(s, q) = Len(Run(s)[q].open)
      BY DEF Depth
    <3>2. Depth(s, n) = 1
      BY <2>2, <2>4, <2>5, <3>1, Zenon
    <3>3. Depth(s, q) = 0
      BY <2>9, <3>2
    <3> QED
      BY <3>1, <3>3
  <2>11. IsWhole(Run(s)[q])
    BY <2>9, <2>10, EmptySeq DEF IsWhole, IsState
  <2>12. ~IsWhole(Run(s)[Len(s)])
    <3>1. SUFFICES ASSUME IsWhole(Run(s)[Len(s)])
                   PROVE  FALSE
      OBVIOUS
    <3>2. Len(s) \in 0 .. Len(s) /\ q \in 0 .. Len(s) /\ q # Len(s)
      BY <2>2, <2>7
    <3> QED
      BY <2>2, <2>11, <3>1, <3>2, WholeIsLast
  <2> QED
    BY <1>1, <1>4, <2>2, <2>12 DEF VerdictInv, IsTaken
<1> QED
  BY <1>1, <1>2, <1>3, <1>4

LEMMA VerdictStarts ==
  ASSUME Parser!Init
  PROVE  VerdictInv
BY DEF Parser!Init, VerdictInv

LEMMA VerdictKeeps ==
  ASSUME ParserInv, FollowInv, RootFirst, VerdictInv, Parser!Parse
  PROVE  VerdictInv'
<1>1. FollowInv' /\ RootFirst'
  BY FollowKeeps, RootKeeps
<1>2. CASE \/ Parser!AtomElement \/ Parser!NumberElement \/ Parser!StringElement
           \/ Parser!OpenElement
  <2>1. label' \in {"close_or_comma", "close_or_first"}
    BY <1>2 DEF Parser!AtomElement, Parser!NumberElement, Parser!StringElement,
                Parser!OpenElement, Parser!ScalarElement, Parser!Open
  <2> QED
    BY <2>1 DEF VerdictInv
<1>3. CASE Parser!ObjectKey
  BY <1>3, KeyVerdict, RefusedVerdict
<1> QED
  BY <1>1, <1>2, <1>3, BeginVerdict, FirstVerdict, CommaVerdict, RefusedVerdict,
     CloseVerdict DEF Parser!Parse
=============================================================================
