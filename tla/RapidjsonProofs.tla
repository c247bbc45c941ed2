-------------------------- MODULE RapidjsonProofs ---------------------------
(***************************************************************************)
(* Proofs about RapidjsonReader and RapidjsonTraverser, for texts and      *)
(* documents of any size and depth.                                        *)
(*                                                                         *)
(* No property is inductive. That the helper on top stands on an element   *)
(* when a getter asks, and that it will when another helper is put on it,  *)
(* needs that a helper is past its end only as it is popped, and before    *)
(* its first element only as long as it is new (Stands). That the counts   *)
(* match the stack needs that each call which has not returned has a place *)
(* on the stack for its container, at a height that follows from the       *)
(* counts below it, and that what is stacked are values with their         *)
(* elements (ReaderInv). That the traverser shows the text needs more of   *)
(* both: the stacked values are those of the text, place by place          *)
(* (FollowInv), a DOM has at each place what the text has (DomIs), and the *)
(* helpers stand where the text is (WalkReads). Whether the text is taken  *)
(* is then known from where the reader stops (VerdictInv).                 *)
(***************************************************************************)
EXTENDS RapidjsonTraverser, StackLemmas

\* A set of values of a DOM that holds the elements of each of its members.
IsDom(V) ==
  \A v \in V : v.kind \in ScalarKind \cup Container /\ v.elements \in Seq(V)

HelperOf(V) == [value : V, at : Nat, begin : BOOLEAN, is_key : BOOLEAN]

Stands(helper) ==
  \/ helper.begin /\ helper.at = 0
  \/ ~helper.begin /\ helper.at < Len(helper.value.elements)

\* The helper of a container waits below that of the element it stands on.
WaitsFor(below, above) ==
  /\ ~below.begin
  /\ below.at < Len(below.value.elements)
  /\ Element(below) = above.value

IInv(V) ==
  /\ document \in V
  /\ container_stack \in Seq(HelperOf(V))
  /\ \A n \in 1 .. Len(container_stack) : Stands(container_stack[n])
  /\ \A n \in 1 .. Len(container_stack) - 1 :
       WaitsFor(container_stack[n], container_stack[n + 1])
  /\ GettersAnswer

-----------------------------------------------------------------------------
(***************************************************************************)
(* Values and helpers.                                                     *)
(***************************************************************************)

\* A container is shown as what it is, and is read by no getter.
LEMMA ContainerType ==
  ASSUME NEW v, v.kind \in Container
  PROVE  TypeOf(v) \notin WithGetter
<1>1. TypeOf(v) = CommonType[v.kind]
  BY DEF TypeOf, NumberKind, Container
<1>2. CommonType[v.kind] = v.kind
  BY DEF CommonType, Container
<1> QED
  BY <1>1, <1>2 DEF Container, WithGetter

LEMMA NewHelper ==
  ASSUME NEW V, NEW v \in V
  PROVE  /\ Helper(v) \in HelperOf(V)
         /\ Helper(v).value = v
         /\ Stands(Helper(v))
BY DEF Helper, HelperOf, Stands

LEMMA NextMemberType ==
  ASSUME NEW V, NEW helper \in HelperOf(V)
  PROVE  /\ NextMember(helper) \in HelperOf(V)
         /\ NextMember(helper).value = helper.value
         /\ NextMember(helper).begin = helper.begin
         /\ NextMember(helper).at = helper.at + 1
<1>1. helper.at \in Nat /\ helper.at + 1 \in Nat
  BY DEF HelperOf
<1> QED
  BY <1>1 DEF HelperOf, NextMember

LEMMA NextElementType ==
  ASSUME NEW V, NEW helper \in HelperOf(V)
  PROVE  /\ NextElement(helper) \in HelperOf(V)
         /\ NextElement(helper).value = helper.value
         /\ ~NextElement(helper).begin
         /\ NextElement(helper).at =
              IF helper.begin THEN helper.at ELSE helper.at + 1
<1>1. helper.at \in Nat /\ helper.at + 1 \in Nat
  BY DEF HelperOf
<1>2. CASE helper.begin
  BY <1>1, <1>2 DEF HelperOf, NextElement
<1>3. CASE ~helper.begin
  BY <1>1, <1>3 DEF HelperOf, NextElement
<1> QED
  BY <1>2, <1>3

-----------------------------------------------------------------------------
(***************************************************************************)
(* The ends of a call of next().                                           *)
(***************************************************************************)

LEMMA LeaveKeeps ==
  ASSUME NEW V, IInv(V), container_stack # <<>>, Leave,
         UNCHANGED document
  PROVE  IInv(V)'
<1> DEFINE below == Front(container_stack)
<1>1. /\ below \in Seq(HelperOf(V))
      /\ Len(container_stack) \in Nat
      /\ Len(below) = Len(container_stack) - 1
      /\ \A n \in 1 .. Len(container_stack) - 1 : below[n] = container_stack[n]
  BY FrontFacts DEF IInv
<1>2. container_stack' = below /\ current_type' = "end_of_container"
  BY DEF Leave
<1> HIDE DEF below
<1>3. \A n \in 1 .. Len(below) : Stands(below[n])
  BY <1>1 DEF IInv
<1>4. \A n \in 1 .. Len(below) - 1 : WaitsFor(below[n], below[n + 1])
  BY <1>1 DEF IInv
<1>5. GettersAnswer'
  BY <1>2 DEF GettersAnswer, WithGetter
<1> QED
  BY <1>1, <1>2, <1>3, <1>4, <1>5 DEF IInv, Stands, WaitsFor, Element

\* A helper that goes on, still on the same container, and stands on an
\* element, or on the end of a document that is a scalar.
LEMMA ShowKeeps ==
  ASSUME NEW V, IsDom(V), IInv(V), container_stack # <<>>,
         NEW helper \in HelperOf(V), NEW type,
         helper.value = Top.value, Stands(helper),
         type \in WithGetter \cup Container => ~helper.begin,
         Show(helper, type), UNCHANGED document
  PROVE  IInv(V)'
<1> DEFINE stack == container_stack
           below == Front(stack)
           size == Len(stack)
<1>1. /\ below \in Seq(HelperOf(V))
      /\ size \in Nat \ {0}
      /\ Len(below) = size - 1
      /\ \A n \in 1 .. size - 1 : below[n] = stack[n]
      /\ Top = stack[size]
  BY FrontFacts DEF IInv, Top
<1>2. \A n \in 1 .. size - 1 : Stands(stack[n])
  BY <1>1 DEF IInv
<1>3. \A n \in 1 .. size - 2 : WaitsFor(stack[n], stack[n + 1])
  BY <1>1 DEF IInv
<1>4. size - 1 >= 1 => WaitsFor(stack[size - 1], helper)
  <2>1. size - 1 >= 1 => WaitsFor(stack[size - 1], stack[size - 1 + 1])
    BY <1>1 DEF IInv
  <2> QED
    BY <1>1, <2>1 DEF WaitsFor
<1>5. current_type' = type
  BY DEF Show
<1> HIDE DEF below, size
<1>6. CASE type \notin Container
  <2>1. container_stack' = Append(below, helper)
    BY <1>6 DEF Show, below
  <2>2. /\ container_stack' \in Seq(HelperOf(V))
        /\ Len(container_stack') = size
        /\ container_stack' # <<>>
        /\ \A n \in 1 .. size - 1 : container_stack'[n] = stack[n]
        /\ container_stack'[size] = helper
        /\ Top' = helper
    BY <2>1, ReplaceTop DEF IInv, below, size, Top
  <2>3. \A n \in 1 .. size : Stands(container_stack'[n])
    BY <1>1, <1>2, <2>2
  <2>4. ASSUME NEW n \in 1 .. size - 1
        PROVE  WaitsFor(container_stack'[n], container_stack'[n + 1])
    <3>1. CASE n = size - 1
      BY <1>1, <1>4, <2>2, <3>1
    <3>2. CASE n \in 1 .. size - 2
      BY <1>1, <1>3, <2>2, <3>2
    <3> QED
      BY <1>1, <3>1, <3>2
  <2>5. GettersAnswer'
    <3>1. type \in WithGetter => ~helper.begin /\ ~AtEnd(helper)
      BY DEF Stands, AtEnd, HelperOf
    <3> QED
      BY <1>5, <2>2, <3>1 DEF GettersAnswer, AtEnd
  <2> QED
    BY <2>2, <2>3, <2>4, <2>5 DEF IInv, Stands, WaitsFor, Element
<1>7. CASE type \in Container
  <2> DEFINE element == Element(helper)
             inner == Helper(element)
  <2>1. container_stack' = below \o <<helper, inner>>
    BY <1>7 DEF Show, below, Waiting
  <2>2. ~helper.begin /\ helper.at < Len(helper.value.elements)
    BY <1>7 DEF Stands
  <2>3. element \in V
    <3>1. helper.value.elements \in Seq(V) /\ helper.at \in Nat
      BY DEF IsDom, HelperOf
    <3> QED
      BY <2>2, <3>1, ElementOfSeq DEF Element
  <2>4. inner \in HelperOf(V) /\ inner.value = element /\ Stands(inner)
    BY <2>3, NewHelper
  <2>5. WaitsFor(helper, inner)
    BY <2>2, <2>4 DEF WaitsFor
  <2> HIDE DEF element, inner
  <2>6. /\ container_stack' \in Seq(HelperOf(V))
        /\ Len(container_stack') = size + 1
        /\ \A n \in 1 .. size - 1 : container_stack'[n] = stack[n]
        /\ container_stack'[size] = helper
        /\ container_stack'[size + 1] = inner
    BY <2>1, <2>4, ReplaceAndPush DEF IInv, below, size
  <2>7. \A n \in 1 .. size + 1 : Stands(container_stack'[n])
    <3>1. \A n \in 1 .. size + 1 : n \in 1 .. size - 1 \/ n = size \/ n = size + 1
      BY <1>1
    <3> QED
      BY <1>2, <2>4, <2>6, <3>1
  <2>8. ASSUME NEW n \in 1 .. size
        PROVE  WaitsFor(container_stack'[n], container_stack'[n + 1])
    <3>1. CASE n = size
      BY <2>5, <2>6, <3>1
    <3>2. CASE n = size - 1
      BY <1>1, <1>4, <2>6, <3>2
    <3>3. CASE n \in 1 .. size - 2
      <4>1. n \in 1 .. size - 1 /\ n + 1 \in 1 .. size - 1
        BY <1>1, <3>3
      <4> QED
        BY <1>3, <2>6, <3>3, <4>1
    <3> QED
      BY <1>1, <3>1, <3>2, <3>3
  <2>9. GettersAnswer'
    BY <1>5, <1>7 DEF GettersAnswer, WithGetter, Container
  <2>10. Len(container_stack') - 1 = size
    BY <1>1, <2>6
  <2> QED
    BY <2>6, <2>7, <2>8, <2>9, <2>10 DEF IInv, Stands, WaitsFor, Element
<1> QED
  BY <1>6, <1>7
-----------------------------------------------------------------------------
(***************************************************************************)
(* One step of next(), and of the constructor.                             *)
(***************************************************************************)

\* What is known of the helper on top before a call.
LEMMA TopFacts ==
  ASSUME NEW V, IsDom(V), IInv(V), container_stack # <<>>
  PROVE  /\ Top \in HelperOf(V)
         /\ Stands(Top)
         /\ Top.value \in V
         /\ Len(Top.value.elements) \in Nat
<1>1. Top = container_stack[Len(container_stack)] /\ Top \in HelperOf(V)
  BY FrontFacts DEF IInv, Top
<1>2. Len(container_stack) \in 1 .. Len(container_stack)
  BY FrontFacts DEF IInv
<1> QED
  BY <1>1, <1>2 DEF IInv, HelperOf, IsDom

LEMMA NextKeeps ==
  ASSUME NEW V, IsDom(V), IInv(V), CallNext, UNCHANGED document
  PROVE  IInv(V)'
<1>1. CASE LeaveEmptyObject
  BY <1>1, LeaveKeeps DEF LeaveEmptyObject, TopIs
<1>2. CASE FirstKey
  <2> DEFINE helper == [Top EXCEPT !.begin = FALSE]
  <2>1. container_stack # <<>> /\ ~AtEnd(Top) /\ Top.begin
        /\ Show(helper, "key")
    BY <1>2 DEF FirstKey, TopIs
  <2>2. /\ helper \in HelperOf(V)
        /\ helper.value = Top.value /\ ~helper.begin /\ helper.at = Top.at
    BY <2>1, TopFacts DEF HelperOf
  <2>3. Top.at = 0 /\ Top.at # Len(Top.value.elements)
    BY <2>1, TopFacts DEF Stands, AtEnd
  <2>4. Stands(helper)
    BY <2>1, <2>2, <2>3, TopFacts DEF Stands
  <2> HIDE DEF helper
  <2> QED
    BY <2>1, <2>2, <2>4, ShowKeeps DEF Container
<1>3. CASE MemberValue
  <2> DEFINE helper == [Top EXCEPT !.is_key = FALSE]
             type == TypeOf(Element(Top))
  <2>1. container_stack # <<>> /\ ~Top.begin /\ Show(helper, type)
    BY <1>3 DEF MemberValue, TopIs
  <2>2. /\ helper \in HelperOf(V)
        /\ helper.value = Top.value /\ ~helper.begin
        /\ Stands(helper)
    BY <2>1, TopFacts DEF HelperOf, Stands
  <2> HIDE DEF helper, type
  <2> QED
    BY <2>1, <2>2, ShowKeeps
<1>4. CASE NextKey
  <2> DEFINE helper == NextMember(Top)
  <2>1. container_stack # <<>> /\ ~Top.begin
        /\ IF AtEnd(helper) THEN Leave ELSE Show(helper, "key")
    BY <1>4 DEF NextKey, TopIs
  <2>2. CASE AtEnd(helper)
    BY <2>1, <2>2, LeaveKeeps
  <2>3. CASE ~AtEnd(helper)
    <3>1. /\ helper \in HelperOf(V)
          /\ helper.value = Top.value /\ ~helper.begin
          /\ helper.at = Top.at + 1
      <4>1. Top \in HelperOf(V) /\ ~Top.begin
        BY <2>1, TopFacts
      <4> QED
        BY <4>1, NextMemberType
    <3>2. Top.at \in Nat /\ Top.at < Len(Top.value.elements)
      BY <2>1, TopFacts DEF HelperOf, Stands
    <3> HIDE DEF helper
    <3>3. helper.at # Len(Top.value.elements)
      BY <2>3, <3>1 DEF AtEnd
    <3>4. Stands(helper)
      BY <3>1, <3>2, <3>3, TopFacts DEF Stands
    <3> QED
      BY <2>1, <2>3, <3>1, <3>4, ShowKeeps DEF Container
  <2> QED
    BY <2>2, <2>3
<1>5. CASE ArrayNext
  <2> DEFINE helper == NextElement(Top)
             type == TypeOf(Element(helper))
  <2>1. container_stack # <<>>
        /\ IF AtEnd(helper) THEN Leave ELSE Show(helper, type)
    BY <1>5 DEF ArrayNext, TopIs
  <2>2. CASE AtEnd(helper)
    BY <2>1, <2>2, LeaveKeeps
  <2>3. CASE ~AtEnd(helper)
    <3>1. /\ helper \in HelperOf(V)
          /\ helper.value = Top.value /\ ~helper.begin
          /\ helper.at = IF Top.begin THEN Top.at ELSE Top.at + 1
      <4>1. Top \in HelperOf(V)
        BY <2>1, TopFacts
      <4> QED
        BY <4>1, NextElementType
    <3>2. /\ Top.at \in Nat
          /\ Top.at = 0 \/ Top.at < Len(Top.value.elements)
          /\ ~Top.begin => Top.at < Len(Top.value.elements)
      BY <2>1, TopFacts DEF HelperOf, Stands
    <3> HIDE DEF helper, type
    <3>3. helper.at # Len(Top.value.elements)
      BY <2>3, <3>1 DEF AtEnd
    <3>4. Stands(helper)
      BY <3>1, <3>2, <3>3, TopFacts DEF Stands
    <3> QED
      BY <2>1, <2>3, <3>1, <3>4, ShowKeeps
  <2> QED
    BY <2>2, <2>3
<1>6. CASE SingleValueNext
  <2>1. container_stack # <<>> /\ Show(Top, "end_of_document")
    BY <1>6 DEF SingleValueNext, TopIs
  <2>2. "end_of_document" \notin WithGetter \cup Container
    BY DEF WithGetter, Container
  <2> QED
    BY <2>1, <2>2, TopFacts, ShowKeeps
<1>7. CASE DocumentEnded
  BY <1>7 DEF DocumentEnded, IInv, GettersAnswer, WithGetter, Stands,
              WaitsFor, Element
<1> QED
  BY <1>1, <1>2, <1>3, <1>4, <1>5, <1>6, <1>7 DEF CallNext

LEMMA ConstructKeeps ==
  ASSUME NEW V, IsDom(V), IInv(V), Construct, UNCHANGED document
  PROVE  IInv(V)'
<1> DEFINE helper == Helper(document)
<1>1. /\ helper \in HelperOf(V)
      /\ helper.value = document
      /\ Stands(helper)
  BY NewHelper DEF IInv
<1>2. container_stack' = <<helper>> /\ current_type' = TypeOf(document)
  BY DEF Construct
<1> HIDE DEF helper
<1>3. /\ container_stack' \in Seq(HelperOf(V))
      /\ Len(container_stack') = 1
      /\ container_stack'[1] = helper
      /\ container_stack' # <<>>
  BY <1>1, <1>2
<1>4. Top' = helper
  BY <1>3 DEF Top, Last
<1>5. GettersAnswer'
  BY <1>1, <1>2, <1>3, <1>4, ContainerType DEF GettersAnswer
<1> QED
  BY <1>1, <1>3, <1>5 DEF IInv, Stands, WaitsFor, Element

LEMMA Invariance ==
  ASSUME NEW CONSTANT V, IsDom(V), Document \subseteq V
  PROVE  Spec => []IInv(V)
<1>1. Init => IInv(V)
  BY DEF Init, IInv, GettersAnswer, WithGetter
<1>2. IInv(V) /\ [(Construct \/ CallNext) /\ UNCHANGED document]_vars => IInv(V)'
  <2>1. IInv(V) /\ UNCHANGED vars => IInv(V)'
    BY DEF vars, IInv, GettersAnswer, Top, AtEnd, Stands, WaitsFor, Element
  <2> QED
    BY <2>1, NextKeeps, ConstructKeeps
<1> QED
  BY <1>1, <1>2, PTL DEF Spec

-----------------------------------------------------------------------------
(***************************************************************************)
(* The properties.                                                         *)
(***************************************************************************)

LEMMA HelpersNest ==
  ASSUME NEW V, IsDom(V), IInv(V)
  PROVE  IteratorsNest
BY DEF IInv, WaitsFor, IteratorsNest, AtEnd, IsDom, HelperOf

\* Iterators are never advanced past a container that is open (next() of
\* ObjectTraverser and ArrayTraverser), in a document of any size and depth.
THEOREM IteratorsNestAlways ==
  ASSUME NEW CONSTANT V, IsDom(V), Document \subseteq V
  PROVE  Spec => []IteratorsNest
<1>1. IInv(V) => IteratorsNest
  BY HelpersNest
<1> QED
  BY <1>1, Invariance, PTL

\* Whenever compare_parsing calls a getter, a helper is there and stands on an
\* element (the getters of RapidjsonTraverser call container_stack.top()).
THEOREM GettersAnswerAlways ==
  ASSUME NEW CONSTANT V, IsDom(V), Document \subseteq V
  PROVE  Spec => []GettersAnswer
<1>1. IInv(V) => GettersAnswer
  BY DEF IInv
<1> QED
  BY <1>1, Invariance, PTL

-----------------------------------------------------------------------------
(***************************************************************************)
(* The reader. The counts of the calls and the stack of the document fit   *)
(* because there is a place on the stack for the container of each call    *)
(* that has not returned: the places follow from the counts alone, and the *)
(* height of the stack is that of the next place, give or take what the    *)
(* state of the reader says is pushed next.                                *)
(***************************************************************************)

CONSTANT Text
VARIABLES text, state, at, frames, values

Reader == INSTANCE RapidjsonReader

Calls == [kind : Container, count : Nat]

\* places[n]: how many values lie below the container of call n; the last is
\* that of the container that would open next.
PlacesFit(calls, places) ==
  /\ calls \in Seq(Calls)
  /\ places \in Seq(Nat)
  /\ Len(places) = Len(calls) + 1
  /\ places[1] = 0
  /\ \A n \in 1 .. Len(calls) :
       places[n + 1] = places[n] + Reader!WordsOf(calls[n])
  /\ \A m, n \in 1 .. Len(places) : m < n => places[m] < places[n]

ContainersWait(places) ==
  \A n \in 1 .. Len(frames) :
    values[places[n] + 1] = Reader!Empty(frames[n].kind)

HeightFits(places) ==
  LET depth == Len(frames)
      top == places[depth + 1]
  IN  /\ state = "begin" => depth = 0 /\ Len(values) = 0
      /\ state = "value" => Len(values) = top
      /\ state = "first" =>
           /\ depth > 0 /\ frames[depth].count = 0
           /\ Len(values) = places[depth] + 1
      /\ state = "key" =>
           /\ depth > 0 /\ frames[depth].kind = "object"
           /\ Len(values) + 1 = top
      /\ state = "return" => Len(values) = top + 1
      /\ state = "accepted" => Len(values) = 1

ReaderTypes(V) ==
  /\ IsDom(V)
  /\ values \in Seq(V)

ReaderFits(V, places) ==
  /\ ReaderTypes(V)
  /\ PlacesFit(frames, places)
  /\ ContainersWait(places)
  /\ HeightFits(places)

\* The values that are stacked are those of some set of values with all their
\* elements: it grows with every value that is made.
ReaderInv == \E V, places : ReaderFits(V, places)

\* A value whose elements are known may be added.
LEMMA DomGrows ==
  ASSUME NEW V, IsDom(V), NEW v,
         v.kind \in ScalarKind \cup Container, v.elements \in Seq(V)
  PROVE  LET W == V \cup {v}
         IN  IsDom(W) /\ v \in W /\ \A s \in Seq(V) : s \in Seq(W)
<1> DEFINE W == V \cup {v}
<1>1. \A s \in Seq(V) : s \in Seq(W)
  <2> V \subseteq W
    OBVIOUS
  <2> QED
    BY SeqMonotonic
<1>2. \A w \in W : w.kind \in ScalarKind \cup Container /\ w.elements \in Seq(W)
  BY <1>1 DEF IsDom
<1> QED
  BY <1>1, <1>2 DEF IsDom

LEMMA DepthFacts ==
  ASSUME NEW V, NEW places, ReaderFits(V, places)
  PROVE  /\ Len(frames) \in Nat /\ Len(values) \in Nat
         /\ \A n \in 1 .. Len(frames) : frames[n] \in Calls
         /\ \A n \in 1 .. Len(values) : values[n] \in V
         /\ \A n \in 1 .. Len(frames) + 1 : places[n] \in Nat
         /\ \A n \in 1 .. Len(frames) :
              places[n] + 1 <= places[Len(frames) + 1]
<1>1. /\ Len(frames) \in Nat /\ Len(values) \in Nat
      /\ \A n \in 1 .. Len(frames) : frames[n] \in Calls
      /\ \A n \in 1 .. Len(values) : values[n] \in V
  BY ElementOfSeq, LenProperties DEF ReaderFits, ReaderTypes, PlacesFit
<1>2. \A n \in 1 .. Len(frames) + 1 : places[n] \in Nat
  BY ElementOfSeq DEF ReaderFits, PlacesFit
<1>3. /\ Len(places) = Len(frames) + 1
      /\ \A m, n \in 1 .. Len(places) : m < n => places[m] < places[n]
  BY DEF ReaderFits, PlacesFit
<1>4. \A n \in 1 .. Len(frames) :
        places[n] + 1 <= places[Len(frames) + 1]
  BY <1>1, <1>2, <1>3
<1> QED
  BY <1>1, <1>2, <1>4

\* Every place is below the top of the stack, unless the text was rejected.
LEMMA StackIsHigh ==
  ASSUME NEW V, NEW places, ReaderFits(V, places),
         state \in {"value", "first", "key", "return"}
  PROVE  \A n \in 1 .. Len(frames) : places[n] + 1 <= Len(values)
<1>1. CASE state \in {"value", "return"}
  BY <1>1, DepthFacts DEF ReaderFits, HeightFits
<1>2. CASE state = "first"
  BY <1>2, DepthFacts DEF ReaderFits, HeightFits, PlacesFit
<1>3. CASE state = "key"
  <2> DEFINE depth == Len(frames)
  <2>1. depth \in Nat /\ depth > 0 /\ frames[depth] \in Calls
    BY <1>3, DepthFacts DEF ReaderFits, HeightFits
  <2>2. places[depth + 1] = places[depth] + 2 * frames[depth].count + 2
    <3>1. places[depth + 1] = places[depth] + Reader!WordsOf(frames[depth])
      BY <2>1, DepthFacts DEF ReaderFits, PlacesFit
    <3>2. frames[depth].kind = "object" /\ places[depth] \in Nat
      BY <1>3, <2>1, DepthFacts DEF ReaderFits, HeightFits
    <3> QED
      BY <2>1, <3>1, <3>2 DEF Reader!WordsOf, Calls
  <2>3. \A n \in 1 .. depth : places[n] <= places[depth]
    BY <2>1, DepthFacts DEF ReaderFits, PlacesFit
  <2>4. frames[depth].count \in Nat
    BY <2>1 DEF Calls
  <2>5. Len(values) + 1 = places[depth + 1] /\ Len(values) \in Nat
    BY <1>3, DepthFacts DEF ReaderFits, HeightFits
  <2>6. \A n \in 1 .. depth : places[n] \in Nat
    BY <2>1, DepthFacts
  <2>7. places[depth] + 1 <= Len(values)
    BY <2>1, <2>2, <2>4, <2>5, <2>6
  <2> QED
    BY <2>1, <2>3, <2>5, <2>6, <2>7
<1> QED
  BY <1>1, <1>2, <1>3

\* What the reader takes from other modules is what the traverser takes.
LEMMA SameWords ==
  /\ \A s : Reader!Front(s) = Front(s) /\ Reader!Last(s) = Last(s)
  /\ Reader!Container = Container /\ Reader!ScalarKind = ScalarKind
BY DEF Reader!Front, Front, Reader!Last, Last, Reader!Container, Container,
       Reader!ScalarKind, ScalarKind, Reader!AtomKind, AtomKind,
       Reader!NumberKind, NumberKind

LEMMA NothingStacked ==
  ASSUME NEW V, NEW places, ReaderFits(V, places),
         UNCHANGED <<frames, values>>, HeightFits(places)'
  PROVE  ReaderFits(V, places)'
BY DEF ReaderFits, ReaderTypes, PlacesFit, ContainersWait

LEMMA ValueStacked ==
  ASSUME NEW V, NEW places, ReaderFits(V, places),
         state \in {"value", "key"},
         NEW v, v.kind \in ScalarKind \cup Container, v.elements \in Seq(V),
         values' = Append(values, v), frames' = frames, HeightFits(places)'
  PROVE  ReaderFits(V \cup {v}, places)'
<1> DEFINE W == V \cup {v}
<1>1. IsDom(W) /\ v \in W /\ values \in Seq(W)
  BY DomGrows DEF ReaderFits, ReaderTypes
<1>2. /\ values' \in Seq(W)
      /\ \A n \in 1 .. Len(values) : values'[n] = values[n]
  BY <1>1, AppendProperties
<1>3. ReaderTypes(W)'
  BY <1>1, <1>2 DEF ReaderFits, ReaderTypes
<1>4. \A n \in 1 .. Len(frames) :
        places[n] \in Nat /\ places[n] + 1 \in 1 .. Len(values)
  BY DepthFacts, StackIsHigh
<1>5. ContainersWait(places)'
  BY <1>2, <1>4 DEF ReaderFits, ContainersWait
<1>6. PlacesFit(frames, places)'
  BY DEF ReaderFits, PlacesFit
<1> QED
  BY <1>3, <1>5, <1>6 DEF ReaderFits
\* The place above all calls.
LEMMA NextPlace ==
  ASSUME NEW calls, NEW places, PlacesFit(calls, places), NEW call \in Calls,
         NEW place, place = places[Len(calls) + 1] + Reader!WordsOf(call)
  PROVE  /\ PlacesFit(Append(calls, call), Append(places, place))
         /\ Len(calls) \in Nat /\ Len(Append(calls, call)) = Len(calls) + 1
         /\ \A n \in 1 .. Len(calls) : Append(calls, call)[n] = calls[n]
         /\ Append(calls, call)[Len(calls) + 1] = call
         /\ Len(places) = Len(calls) + 1
         /\ \A n \in 1 .. Len(places) : Append(places, place)[n] = places[n]
<1> DEFINE depth == Len(calls)
           words == Reader!WordsOf(call)
           more == Append(calls, call)
           new == Append(places, place)
<1>1. /\ calls \in Seq(Calls) /\ places \in Seq(Nat)
      /\ Len(places) = depth + 1 /\ depth \in Nat
      /\ \A n \in 1 .. depth + 1 : places[n] \in Nat
      /\ \A n \in 1 .. depth : places[n] < places[depth + 1]
  BY ElementOfSeq, LenProperties DEF PlacesFit
<1>2. words \in Nat /\ words > 0
  BY DEF Reader!WordsOf, Calls
<1>3. /\ more \in Seq(Calls) /\ Len(more) = depth + 1
      /\ \A n \in 1 .. depth : more[n] = calls[n]
      /\ more[depth + 1] = call
  BY <1>1, AppendProperties
<1> HIDE DEF words
<1>4. place = places[depth + 1] + words
  BY DEF words
<1>5. place \in Nat /\ place > places[depth + 1]
  BY <1>1, <1>2, <1>4
<1>6. /\ new \in Seq(Nat) /\ Len(new) = depth + 2
      /\ \A n \in 1 .. depth + 1 : new[n] = places[n]
      /\ new[depth + 2] = place
  BY <1>1, <1>5, AppendProperties
<1>7. /\ places[1] = 0
      /\ \A n \in 1 .. depth :
           places[n + 1] = places[n] + Reader!WordsOf(calls[n])
      /\ \A m, n \in 1 .. depth + 1 : m < n => places[m] < places[n]
  BY <1>1 DEF PlacesFit
<1> HIDE DEF depth, more, new
<1>8. \A n \in 1 .. depth + 1 :
        new[n + 1] = new[n] + Reader!WordsOf(more[n])
  <2> TAKE n \in 1 .. depth + 1
  <2>1. CASE n = depth + 1
    BY <2>1, <1>1, <1>3, <1>4, <1>6 DEF words
  <2>2. CASE n \in 1 .. depth
    <3>1. n + 1 \in 1 .. depth + 1 /\ n \in 1 .. depth + 1
      BY <2>2, <1>1
    <3>2. new[n + 1] = places[n + 1] /\ new[n] = places[n] /\ more[n] = calls[n]
      BY <2>2, <3>1, <1>3, <1>6
    <3> QED
      BY <2>2, <3>2, <1>7
  <2>3. n = depth + 1 \/ n \in 1 .. depth
    BY <1>1
  <2> QED
    BY <2>1, <2>2, <2>3
<1>9. \A m, n \in 1 .. depth + 2 : m < n => new[m] < new[n]
  <2> TAKE m, n \in 1 .. depth + 2
  <2> HAVE m < n
  <2>1. CASE n = depth + 2
    <3>1. m \in 1 .. depth + 1 /\ new[m] = places[m]
      BY <2>1, <1>1, <1>6
    <3>2. places[m] <= places[depth + 1] /\ places[m] \in Nat /\ places[depth + 1] \in Nat
      BY <1>1, <3>1
    <3> QED
      BY <2>1, <3>1, <3>2, <1>5, <1>6
  <2>2. CASE n \in 1 .. depth + 1
    <3>1. m \in 1 .. depth + 1
      BY <2>2, <1>1
    <3> QED
      BY <2>2, <3>1, <1>6, <1>7
  <2> QED
    BY <1>1, <2>1, <2>2
<1>10. new[1] = 0
  BY <1>1, <1>6, <1>7
<1>11. PlacesFit(more, new)
  BY <1>1, <1>3, <1>6, <1>8, <1>9, <1>10 DEF PlacesFit
<1> QED
  BY <1>3, <1>6, <1>11 DEF depth, more, new

\* The call on top is gone.
LEMMA LastPlace ==
  ASSUME NEW calls, NEW places, PlacesFit(calls, places), calls # <<>>,
         NEW fewer, fewer = Front(calls), NEW new, new = Front(places)
  PROVE  /\ PlacesFit(fewer, new)
         /\ Len(calls) \in Nat \ {0} /\ Len(fewer) = Len(calls) - 1
         /\ \A n \in 1 .. Len(calls) - 1 : fewer[n] = calls[n]
         /\ \A n \in 1 .. Len(calls) : new[n] = places[n]
<1> DEFINE depth == Len(calls)
<1>1. /\ calls \in Seq(Calls) /\ places \in Seq(Nat)
      /\ Len(places) = depth + 1 /\ depth \in Nat
      /\ places[1] = 0
      /\ \A n \in 1 .. depth :
           places[n + 1] = places[n] + Reader!WordsOf(calls[n])
      /\ \A m, n \in 1 .. depth + 1 : m < n => places[m] < places[n]
  BY ElementOfSeq, LenProperties DEF PlacesFit
<1>2. /\ Front(calls) \in Seq(Calls) /\ depth \in Nat \ {0}
      /\ Len(Front(calls)) = depth - 1
      /\ \A n \in 1 .. depth - 1 : Front(calls)[n] = calls[n]
  BY <1>1, FrontFacts
<1>3. places # <<>>
  BY <1>1, EmptySeq
<1>4. /\ Front(places) \in Seq(Nat) /\ Len(Front(places)) = Len(places) - 1
      /\ \A n \in 1 .. Len(places) - 1 : Front(places)[n] = places[n]
  BY <1>1, <1>3, FrontFacts
<1> HIDE DEF depth
<1>5. /\ new \in Seq(Nat) /\ Len(new) = depth
      /\ \A n \in 1 .. depth : new[n] = places[n]
  BY <1>1, <1>4
<1>6. /\ fewer \in Seq(Calls) /\ Len(fewer) = depth - 1
      /\ \A n \in 1 .. depth - 1 : fewer[n] = calls[n]
  BY <1>2
<1>7. \A n \in 1 .. depth - 1 :
        new[n + 1] = new[n] + Reader!WordsOf(fewer[n])
  <2> TAKE n \in 1 .. depth - 1
  <2>1. n \in 1 .. depth /\ n + 1 \in 1 .. depth
    BY <1>2
  <2> QED
    BY <2>1, <1>1, <1>5, <1>6
<1>8. \A m, n \in 1 .. depth : m < n => new[m] < new[n]
  BY <1>1, <1>2, <1>5
<1>9. PlacesFit(fewer, new)
  BY <1>1, <1>2, <1>5, <1>6, <1>7, <1>8 DEF PlacesFit
<1> QED
  BY <1>5, <1>6, <1>9 DEF depth

-----------------------------------------------------------------------------
(***************************************************************************)
(* The steps of the reader.                                                *)
(***************************************************************************)

LEMMA RejectKeeps ==
  ASSUME NEW V, NEW places, ReaderFits(V, places),
         UNCHANGED <<frames, values>>,
         state' = "rejected"
  PROVE  ReaderFits(V, places)'
<1>1. HeightFits(places)'
  BY DEF HeightFits
<1> QED
  BY <1>1, NothingStacked

LEMMA BeginKeeps ==
  ASSUME NEW V, NEW places, ReaderFits(V, places), Reader!Begin
  PROVE  ReaderFits(V, places)'
<1>1. UNCHANGED <<frames, values>> /\ state = "begin"
  BY DEF Reader!Begin
<1>2. CASE state' = "value"
  <2>1. HeightFits(places)'
    BY <1>1, <1>2 DEF ReaderFits, HeightFits, PlacesFit
  <2> QED
    BY <1>1, <2>1, NothingStacked
<1>3. CASE state' = "rejected"
  BY <1>1, <1>3, RejectKeeps
<1> QED
  BY <1>2, <1>3 DEF Reader!Begin

LEMMA FirstKeeps ==
  ASSUME NEW V, NEW places, ReaderFits(V, places), Reader!First
  PROVE  ReaderFits(V, places)'
<1> DEFINE depth == Len(frames)
<1>1. UNCHANGED <<frames, values>> /\ state = "first" /\ state' = Reader!NextPart
  BY DEF Reader!First
<1>2. /\ depth \in Nat /\ depth > 0 /\ frames[depth] \in Calls
      /\ frames[depth].count = 0
      /\ Len(values) = places[depth] + 1
      /\ places[depth] \in Nat
  BY <1>1, DepthFacts DEF ReaderFits, HeightFits
<1>3. places[depth + 1] = places[depth] + Reader!WordsOf(frames[depth])
  BY <1>2 DEF ReaderFits, PlacesFit
<1>4. Reader!Frame = frames[depth]
  BY SameWords DEF Reader!Frame, Last
<1>5. HeightFits(places)'
  BY <1>1, <1>2, <1>3, <1>4
    DEF Reader!NextPart, Reader!WordsOf, HeightFits, Calls, Container
<1> QED
  BY <1>1, <1>5, NothingStacked

LEMMA FinishKeeps ==
  ASSUME NEW V, NEW places, ReaderFits(V, places), Reader!Finish
  PROVE  ReaderFits(V, places)'
<1>1. UNCHANGED <<frames, values>> /\ state = "return" /\ frames = <<>>
  BY DEF Reader!Finish
<1>2. CASE state' = "accepted"
  <2>1. HeightFits(places)'
    BY <1>1, <1>2, EmptySeq DEF ReaderFits, HeightFits, PlacesFit
  <2> QED
    BY <1>1, <2>1, NothingStacked
<1>3. CASE state' = "rejected"
  BY <1>1, <1>3, RejectKeeps
<1> QED
  BY <1>2, <1>3 DEF Reader!Finish

LEMMA ScalarIsDom ==
  ASSUME NEW V, NEW kind \in ScalarKind, NEW payload
  PROVE  /\ Reader!Scalar(kind, payload).kind \in ScalarKind \cup Container
         /\ Reader!Scalar(kind, payload).elements \in Seq(V)
<1>1. <<>> \in Seq(V)
  BY EmptySeq
<1> QED
  BY <1>1 DEF Reader!Scalar, Reader!Dom

LEMMA ScalarKeeps ==
  ASSUME NEW V, NEW places, ReaderFits(V, places), Reader!ParseScalar
  PROVE  \E W : ReaderFits(W, places)'
<1>1. PICK v : v = Reader!Scalar(Reader!Peek, Reader!Payload(Reader!Peek, at))
  OBVIOUS
<1>2. /\ values' = Append(values, v) /\ frames' = frames
      /\ state = "value" /\ state' = "return" /\ Reader!Peek \in ScalarKind
  BY <1>1, SameWords DEF Reader!ParseScalar
<1>3. v.kind \in ScalarKind \cup Container /\ v.elements \in Seq(V)
  BY <1>1, <1>2, ScalarIsDom
<1>4. Len(values') = Len(values) + 1
  BY <1>2, <1>3, DomGrows, AppendProperties DEF ReaderFits, ReaderTypes
<1>5. HeightFits(places)'
  BY <1>2, <1>4 DEF ReaderFits, HeightFits
<1>6. ReaderFits(V \cup {v}, places)'
  BY <1>2, <1>3, <1>5, ValueStacked
<1> QED
  BY <1>6

LEMMA KeyKeeps ==
  ASSUME NEW V, NEW places, ReaderFits(V, places), Reader!Key
  PROVE  \E W : ReaderFits(W, places)'
<1>1. PICK v : v = Reader!Scalar("string", Reader!Payload("string", at))
  OBVIOUS
<1>2. /\ values' = Append(values, v) /\ frames' = frames
      /\ state = "key" /\ state' = "value"
  BY <1>1 DEF Reader!Key
<1>3. v.kind \in ScalarKind \cup Container /\ v.elements \in Seq(V)
  <2> "string" \in ScalarKind
    BY DEF ScalarKind
  <2> QED
    BY <1>1, ScalarIsDom
<1>4. Len(values') = Len(values) + 1
  BY <1>2, <1>3, DomGrows, AppendProperties DEF ReaderFits, ReaderTypes
<1>5. HeightFits(places)'
  BY <1>2, <1>4 DEF ReaderFits, HeightFits
<1>6. ReaderFits(V \cup {v}, places)'
  BY <1>2, <1>3, <1>5, ValueStacked
<1> QED
  BY <1>6

\* ParseObject and ParseArray: the container is at the place that was next.
LEMMA StartKeeps ==
  ASSUME NEW V, NEW places, ReaderFits(V, places),
         NEW kind \in Container, Reader!StartContainer(kind)
  PROVE  \E W, new : ReaderFits(W, new)'
<1> DEFINE depth == Len(frames)
<1>1. PICK v, call : v = Reader!Empty(kind) /\ call = [kind |-> kind, count |-> 0]
  OBVIOUS
<1>2. PICK place, new :
        /\ place = places[Len(frames) + 1] + Reader!WordsOf(call)
        /\ new = Append(places, place)
  OBVIOUS
<1>3. /\ values' = Append(values, v) /\ frames' = Append(frames, call)
      /\ state = "value" /\ state' = "first"
  BY <1>1 DEF Reader!StartContainer
<1>4. v.kind = kind /\ v.elements \in Seq(V)
  BY <1>1, EmptySeq DEF Reader!Empty, Reader!Filled, Reader!Dom
<1> DEFINE W == V \cup {v}
<1>5. IsDom(W) /\ v \in W /\ values \in Seq(W)
  BY <1>4, DomGrows DEF ReaderFits, ReaderTypes
<1>6. /\ values' \in Seq(W) /\ Len(values') = Len(values) + 1
      /\ \A n \in 1 .. Len(values) : values'[n] = values[n]
      /\ values'[Len(values) + 1] = v
  BY <1>3, <1>5, AppendProperties
<1>7. call \in Calls /\ call.count = 0 /\ call.kind = kind
  BY <1>1 DEF Calls
<1>8. /\ PlacesFit(frames', new)
      /\ depth \in Nat /\ Len(frames') = depth + 1
      /\ \A n \in 1 .. depth : frames'[n] = frames[n]
      /\ frames'[depth + 1] = call
      /\ \A n \in 1 .. depth + 1 : new[n] = places[n]
  <2>1. PlacesFit(frames, places)
    BY DEF ReaderFits
  <2>2. call \in Calls
    BY <1>7
  <2>3. PlacesFit(Append(frames, call), new)
    BY <1>2, <2>1, <2>2, NextPlace
  <2>4. /\ Len(frames) \in Nat /\ Len(Append(frames, call)) = Len(frames) + 1
        /\ \A n \in 1 .. Len(frames) : Append(frames, call)[n] = frames[n]
        /\ Append(frames, call)[Len(frames) + 1] = call
    BY <1>2, <2>1, <2>2, NextPlace
  <2>5. Len(places) = Len(frames) + 1 /\ \A n \in 1 .. Len(places) : new[n] = places[n]
    BY <1>2, <2>1, <2>2, NextPlace
  <2> QED
    BY <1>3, <2>3, <2>4, <2>5
<1>9. Len(values) = places[depth + 1] /\ Len(values) \in Nat
  BY <1>3, DepthFacts DEF ReaderFits, HeightFits
<1>10. HeightFits(new)'
  BY <1>3, <1>6, <1>7, <1>8, <1>9 DEF HeightFits
<1>11. ContainersWait(new)'
  <2> SUFFICES ASSUME NEW n \in 1 .. depth + 1
               PROVE  values'[new[n] + 1] = Reader!Empty(frames'[n].kind)
    BY <1>8 DEF ContainersWait
  <2>1. CASE n = depth + 1
    BY <2>1, <1>1, <1>6, <1>7, <1>8, <1>9
  <2>2. CASE n \in 1 .. depth
    <3>1. places[n] \in Nat /\ places[n] + 1 \in 1 .. Len(values)
      BY <2>2, <1>3, DepthFacts, StackIsHigh
    <3>2. new[n] = places[n] /\ frames'[n] = frames[n]
      BY <2>2, <1>8
    <3> QED
      BY <2>2, <3>1, <3>2, <1>6 DEF ReaderFits, ContainersWait
  <2>3. n = depth + 1 \/ n \in 1 .. depth
    BY <1>8
  <2> QED
    BY <2>1, <2>2, <2>3
<1>12. ReaderTypes(W)'
  BY <1>5, <1>6 DEF ReaderTypes
<1>13. ReaderFits(W, new)'
  BY <1>8, <1>10, <1>11, <1>12 DEF ReaderFits
<1> QED
  BY <1>13

\* A call counts its element: the next place moves by what is on the stack.
LEMMA CommaKeeps ==
  ASSUME NEW V, NEW places, ReaderFits(V, places), Reader!Comma
  PROVE  \E new : ReaderFits(V, new)'
<1> DEFINE depth == Len(frames)
<1>1. PICK counted : counted = Reader!Counted(frames[depth])
  OBVIOUS
<1>2. depth \in Nat /\ depth > 0 /\ frames[depth] \in Calls /\ frames # <<>>
  BY DepthFacts, EmptySeq DEF Reader!Comma, ReaderFits, PlacesFit
<1>3. /\ values' = values /\ state = "return" /\ state' = Reader!NextPart
      /\ frames' = Append(Front(frames), counted)
      /\ Reader!Frame = frames[depth]
  BY <1>1, SameWords DEF Reader!Comma, Reader!Frame, Last
<1>4. /\ counted \in Calls /\ counted.kind = frames[depth].kind
      /\ counted.count = frames[depth].count + 1
  BY <1>1, <1>2 DEF Calls, Reader!Counted
<1>5. PICK fewer, below : fewer = Front(frames) /\ below = Front(places)
  OBVIOUS
<1>6. /\ PlacesFit(fewer, below) /\ Len(fewer) = depth - 1
      /\ \A n \in 1 .. depth - 1 : fewer[n] = frames[n]
      /\ \A n \in 1 .. depth : below[n] = places[n]
  BY <1>2, <1>5, LastPlace DEF ReaderFits
<1>7. PICK place, new :
        /\ place = below[Len(fewer) + 1] + Reader!WordsOf(counted)
        /\ new = Append(below, place)
  OBVIOUS
<1>8. /\ PlacesFit(frames', new) /\ Len(frames') = depth
      /\ \A n \in 1 .. depth - 1 : frames'[n] = frames[n]
      /\ frames'[depth] = counted
      /\ \A n \in 1 .. depth : new[n] = places[n]
  <2>1. /\ PlacesFit(frames', new) /\ Len(frames') = Len(fewer) + 1
        /\ \A n \in 1 .. Len(fewer) : frames'[n] = fewer[n]
        /\ frames'[Len(fewer) + 1] = counted
        /\ \A n \in 1 .. Len(fewer) + 1 : new[n] = below[n]
    <3>1. counted \in Calls /\ PlacesFit(fewer, below)
      BY <1>4, <1>6
    <3>2. PlacesFit(Append(fewer, counted), new)
      BY <1>7, <3>1, NextPlace
    <3>3. /\ Len(Append(fewer, counted)) = Len(fewer) + 1
          /\ \A n \in 1 .. Len(fewer) : Append(fewer, counted)[n] = fewer[n]
          /\ Append(fewer, counted)[Len(fewer) + 1] = counted
      BY <1>7, <3>1, NextPlace
    <3>4. Len(below) = Len(fewer) + 1 /\ \A n \in 1 .. Len(below) : new[n] = below[n]
      BY <1>7, <3>1, NextPlace
    <3> QED
      BY <1>3, <1>5, <3>2, <3>3, <3>4
  <2> QED
    BY <2>1, <1>2, <1>6
<1>9. /\ places[depth + 1] = places[depth] + Reader!WordsOf(frames[depth])
      /\ new[depth + 1] = new[depth] + Reader!WordsOf(counted)
      /\ new[depth] = places[depth] /\ places[depth] \in Nat
  BY <1>2, <1>8, DepthFacts DEF ReaderFits, PlacesFit
<1>10. Len(values) = places[depth + 1] + 1
  BY <1>3 DEF ReaderFits, HeightFits
<1>11. HeightFits(new)'
  <2>1. Len(frames') = depth /\ frames'[depth] = counted /\ frames[depth].count \in Nat
    BY <1>2, <1>8 DEF Calls
  <2>2. CASE frames[depth].kind = "object"
    <3>1. state' = "key" /\ counted.kind = "object" /\ values' = values
      BY <1>3, <1>4, <2>2 DEF Reader!NextPart
    <3>2. PICK count \in Nat :
            count = frames[depth].count /\ counted.count = count + 1
      BY <1>4, <2>1
    <3>3. /\ Reader!WordsOf(frames[depth]) = 2 * count + 2
          /\ Reader!WordsOf(counted) = 2 * (count + 1) + 2
      BY <2>2, <3>1, <3>2 DEF Reader!WordsOf
    <3>4. new[depth + 1] = places[depth] + (2 * count + 2) + 2
      BY <1>9, <3>3
    <3>5. Len(values) = places[depth] + (2 * count + 2) + 1
      BY <1>9, <1>10, <3>3
    <3>6. Len(values) + 1 = new[depth + 1]
      BY <1>9, <3>4, <3>5
    <3> QED
      BY <1>2, <2>1, <3>1, <3>6 DEF HeightFits
  <2>3. CASE frames[depth].kind = "array"
    <3>1. state' = "value" /\ counted.kind = "array" /\ values' = values
      BY <1>3, <1>4, <2>3 DEF Reader!NextPart
    <3>2. /\ Reader!WordsOf(frames[depth]) = frames[depth].count + 1
          /\ Reader!WordsOf(counted) = frames[depth].count + 1 + 1
      BY <1>4, <2>3, <3>1 DEF Reader!WordsOf
    <3>3. Len(values) = new[depth + 1]
      BY <1>9, <1>10, <2>1, <3>2
    <3> QED
      BY <1>2, <2>1, <3>1, <3>3 DEF HeightFits
  <2> QED
    BY <1>2, <2>2, <2>3 DEF Calls, Container
<1>12. ContainersWait(new)'
  <2> SUFFICES ASSUME NEW n \in 1 .. depth
               PROVE  values[new[n] + 1] = Reader!Empty(frames'[n].kind)
    BY <1>3, <1>8 DEF ContainersWait
  <2>1. frames'[n].kind = frames[n].kind
    <3>1. CASE n = depth
      BY <3>1, <1>4, <1>8
    <3>2. CASE n \in 1 .. depth - 1
      BY <3>2, <1>8
    <3> QED
      BY <1>2, <3>1, <3>2
  <2> QED
    BY <2>1, <1>8 DEF ReaderFits, ContainersWait
<1>13. ReaderFits(V, new)'
  BY <1>3, <1>8, <1>11, <1>12 DEF ReaderFits, ReaderTypes
<1> QED
  BY <1>13

\* EndObject and EndArray: what is folded lies above the container.
Folds(V, what, calls, vals, folded, places, base, count, filled) ==
  /\ base \in Nat /\ count \in Nat /\ base = places[Len(calls)]
  /\ count = IF what = "first" THEN 0 ELSE calls[Len(calls)].count + 1
  /\ Len(vals) = base + 1 + IF filled.kind = "object" THEN 2 * count ELSE count
  /\ folded \in Seq(V \cup {filled}) /\ Len(folded) = base + 1
  /\ \A n \in 1 .. base : folded[n] = vals[n]
  /\ folded[base + 1] = filled
  /\ filled.kind = calls[Len(calls)].kind /\ filled.kind \in Container
  /\ filled.elements \in Seq(V) /\ Len(filled.elements) = count
  /\ \A k \in 1 .. count :
       filled.elements[k] = vals[base + 1 + IF filled.kind = "object" THEN 2 * k ELSE k]
  /\ filled.kind = "object" =>
       \A k \in 1 .. count : filled.keys[k] = vals[base + 2 * k].payload

LEMMA EndShape ==
  ASSUME NEW V, NEW places, ReaderFits(V, places), Reader!EndContainer
  PROVE  \E base, count, filled :
           Folds(V, state, frames, values, values', places, base, count, filled)
<1> DEFINE depth == Len(frames)
           count == IF state = "first" THEN 0
                                       ELSE Reader!Counted(Reader!Frame).count
           words == IF Reader!Frame.kind = "object" THEN 2 * count ELSE count
           below == Len(values) - words
<1>1. count = IF state = "first" THEN 0 ELSE Reader!Counted(Reader!Frame).count
  OBVIOUS
<1>2. words = IF Reader!Frame.kind = "object" THEN 2 * count ELSE count
  OBVIOUS
<1>3. below = Len(values) - words
  OBVIOUS
<1>4. PICK filled :
        filled =
          IF Reader!Frame.kind = "object"
            THEN Reader!Filled("object",
                   [n \in 1 .. count |-> values[below + 2 * n - 1].payload],
                   [n \in 1 .. count |-> values[below + 2 * n]])
            ELSE Reader!Filled("array", <<>>,
                               SubSeq(values, below + 1, Len(values)))
  OBVIOUS
<1>5. /\ values' = Append(SubSeq(values, 1, below - 1), filled)
      /\ frames' = Front(frames)
      /\ state' = "return"
      /\ state = "first" \/ (state = "return" /\ frames # <<>>)
  <2>1. values' = Append(SubSeq(values, 1, below - 1), filled)
    BY <1>4, Zenon DEF Reader!EndContainer
  <2>2. Reader!Front(frames) = Front(frames)
    BY SameWords
  <2>3. frames' = Reader!Front(frames) /\ state' = "return"
    BY DEF Reader!EndContainer
  <2>4. state = "first" \/ (state = "return" /\ frames # <<>>)
    BY DEF Reader!EndContainer
  <2> QED
    BY <2>1, <2>2, <2>3, <2>4
<1> HIDE DEF count, words, below
<1>6. /\ depth \in Nat /\ depth > 0 /\ frames # <<>> /\ frames[depth] \in Calls
      /\ Reader!Frame = frames[depth]
  <2>1. frames \in Seq(Calls) /\ depth \in Nat
    BY DepthFacts DEF ReaderFits, PlacesFit
  <2>2. depth > 0
    BY <1>5, <2>1, EmptySeq DEF ReaderFits, HeightFits
  <2> QED
    BY <2>1, <2>2, DepthFacts, EmptySeq, SameWords DEF Reader!Frame, Last
<1> DEFINE base == places[depth]
<1>7. /\ base \in Nat /\ Len(values) \in Nat
      /\ places[depth + 1] = base + Reader!WordsOf(frames[depth])
      /\ \A n \in 1 .. depth - 1 : places[n] \in Nat /\ places[n] < base
  <2>1. /\ \A n \in 1 .. depth : places[n] \in Nat
        /\ places[depth + 1] = base + Reader!WordsOf(frames[depth])
        /\ Len(values) \in Nat
    <3>1. \A n \in 1 .. depth + 1 : places[n] \in Nat
      BY DepthFacts
    <3>2. \A n \in 1 .. depth :
            places[n + 1] = places[n] + Reader!WordsOf(frames[n])
      BY DEF ReaderFits, PlacesFit
    <3> QED
      BY <1>6, <3>1, <3>2, DepthFacts
  <2>2. \A n \in 1 .. depth - 1 : places[n] < base
    BY <1>6 DEF ReaderFits, PlacesFit
  <2> QED
    BY <1>6, <2>1, <2>2
<1> HIDE DEF base
<1>8. count \in Nat /\ words \in Nat /\ Len(values) = base + 1 + words
  <2>1. CASE state = "first"
    <3>1. count = 0 /\ words = 0
      BY <1>1, <1>2, <2>1
    <3> QED
      BY <2>1, <3>1, <1>7 DEF ReaderFits, HeightFits, base
  <2>2. CASE state = "return"
    <3>1. PICK c \in Nat : c = frames[depth].count /\ count = c + 1
      BY <1>1, <1>6, <2>2 DEF Reader!Counted, Calls
    <3>2. Len(values) = base + Reader!WordsOf(frames[depth]) + 1
      BY <1>6, <1>7, <2>2 DEF ReaderFits, HeightFits
    <3>3. CASE frames[depth].kind = "object"
      <4>1. words = 2 * c + 2 /\ Reader!WordsOf(frames[depth]) = 2 * c + 2
        BY <1>2, <1>6, <3>1, <3>3 DEF Reader!WordsOf
      <4>2. Len(values) = base + (2 * c + 2) + 1
        BY <3>2, <4>1
      <4>3. count \in Nat /\ words = 2 * c + 2 /\ 2 * c + 2 \in Nat
        BY <3>1, <4>1
      <4> QED
        BY <1>7, <4>2, <4>3
    <3>4. CASE frames[depth].kind # "object"
      <4>1. words = c + 1 /\ Reader!WordsOf(frames[depth]) = c + 1
        BY <1>2, <1>6, <3>1, <3>4 DEF Reader!WordsOf
      <4>2. Len(values) = base + (c + 1) + 1
        BY <3>2, <4>1
      <4>3. count \in Nat /\ words = c + 1 /\ c + 1 \in Nat
        BY <3>1, <4>1
      <4> QED
        BY <1>7, <4>2, <4>3
    <3> QED
      BY <3>3, <3>4
  <2> QED
    BY <1>5, <2>1, <2>2
<1>9. below = base + 1
  BY <1>3, <1>7, <1>8
<1>10. \A n \in 1 .. Len(values) : values[n] \in V
  BY DepthFacts
<1>11. /\ filled.kind = frames[depth].kind /\ filled.kind \in Container
       /\ filled.elements \in Seq(V) /\ Len(filled.elements) = count
       /\ \A k \in 1 .. count :
            filled.elements[k] =
              values[base + 1 + IF filled.kind = "object" THEN 2 * k ELSE k]
       /\ filled.kind = "object" =>
            \A k \in 1 .. count : filled.keys[k] = values[base + 2 * k].payload
  <2>1. CASE frames[depth].kind = "object"
    <3>1. [n \in 1 .. count |-> values[below + 2 * n]] \in Seq(V)
      <4>1. \A n \in 1 .. count : values[below + 2 * n] \in V
        BY <1>2, <1>6, <1>7, <1>8, <1>9, <1>10, <2>1
      <4> QED
        BY <1>8, <4>1, SeqDef
    <3>2. filled.kind = "object"
          /\ filled.elements = [n \in 1 .. count |-> values[below + 2 * n]]
      BY <1>4, <1>6, <2>1 DEF Reader!Filled, Reader!Dom
    <3>3. filled.keys = [n \in 1 .. count |-> values[below + 2 * n - 1].payload]
      BY <1>4, <1>6, <2>1 DEF Reader!Filled, Reader!Dom
    <3>4. ASSUME NEW k \in 1 .. count
          PROVE  below + 2 * k = base + 1 + 2 * k /\ below + 2 * k - 1 = base + 2 * k
      BY <1>7, <1>8, <1>9
    <3>5. \A k \in 1 .. count : /\ filled.elements[k] = values[base + 1 + 2 * k]
                                /\ filled.keys[k] = values[base + 2 * k].payload
      BY <3>2, <3>3, <3>4
    <3>6. Len(filled.elements) = count
      BY <1>8, <3>2
    <3> QED
      BY <2>1, <3>1, <3>2, <3>5, <3>6 DEF Container
  <2>2. CASE frames[depth].kind # "object"
    <3>1. /\ SubSeq(values, below + 1, Len(values)) \in Seq(V)
          /\ Len(SubSeq(values, below + 1, Len(values))) =
               IF below + 1 <= Len(values) THEN Len(values) - (below + 1) + 1 ELSE 0
          /\ \A k \in 1 .. Len(values) - (below + 1) + 1 :
               SubSeq(values, below + 1, Len(values))[k] = values[(below + 1) + k - 1]
      <4>1. \A n \in below + 1 .. Len(values) : values[n] \in V
        BY <1>7, <1>9, <1>10
      <4>2. below + 1 \in Int /\ Len(values) \in Int
        BY <1>7, <1>9
      <4> QED
        BY <4>1, <4>2, SubSeqProperties
    <3>2. /\ filled.kind = "array"
          /\ filled.elements = SubSeq(values, below + 1, Len(values))
      BY <1>4, <1>6, <2>2 DEF Reader!Filled, Reader!Dom
    <3>3. words = count
      BY <1>2, <1>6, <2>2
    <3>4. Len(values) = below + count /\ below \in Nat
      BY <1>7, <1>8, <1>9, <3>3
    <3>5. Len(filled.elements) = count
      BY <1>8, <3>1, <3>2, <3>4
    <3>6. ASSUME NEW k \in 1 .. count
          PROVE  filled.elements[k] = values[base + 1 + k]
      <4>1. k \in 1 .. Len(values) - (below + 1) + 1
        BY <1>8, <3>4
      <4>2. (below + 1) + k - 1 = base + 1 + k
        BY <1>7, <1>8, <1>9
      <4> QED
        BY <3>1, <3>2, <4>1, <4>2
    <3> QED
      BY <1>6, <2>2, <3>1, <3>2, <3>5, <3>6 DEF Container, Calls
  <2> QED
    BY <2>1, <2>2
<1> DEFINE W == V \cup {filled}
           kept == SubSeq(values, 1, base)
<1>12. IsDom(W) /\ filled \in W /\ \A s \in Seq(V) : s \in Seq(W)
  BY <1>11, DomGrows DEF ReaderFits, ReaderTypes
<1>13. /\ kept \in Seq(W) /\ Len(kept) = base
       /\ \A n \in 1 .. base : kept[n] = values[n]
  <2>1. base \in Int /\ 1 \in Int /\ base <= Len(values)
    BY <1>7, <1>8
  <2>2. \A n \in 1 .. base : values[n] \in V
    BY <1>7, <1>10, <2>1
  <2>3. /\ kept \in Seq(V)
        /\ Len(kept) = IF 1 <= base THEN base - 1 + 1 ELSE 0
        /\ \A n \in 1 .. base - 1 + 1 : kept[n] = values[1 + n - 1]
    BY <2>1, <2>2, SubSeqProperties
  <2> QED
    BY <1>7, <1>12, <2>3
<1>14. /\ values' \in Seq(W) /\ Len(values') = base + 1
       /\ \A n \in 1 .. base : values'[n] = values[n]
       /\ values'[base + 1] = filled
  <2>1. values' = Append(kept, filled)
    BY <1>5, <1>7, <1>9
  <2> HIDE DEF kept, W
  <2> QED
    BY <1>12, <1>13, <2>1, AppendProperties
<1> HIDE DEF W, kept
<1>15. count = IF state = "first" THEN 0 ELSE frames[depth].count + 1
  BY <1>1, <1>6 DEF Reader!Counted, Calls
<1>16. Folds(V, state, frames, values, values', places, base, count, filled)
  <2>1. Len(values) = base + 1 + IF filled.kind = "object" THEN 2 * count ELSE count
    BY <1>2, <1>6, <1>8, <1>11
  <2> QED
    BY <1>7, <1>8, <1>11, <1>14, <1>15, <2>1 DEF Folds, W, base
<1> QED
  BY <1>16

LEMMA EndKeeps ==
  ASSUME NEW V, NEW places, ReaderFits(V, places), Reader!EndContainer
  PROVE  \E W, new : ReaderFits(W, new)'
<1>1. PICK base, count, filled :
        Folds(V, state, frames, values, values', places, base, count, filled)
  BY EndShape
<1>2. PICK depth : depth = Len(frames)
  OBVIOUS
<1>3. /\ frames' = Front(frames) /\ state' = "return"
      /\ state = "first" \/ (state = "return" /\ frames # <<>>)
  BY SameWords DEF Reader!EndContainer
<1>4. depth \in Nat /\ depth > 0 /\ frames # <<>>
  <2>1. frames \in Seq(Calls) /\ depth \in Nat
    BY <1>2, DepthFacts DEF ReaderFits, PlacesFit
  <2> QED
    BY <1>2, <1>3, <2>1, EmptySeq DEF ReaderFits, HeightFits
<1>5. /\ base \in Nat /\ base = places[depth] /\ Len(values') = base + 1
      /\ \A n \in 1 .. base : values'[n] = values[n]
      /\ filled.kind \in Container /\ filled.elements \in Seq(V)
      /\ values' \in Seq(V \cup {filled})
  BY <1>1, <1>2 DEF Folds
<1>6. PICK W : W = V \cup {filled}
  OBVIOUS
<1>7. IsDom(W)
  BY <1>5, <1>6, DomGrows DEF ReaderFits, ReaderTypes
<1>8. PICK fewer, new : fewer = Front(frames) /\ new = Front(places)
  OBVIOUS
<1>9. /\ PlacesFit(fewer, new) /\ Len(fewer) = depth - 1
      /\ \A n \in 1 .. depth - 1 : fewer[n] = frames[n]
      /\ \A n \in 1 .. depth : new[n] = places[n]
  BY <1>2, <1>4, <1>8, LastPlace DEF ReaderFits
<1>10. frames' = fewer
  BY <1>3, <1>8
<1>11. HeightFits(new)'
  BY <1>3, <1>4, <1>5, <1>9, <1>10 DEF HeightFits
<1>12. ContainersWait(new)'
  <2> SUFFICES ASSUME NEW n \in 1 .. depth - 1
               PROVE  values'[new[n] + 1] = Reader!Empty(fewer[n].kind)
    BY <1>9, <1>10 DEF ContainersWait
  <2>1. /\ n \in 1 .. depth /\ n \in 1 .. Len(frames) /\ n < depth
        /\ new[n] = places[n] /\ fewer[n] = frames[n]
    BY <1>2, <1>4, <1>9
  <2>2. places[n] + 1 \in 1 .. base
    <3>1. places[n] \in Nat /\ places[n] < base
      <4>1. \A m \in 1 .. Len(frames) + 1 : places[m] \in Nat
        BY DepthFacts
      <4>2. n \in 1 .. Len(places) /\ depth \in 1 .. Len(places)
        BY <1>2, <1>4, <2>1 DEF ReaderFits, PlacesFit
      <4>3. places[n] < places[depth]
        BY <2>1, <4>2 DEF ReaderFits, PlacesFit
      <4> QED
        BY <1>2, <1>4, <1>5, <2>1, <4>1, <4>3
    <3> QED
      BY <1>5, <3>1
  <2>3. values[places[n] + 1] = Reader!Empty(frames[n].kind)
    BY <2>1 DEF ReaderFits, ContainersWait
  <2> QED
    BY <1>5, <2>1, <2>2, <2>3
<1>13. ReaderTypes(W)'
  BY <1>5, <1>6, <1>7 DEF ReaderTypes
<1>14. ReaderFits(W, new)'
  BY <1>9, <1>10, <1>11, <1>12, <1>13 DEF ReaderFits
<1> QED
  BY <1>14

LEMMA NothingRead ==
  ASSUME ReaderInv, UNCHANGED <<state, frames, values>>
  PROVE  ReaderInv'
<1>1. PICK V, places : ReaderFits(V, places)
  BY DEF ReaderInv
<1>2. ReaderFits(V, places)'
  BY <1>1 DEF ReaderFits, ReaderTypes, ContainersWait, HeightFits
<1> QED
  BY <1>2 DEF ReaderInv

LEMMA ReaderStepKeeps ==
  ReaderInv /\ [Reader!Parse]_Reader!vars => ReaderInv'
<1> SUFFICES ASSUME ReaderInv, [Reader!Parse]_Reader!vars
             PROVE  ReaderInv'
  OBVIOUS
<1>1. PICK V, places : ReaderFits(V, places)
  BY DEF ReaderInv
<1>2. ASSUME NEW W, NEW new, ReaderFits(W, new)'
      PROVE  ReaderInv'
  BY <1>2 DEF ReaderInv
<1>3. CASE UNCHANGED Reader!vars
  BY <1>3, NothingRead DEF Reader!vars
<1>4. CASE Reader!Begin
  BY <1>1, <1>2, <1>4, BeginKeeps
<1>5. CASE Reader!ParseScalar
  BY <1>1, <1>2, <1>5, ScalarKeeps
<1>6. CASE Reader!NoValue \/ Reader!NoKey \/ Reader!NoSeparator
  <2>1. UNCHANGED <<frames, values>> /\ state' = "rejected"
    BY <1>6 DEF Reader!NoValue, Reader!NoKey, Reader!NoSeparator, Reader!Reject
  <2> QED
    BY <1>1, <1>2, <2>1, RejectKeeps
<1>7. CASE Reader!First
  BY <1>1, <1>2, <1>7, FirstKeeps
<1>8. CASE Reader!Key
  BY <1>1, <1>2, <1>8, KeyKeeps
<1>9. CASE Reader!Comma
  BY <1>1, <1>2, <1>9, CommaKeeps
<1>10. CASE \E kind \in Reader!Container : Reader!StartContainer(kind)
  BY <1>1, <1>2, <1>10, StartKeeps, SameWords
<1>11. CASE Reader!EndContainer
  BY <1>1, <1>2, <1>11, EndKeeps
<1>12. CASE Reader!Finish
  BY <1>1, <1>2, <1>12, FinishKeeps
<1> QED
  BY <1>3, <1>4, <1>5, <1>6, <1>7, <1>8, <1>9, <1>10, <1>11, <1>12
    DEF Reader!Parse

LEMMA ReaderBegins == Reader!Init => ReaderInv
<1> SUFFICES ASSUME Reader!Init PROVE ReaderFits({}, <<0>>)
  BY DEF ReaderInv
<1>1. state = "begin" /\ frames = <<>> /\ values = <<>>
  BY DEF Reader!Init
<1>2. PlacesFit(<<>>, <<0>>)
  BY EmptySeq DEF PlacesFit
<1>3. ReaderTypes({}) /\ ContainersWait(<<0>>) /\ HeightFits(<<0>>)
  BY <1>1, EmptySeq DEF ReaderTypes, IsDom, ContainersWait, HeightFits
<1> QED
  BY <1>1, <1>2, <1>3 DEF ReaderFits

\* The sums of CountsMatchStack are the places.
LEMMA BelowIsPlace ==
  ASSUME NEW V, NEW places, ReaderFits(V, places)
  PROVE  \A n \in 1 .. Len(frames) : Reader!Below[n] = places[n]
<1> DEFINE depth == Len(frames)
           Sum(f) == [n \in 1 .. depth |->
                        IF n = 1 THEN 0
                                 ELSE f[n - 1] + Reader!WordsOf(frames[n - 1])]
           g == [n \in 1 .. depth |-> places[n]]
<1>1. /\ depth \in Nat /\ places[1] = 0
      /\ \A n \in 1 .. depth :
           places[n + 1] = places[n] + Reader!WordsOf(frames[n])
  BY DepthFacts DEF ReaderFits, PlacesFit
<1>2. g = Sum(g)
  <2> SUFFICES ASSUME NEW n \in 1 .. depth, n # 1
               PROVE  places[n] = places[n - 1] + Reader!WordsOf(frames[n - 1])
    BY <1>1
  <2>1. n - 1 \in 1 .. depth /\ n - 1 + 1 = n
    BY <1>1
  <2> QED
    BY <1>1, <2>1
<1>3. Reader!Below = CHOOSE f : f = Sum(f)
  BY DEF Reader!Below
<1> HIDE DEF Sum, g
<1>4. Reader!Below = Sum(Reader!Below)
  BY <1>2, <1>3
<1>5. \A n \in 1 .. depth :
        Reader!Below[n] =
          IF n = 1 THEN 0
                   ELSE Reader!Below[n - 1] + Reader!WordsOf(frames[n - 1])
  BY <1>4 DEF Sum
<1> DEFINE S == {n \in Nat : n < depth => Reader!Below[n + 1] = places[n + 1]}
<1>6. 0 \in S
  BY <1>1, <1>5
<1>7. ASSUME NEW n \in Nat, n \in S PROVE n + 1 \in S
  <2> SUFFICES ASSUME n + 1 < depth
               PROVE  Reader!Below[n + 2] = places[n + 2]
    OBVIOUS
  <2>1. n + 1 \in 1 .. depth /\ n + 2 \in 1 .. depth /\ n + 2 # 1 /\ n + 2 - 1 = n + 1
    BY <1>1
  <2>2. Reader!Below[n + 1] = places[n + 1]
    BY <1>1, <1>7
  <2>3. Reader!Below[n + 2] = Reader!Below[n + 1] + Reader!WordsOf(frames[n + 1])
    BY <1>5, <2>1
  <2>4. places[n + 2] = places[n + 1] + Reader!WordsOf(frames[n + 1])
    BY <1>1, <2>1
  <2> QED
    BY <2>2, <2>3, <2>4
<1> HIDE DEF S
<1>8. Nat \subseteq S
  BY <1>6, <1>7, SetInduction
<1>9. ASSUME NEW n \in 1 .. depth PROVE Reader!Below[n] = places[n]
  <2>1. n - 1 \in Nat /\ n - 1 < depth /\ n - 1 + 1 = n
    BY <1>1
  <2>2. n - 1 \in S
    BY <1>8, <2>1
  <2> QED
    BY <2>1, <2>2 DEF S
<1> QED
  BY <1>9

LEMMA ReaderInvSuffices == ReaderInv => Reader!CountsMatchStack
<1> SUFFICES ASSUME NEW V, NEW places, ReaderFits(V, places)
             PROVE  Reader!CountsMatchStack
  BY DEF ReaderInv
<1>1. DOMAIN frames = 1 .. Len(frames)
  BY LenProperties DEF ReaderFits, PlacesFit
<1>2. \A n \in 1 .. Len(frames) :
        values[Reader!Below[n] + 1] = Reader!Empty(frames[n].kind)
  BY BelowIsPlace DEF ReaderFits, ContainersWait
<1>3. state = "accepted" => Len(values) = 1
  BY DEF ReaderFits, HeightFits
<1> QED
  BY <1>1, <1>2, <1>3 DEF Reader!CountsMatchStack

\* What ParseObject and ParseArray count is what the document has stacked, for
\* texts of any length and depth (the RAPIDJSON_ASSERT of document.h:2265).
THEOREM CountsMatchStackAlways == Reader!Spec => []Reader!CountsMatchStack
<1>1. Reader!Spec => []ReaderInv
  BY ReaderBegins, ReaderStepKeeps, PTL DEF Reader!Spec
<1> QED
  BY <1>1, ReaderInvSuffices, PTL

-----------------------------------------------------------------------------
(***************************************************************************)
(* The document and the text. The reader is where the text, read token by  *)
(* token, is; and what was read is where the walk will look for it: on the *)
(* stack of the document while its container is open, and then in it. W[q] *)
(* is the value that starts at position q; the key at q counts as one.     *)
(***************************************************************************)

\* In a container that was closed.
Stored(s, W, q) ==
  /\ Host(s, q).index < Len(W[Host(s, q).at].elements)
  /\ IF KeyRead(Run(s), s, q)
       THEN W[Host(s, q).at].keys[Host(s, q).index + 1] = W[q].payload
       ELSE W[Host(s, q).at].elements[Host(s, q).index + 1] = W[q]

\* On the stack; no higher than where the next container starts.
Slot(s, places, q) ==
  CASE KeyRead(Run(s), s, q) -> places[Depth(s, q - 1)] + 2 * Host(s, q).index + 2
    [] ~KeyRead(Run(s), s, q) /\ Host(s, q).kind = "object" ->
         places[Depth(s, q - 1)] + 2 * Host(s, q).index + 3
    [] OTHER -> places[Depth(s, q - 1)] + Host(s, q).index + 2
Ceiling(s, places, vals, n, m) == IF m < Depth(s, n) THEN places[m + 1] ELSE Len(vals)
OnStack(s, W, places, vals, n, q) ==
  /\ Slot(s, places, q) \in 1 .. Ceiling(s, places, vals, n, Depth(s, q - 1))
  /\ vals[Slot(s, places, q)] = W[q]

Placed(s, W, places, vals, n, q) ==
  IF Depth(s, q - 1) = 0
    THEN IsWhole(Run(s)[n]) /\ Len(vals) >= 1 /\ vals[1] = W[q]
    ELSE IF HostOpen(s, n, q) THEN OnStack(s, W, places, vals, n, q)
                              ELSE Stored(s, W, q)

DomReads(s, W, places, vals, n) ==
  /\ \A q \in 1 .. n :
       ScalarRead(Run(s), s, q) \/ KeyRead(Run(s), s, q)
         => W[q] = Scalar(s[q], Payload(s[q], q))
  /\ \A q \in 1 .. n : CloserRead(Run(s), s, q) =>
       /\ W[Host(s, q).at].kind = Host(s, q).kind
       /\ Len(W[Host(s, q).at].elements) = CountAt(Run(s)[q - 1])
  /\ \A q \in 1 .. n :
       IsItem(s, q) /\ ~IsOpen(s, n, q) => Placed(s, W, places, vals, n, q)

-----------------------------------------------------------------------------
\* As long as nothing is closed, what was stacked stays where it is.
SamePlaces(s, n, more, places, new, vals) ==
  /\ \A m \in 1 .. Depth(s, n) :
       places[m] \in Nat /\ places[m] <= Len(vals) /\ new[m] = places[m]
  /\ Depth(s, n) < Depth(s, more) => Len(vals) <= new[Depth(s, n) + 1]
                                     /\ new[Depth(s, n) + 1] \in Nat

LEMMA ItemStays ==
  ASSUME NEW s, Len(s) \in Nat, NEW n, NEW more, Onto(s, n, more),
         ~IsWhole(Run(s)[n]), NEW W, NEW later, \A q \in 1 .. n : later[q] = W[q],
         NEW vals, NEW grown, Len(vals) \in Nat, Len(grown) \in Nat,
         Len(vals) <= Len(grown), \A k \in 1 .. Len(vals) : grown[k] = vals[k],
         NEW places, NEW new, SamePlaces(s, n, more, places, new, vals),
         NEW q \in 1 .. n, Placed(s, W, places, vals, n, q)
  PROVE  Placed(s, later, new, grown, more, q)
<1>1. PICK m : m = Depth(s, q - 1)
  OBVIOUS
<1>2. PICK depth \in Nat : depth = Depth(s, n)
  BY DEF Onto
<1>3. q \in 1 .. Len(s) /\ n \in 0 .. Len(s)
  BY DEF Onto
<1>4. m \in Nat /\ later[q] = W[q]
  BY <1>1, <1>3, HostFacts
<1>5. PICK top \in Nat : top = Depth(s, more)
  BY DEF Onto
<1>6. depth <= top
  BY <1>2, <1>5 DEF Onto
<1>7. CASE m = 0
  BY <1>1, <1>7 DEF Placed
<1>8. CASE m # 0
  <2>1. PICK o : o = Host(s, q).at
    OBVIOUS
  <2>2. o \in 1 .. q - 1 /\ Host(s, q).index \in Nat
    BY <1>1, <1>3, <1>8, <2>1, HostFacts
  <2>3. o \in 1 .. n /\ later[o] = W[o]
    BY <1>3, <2>2
  <2>4. HostOpen(s, n, q) <=> HostOpen(s, more, q)
    <3>1. HostOpen(s, n, q) <=> m <= depth /\ Run(s)[n].open[m].at = o
      BY <1>1, <1>2, <2>1 DEF HostOpen
    <3>2. HostOpen(s, more, q) <=> m <= top /\ Run(s)[more].open[m].at = o
      BY <1>1, <1>5, <2>1 DEF HostOpen
    <3>3. CASE m <= depth
      <4>1. m \in 1 .. depth /\ m <= top
        BY <1>4, <1>6, <1>8, <3>3
      <4> QED
        BY <1>2, <3>1, <3>2, <4>1 DEF Onto
    <3>4. CASE ~(m <= depth) /\ m <= top
      <4>1. m \in depth + 1 .. top
        BY <1>4, <3>4
      <4>2. Run(s)[more].open[m].at \notin 1 .. n
        BY <1>2, <1>5, <4>1 DEF Onto
      <4> QED
        BY <2>3, <3>1, <3>2, <3>4, <4>2
    <3>5. CASE ~(m <= depth) /\ ~(m <= top)
      BY <3>1, <3>2, <3>5
    <3> QED
      BY <3>3, <3>4, <3>5
  <2>5. CASE HostOpen(s, n, q)
    <3>1. m \in 1 .. depth
      BY <1>1, <1>2, <1>4, <1>8, <2>5 DEF HostOpen
    <3>2. new[m] = places[m] /\ Slot(s, new, q) = Slot(s, places, q)
      BY <1>1, <1>2, <3>1 DEF SamePlaces, Slot
    <3>3. OnStack(s, W, places, vals, n, q)
      BY <1>1, <1>8, <2>5 DEF Placed
    <3>4. PICK slot : slot = Slot(s, places, q)
      OBVIOUS
    <3>5. slot \in 1 .. Ceiling(s, places, vals, n, m) /\ vals[slot] = W[q]
      BY <1>1, <3>3, <3>4 DEF OnStack
    <3>6. slot \in 1 .. Ceiling(s, new, grown, more, m) /\ slot \in 1 .. Len(vals)
      <4>1. CASE m < depth
        <5>1. m + 1 \in 1 .. depth /\ m < top
          BY <1>4, <1>6, <4>1
        <5>2. PICK place \in Nat : place = places[m + 1]
          BY <1>2, <5>1 DEF SamePlaces
        <5>3. place <= Len(vals) /\ new[m + 1] = place
          BY <1>2, <5>1, <5>2 DEF SamePlaces
        <5>4. slot \in 1 .. place
          BY <1>2, <3>5, <4>1, <5>2 DEF Ceiling
        <5>5. Ceiling(s, new, grown, more, m) = place
          BY <1>5, <5>1, <5>3 DEF Ceiling
        <5> QED
          BY <5>3, <5>4, <5>5
      <4>2. CASE m = depth
        <5>1. slot \in 1 .. Len(vals)
          BY <1>2, <3>5, <4>2 DEF Ceiling
        <5>2. CASE depth < top
          <6>1. Len(vals) <= new[m + 1] /\ new[m + 1] \in Nat
            BY <1>2, <1>5, <4>2, <5>2 DEF SamePlaces
          <6>2. Ceiling(s, new, grown, more, m) = new[m + 1]
            BY <1>5, <4>2, <5>2 DEF Ceiling
          <6> QED
            BY <5>1, <6>1, <6>2
        <5>3. CASE ~(depth < top)
          <6>1. Ceiling(s, new, grown, more, m) = Len(grown)
            BY <1>5, <4>2, <5>3 DEF Ceiling
          <6> QED
            BY <5>1, <6>1
        <5> QED
          BY <5>2, <5>3
      <4> QED
        BY <3>1, <4>1, <4>2
    <3>7. grown[slot] = later[q]
      BY <1>4, <3>5, <3>6
    <3>8. OnStack(s, later, new, grown, more, q)
      BY <1>1, <3>2, <3>4, <3>6, <3>7 DEF OnStack
    <3> QED
      BY <1>1, <1>8, <2>4, <2>5, <3>8 DEF Placed
  <2>6. CASE ~HostOpen(s, n, q)
    <3>1. Stored(s, W, q)
      BY <1>1, <1>8, <2>6 DEF Placed
    <3>2. Stored(s, later, q)
      BY <1>4, <2>1, <2>3, <3>1 DEF Stored
    <3> QED
      BY <1>1, <1>8, <2>4, <2>6, <3>2 DEF Placed
  <2> QED
    BY <2>5, <2>6
<1> QED
  BY <1>4, <1>7, <1>8

\* What was read is no container, or one that stays open, or has its place.
LEMMA NothingClosed ==
  ASSUME NEW s, Len(s) \in Nat, NEW n, NEW more, Onto(s, n, more),
         ~IsWhole(Run(s)[n]), NEW W, NEW later, \A q \in 1 .. n : later[q] = W[q],
         NEW vals, NEW grown, Len(vals) \in Nat, Len(grown) \in Nat,
         Len(vals) <= Len(grown), \A k \in 1 .. Len(vals) : grown[k] = vals[k],
         NEW places, NEW new, SamePlaces(s, n, more, places, new, vals),
         DomReads(s, W, places, vals, n),
         \A q \in n + 1 .. more :
           /\ ScalarRead(Run(s), s, q) \/ KeyRead(Run(s), s, q)
                => later[q] = Scalar(s[q], Payload(s[q], q))
           /\ ~CloserRead(Run(s), s, q)
           /\ IsItem(s, q) /\ ~IsOpen(s, more, q)
                => Placed(s, later, new, grown, more, q)
  PROVE  DomReads(s, later, new, grown, more)
<1>1. n \in 0 .. Len(s) /\ more \in n .. Len(s)
  BY DEF Onto
<1>2. \A q \in 1 .. more : q \in 1 .. n \/ q \in n + 1 .. more
  BY <1>1
<1>3. ASSUME NEW q \in 1 .. more,
             ScalarRead(Run(s), s, q) \/ KeyRead(Run(s), s, q)
      PROVE  later[q] = Scalar(s[q], Payload(s[q], q))
  BY <1>2, <1>3 DEF DomReads
<1>4. ASSUME NEW q \in 1 .. more, CloserRead(Run(s), s, q)
      PROVE  /\ later[Host(s, q).at].kind = Host(s, q).kind
             /\ Len(later[Host(s, q).at].elements) = CountAt(Run(s)[q - 1])
  <2>1. q \in 1 .. n /\ q \in 1 .. Len(s) /\ q - 1 \in 0 .. Len(s)
    BY <1>1, <1>2, <1>4
  <2>2. PICK st : st = Run(s)[q - 1]
    OBVIOUS
  <2>3. IsState(st) /\ st.open # <<>>
    BY <1>4, <2>1, <2>2, RunStates DEF CloserRead, CloserNext
  <2>4. Depth(s, q - 1) # 0
    BY <2>2, <2>3, EmptySeq DEF Depth, IsState
  <2>5. Host(s, q).at \in 1 .. n
    BY <1>1, <2>1, <2>4, HostFacts
  <2> QED
    BY <1>4, <2>1, <2>5 DEF DomReads
<1>5. ASSUME NEW q \in 1 .. more, IsItem(s, q), ~IsOpen(s, more, q)
      PROVE  Placed(s, later, new, grown, more, q)
  <2>1. CASE q \in 1 .. n
    <3>1. ~IsOpen(s, n, q)
      BY <1>5 DEF IsOpen, Onto
    <3>2. Placed(s, W, places, vals, n, q)
      BY <1>5, <2>1, <3>1 DEF DomReads
    <3> QED
      BY <2>1, <3>2, ItemStays
  <2> QED
    BY <1>2, <1>5, <2>1
<1> QED
  BY <1>3, <1>4, <1>5 DEF DomReads

-----------------------------------------------------------------------------
(***************************************************************************)
(* The reader follows the text.                                            *)
(***************************************************************************)

\* A call for every container that is open, which has counted what was read.
Agrees(calls, st) ==
  /\ Len(calls) = Len(st.open)
  /\ \A m \in 1 .. Len(calls) :
       calls[m].kind = st.open[m].kind /\ calls[m].count = st.open[m].index
ReadsOn(what, st) ==
  /\ what = "value" => ValueNext(st)
  /\ what = "first" => st.expects = "first"
  /\ what = "key" => KeyNext(st)
  /\ what = "return" => st.expects = "separator"
  /\ what = "accepted" => IsWhole(st)
DomFollows(s, n, calls, vals) ==
  /\ n \in 0 .. Len(s)
  /\ Agrees(calls, Run(s)[n])
  /\ \E W : \A places : PlacesFit(calls, places) => DomReads(s, W, places, vals, n)

FollowInv ==
  /\ Len(text) \in Nat /\ at \in Nat \ {0}
  /\ state = "begin" => at = 1
  /\ state \in {"value", "first", "key", "return", "accepted"} =>
       /\ DomFollows(text, at - 1, frames, values)
       /\ ReadsOn(state, Run(text)[at - 1])

\* What the lemmas about a step start from.
Here(s, n, st, calls, vals, places, W) ==
  /\ s = text /\ Len(s) \in Nat /\ n \in 0 .. Len(s) /\ at = n + 1 /\ n \in Nat
  /\ st = Run(s)[n] /\ IsState(st)
  /\ calls = frames /\ calls \in Seq(Calls) /\ vals = values /\ Len(vals) \in Nat
  /\ Len(calls) \in Nat /\ Len(st.open) = Len(calls) /\ Depth(s, n) = Len(calls)
  /\ \A m \in 1 .. Len(calls) :
       /\ calls[m] \in Calls
       /\ calls[m].kind = st.open[m].kind /\ calls[m].count = st.open[m].index
  /\ PlacesFit(calls, places) /\ HeightFits(places)
  /\ \A m \in 1 .. Len(calls) + 1 : places[m] \in Nat
  /\ \A m \in 1 .. Len(calls) : places[m] + 1 <= Len(vals)
  /\ ReadsOn(state, st) /\ DomReads(s, W, places, vals, n)
  /\ \E V : ReaderFits(V, places)

LEMMA StandsHere ==
  ASSUME ReaderInv, FollowInv, state \in {"value", "first", "key", "return"}
  PROVE  \E s, n, st, calls, vals, places, W : Here(s, n, st, calls, vals, places, W)
<1>1. PICK s, calls, vals : s = text /\ calls = frames /\ vals = values
  OBVIOUS
<1>2. PICK n \in Nat : at = n + 1 /\ n = at - 1
  BY DEF FollowInv
<1>3. PICK V, places : ReaderFits(V, places)
  BY DEF ReaderInv
<1>4. PICK st : st = Run(s)[n]
  OBVIOUS
<1>5. DomFollows(s, n, calls, vals) /\ ReadsOn(state, st) /\ Len(s) \in Nat
  BY <1>1, <1>2, <1>4 DEF FollowInv
<1>6. n \in 0 .. Len(s) /\ Agrees(calls, st)
  BY <1>4, <1>5 DEF DomFollows
<1>7. PlacesFit(calls, places) /\ HeightFits(places) /\ calls \in Seq(Calls)
  BY <1>1, <1>3 DEF ReaderFits, PlacesFit
<1>8. PICK W : DomReads(s, W, places, vals, n)
  BY <1>5, <1>7 DEF DomFollows
<1>9. IsState(st)
  BY <1>4, <1>5, <1>6, RunStates
<1>10. /\ Len(calls) \in Nat /\ Len(vals) \in Nat
       /\ \A m \in 1 .. Len(calls) : calls[m] \in Calls
       /\ \A m \in 1 .. Len(calls) + 1 : places[m] \in Nat
  BY <1>1, <1>3, DepthFacts
<1>11. \A m \in 1 .. Len(calls) : places[m] + 1 <= Len(vals)
  BY <1>1, <1>3, StackIsHigh
<1>12. Here(s, n, st, calls, vals, places, W)
  BY <1>1, <1>2, <1>3, <1>4, <1>5, <1>6, <1>7, <1>8, <1>9, <1>10, <1>11
    DEF Here, Agrees, Depth
<1> QED
  BY <1>12

\* A place depends on what the calls around it have counted.
LEMMA PlacesAgree ==
  ASSUME NEW calls, NEW places, PlacesFit(calls, places),
         NEW other, NEW new, PlacesFit(other, new),
         NEW size \in Nat, size <= Len(calls), size <= Len(other),
         \A k \in 1 .. size : other[k] = calls[k]
  PROVE  \A k \in 1 .. size + 1 : new[k] = places[k]
<1> DEFINE S == {k \in Nat : k <= size => new[k + 1] = places[k + 1]}
<1>1. 0 \in S
  BY DEF PlacesFit
<1>2. ASSUME NEW k \in Nat, k \in S
      PROVE  k + 1 \in S
  <2>1. CASE k + 1 <= size
    <3>1. k + 1 \in 1 .. size /\ k <= size
      BY <2>1
    <3>2. Len(calls) \in Nat /\ Len(other) \in Nat
      BY LenProperties DEF PlacesFit
    <3>3. k + 1 \in 1 .. Len(calls) /\ k + 1 \in 1 .. Len(other)
      BY <3>1, <3>2
    <3>4. /\ places[(k + 1) + 1] = places[k + 1] + Reader!WordsOf(calls[k + 1])
          /\ new[(k + 1) + 1] = new[k + 1] + Reader!WordsOf(other[k + 1])
      BY <3>3 DEF PlacesFit
    <3> QED
      BY <1>2, <3>1, <3>4
  <2> QED
    BY <2>1
<1>3. Nat \subseteq S
  <2> HIDE DEF S
  <2> QED
    BY <1>1, <1>2, SetInduction
<1>4. ASSUME NEW k \in 1 .. size + 1
      PROVE  new[k] = places[k]
  <2>1. k - 1 \in Nat /\ k - 1 <= size /\ (k - 1) + 1 = k
    OBVIOUS
  <2>2. k - 1 \in S
    BY <1>3, <2>1
  <2> QED
    BY <2>1, <2>2
<1> QED
  BY <1>4

LEMMA TokenIs ==
  ASSUME Len(text) \in Nat, NEW k \in Nat \ {0}, Reader!TokenAt(k) # "NUL"
  PROVE  k \in 1 .. Len(text) /\ text[k] = Reader!TokenAt(k)
BY DEF Reader!TokenAt

LEMMA SameValues ==
  /\ \A kind, payload : Reader!Scalar(kind, payload) = Scalar(kind, payload)
  /\ \A kind : Reader!Empty(kind) = Empty(kind)
  /\ \A kind, keys, elements :
       Reader!Filled(kind, keys, elements) = Filled(kind, keys, elements)
  /\ \A kind, position : Reader!Payload(kind, position) = Payload(kind, position)
  /\ Reader!Opener = Opener /\ Reader!Closer = Closer
  /\ Reader!ScalarKind = ScalarKind /\ Reader!Container = Container
BY DEF Reader!Scalar, Scalar, Reader!Empty, Empty, Reader!Filled, Filled,
       Reader!Dom, Dom, Reader!Payload, Payload, Reader!NoPayload, NoPayload,
       Reader!Opener, Opener, Reader!Closer, Closer,
       Reader!ScalarKind, ScalarKind, Reader!AtomKind, AtomKind,
       Reader!NumberKind, NumberKind, Reader!Container, Container

\* An item goes where the calls around it say.
LEMMA SlotIs ==
  ASSUME NEW s, NEW q, NEW calls, NEW places, PlacesFit(calls, places),
         NEW m \in 1 .. Len(calls), m = Depth(s, q - 1),
         calls[m] \in Calls, places[m] \in Nat,
         Host(s, q).kind = calls[m].kind, Host(s, q).index = calls[m].count,
         KeyRead(Run(s), s, q) => calls[m].kind = "object"
  PROVE  Slot(s, places, q) =
           IF KeyRead(Run(s), s, q) THEN places[m + 1] ELSE places[m + 1] + 1
<1>1. places[m + 1] = places[m] + Reader!WordsOf(calls[m])
  BY DEF PlacesFit
<1>2. PICK place \in Nat, count \in Nat : place = places[m] /\ count = calls[m].count
  BY DEF Calls
<1>3. Reader!WordsOf(calls[m]) =
        IF calls[m].kind = "object" THEN 2 * count + 2 ELSE count + 1
  BY <1>2 DEF Reader!WordsOf
<1>4. CASE KeyRead(Run(s), s, q)
  BY <1>1, <1>2, <1>3, <1>4 DEF Slot
<1>5. CASE ~KeyRead(Run(s), s, q) /\ calls[m].kind = "object"
  BY <1>1, <1>2, <1>3, <1>5 DEF Slot
<1>6. CASE ~KeyRead(Run(s), s, q) /\ calls[m].kind # "object"
  BY <1>1, <1>2, <1>3, <1>6 DEF Slot
<1> QED
  BY <1>4, <1>5, <1>6

LEMMA MoreFollows ==
  ASSUME NEW s, NEW n, NEW st, NEW calls, NEW vals, NEW places, NEW W,
         Here(s, n, st, calls, vals, places, W), ~IsWhole(st),
         NEW more, Onto(s, n, more),
         NEW later, \A q \in 1 .. n : later[q] = W[q],
         NEW grown, Len(grown) \in Nat,
         Len(vals) <= Len(grown), \A k \in 1 .. Len(vals) : grown[k] = vals[k],
         NEW other, Agrees(other, Run(s)[more]),
         \A new : PlacesFit(other, new) =>
           /\ SamePlaces(s, n, more, places, new, vals)
           /\ \A q \in n + 1 .. more :
                /\ ScalarRead(Run(s), s, q) \/ KeyRead(Run(s), s, q)
                     => later[q] = Scalar(s[q], Payload(s[q], q))
                /\ ~CloserRead(Run(s), s, q)
                /\ IsItem(s, q) /\ ~IsOpen(s, more, q)
                     => Placed(s, later, new, grown, more, q)
  PROVE  DomFollows(s, more, other, grown)
<1>1. /\ Len(s) \in Nat /\ ~IsWhole(Run(s)[n]) /\ Len(vals) \in Nat
      /\ DomReads(s, W, places, vals, n)
  BY DEF Here
<1>2. ASSUME NEW new, PlacesFit(other, new)
      PROVE  DomReads(s, later, new, grown, more)
  BY <1>1, <1>2, NothingClosed
<1>3. more \in 0 .. Len(s)
  BY DEF Onto
<1> QED
  BY <1>2, <1>3 DEF DomFollows

\* A byte order mark is no item.
LEMMA BeginFollows ==
  ASSUME ReaderInv, FollowInv, Reader!Begin
  PROVE  FollowInv'
<1>1. PICK s, calls, vals : s = text /\ calls = frames /\ vals = values
  OBVIOUS
<1>2. /\ state = "begin" /\ at = 1 /\ s = text' /\ Len(s) \in Nat
      /\ calls = frames' /\ vals = values'
      /\ at' = IF Reader!TokenAt(1) = "EF" THEN 2 ELSE 1
      /\ state' \in {"rejected", "value"}
  BY <1>1 DEF FollowInv, Reader!Begin, Reader!Peek
<1>3. Len(calls) = 0 /\ Len(vals) = 0
  BY <1>1, <1>2 DEF ReaderInv, ReaderFits, HeightFits
<1>4. PICK n : n = at' - 1
  OBVIOUS
<1>5. /\ n \in 0 .. Len(s) /\ Run(s)[n] = Outset /\ n \in {0, 1}
      /\ n = 1 => s[1] = "EF"
  <2>1. CASE Reader!TokenAt(1) # "EF"
    <3>1. n = 0
      BY <1>2, <1>4, <2>1
    <3> QED
      BY <1>2, <3>1, RunSteps
  <2>2. CASE Reader!TokenAt(1) = "EF"
    <3>1. n = 1
      BY <1>2, <1>4, <2>2
    <3>2. 1 \in 1 .. Len(s) /\ s[1] = "EF"
      BY <1>1, <1>2, <2>2, TokenIs
    <3>3. Run(s)[0] = Outset
      BY <1>2, RunSteps
    <3>4. Run(s)[1 - 1] = Outset
      BY <3>3
    <3>5. TokenReads(Run(s)[1 - 1], Outset, s[1], 1)
      BY <3>2, <3>4 DEF TokenReads
    <3>6. Run(s)[1] = Outset
      BY <1>2, <3>2, <3>5, TokenRead
    <3> QED
      BY <3>1, <3>2, <3>6
  <2> QED
    BY <2>1, <2>2
<1>6. ASSUME NEW q \in 1 .. n
      PROVE  ~IsItem(s, q) /\ ~ScalarRead(Run(s), s, q)
             /\ ~KeyRead(Run(s), s, q) /\ ~CloserRead(Run(s), s, q)
  <2>1. s[q] = "EF"
    BY <1>5
  <2>2. Run(s)[q - 1] = Outset
    BY <1>2, <1>5, RunSteps
  <2> QED
    BY <2>1, <2>2, TokenNames
      DEF IsItem, ScalarRead, KeyRead, CloserRead, BracketRead, CloserNext, Outset
<1>7. \A places, W : DomReads(s, W, places, vals, n)
  BY <1>6 DEF DomReads
<1>8. Len(Outset.open) = 0 /\ ReadsOn("value", Outset)
  BY EmptySeq DEF Outset, ReadsOn, ValueNext
<1>9. DomFollows(s, n, calls, vals)
  BY <1>3, <1>5, <1>7, <1>8 DEF DomFollows, Agrees
<1>10. at' \in Nat \ {0}
  BY <1>2
<1> QED
  BY <1>2, <1>4, <1>5, <1>8, <1>9, <1>10 DEF FollowInv

LEMMA FirstFollows ==
  ASSUME FollowInv, Reader!First
  PROVE  FollowInv'
<1>1. /\ state = "first" /\ state' \in {"key", "value"}
      /\ state' = IF Reader!Frame.kind = "object" THEN "key" ELSE "value"
      /\ text' = text /\ at' = at /\ frames' = frames /\ values' = values
  BY DEF Reader!First, Reader!NextPart
<1>2. PICK s, n, calls, vals, st :
        /\ s = text /\ n = at - 1 /\ calls = frames /\ vals = values
        /\ st = Run(s)[n]
  OBVIOUS
<1>3. /\ DomFollows(s, n, calls, vals) /\ st.expects = "first"
      /\ Len(s) \in Nat /\ at \in Nat \ {0}
  BY <1>1, <1>2 DEF FollowInv, ReadsOn
<1>4. Agrees(calls, st) /\ IsState(st)
  BY <1>2, <1>3, RunStates DEF DomFollows
<1>5. st.open # <<>>
  BY <1>3, <1>4 DEF IsState
<1>6. PICK depth \in Nat \ {0} : depth = Len(st.open)
  BY <1>4, <1>5, InnerFacts
<1>7. Reader!Frame = calls[depth]
  BY <1>2, <1>4, <1>6, SameWords DEF Reader!Frame, Last, Agrees
<1>8. Reader!Frame.kind = Inner(st).kind /\ Inner(st).kind \in Container
  BY <1>4, <1>5, <1>6, <1>7, InnerFacts DEF Agrees
<1>9. ReadsOn(state', st)
  BY <1>1, <1>3, <1>8, TokenNames DEF ReadsOn, ValueNext, KeyNext
<1> QED
  BY <1>1, <1>2, <1>3, <1>9 DEF FollowInv

LEMMA Stacked ==
  ASSUME NEW V, NEW vals \in Seq(V), NEW v
  PROVE  /\ Len(Append(vals, v)) = Len(vals) + 1
         /\ Append(vals, v)[Len(vals) + 1] = v
         /\ \A k \in 1 .. Len(vals) : Append(vals, v)[k] = vals[k]
<1>1. PICK T : v \in T /\ vals \in Seq(T)
  <2>1. v \in V \cup {v} /\ vals \in Seq(V \cup {v})
    OBVIOUS
  <2> QED
    BY <2>1
<1> QED
  BY <1>1, AppendProperties

LEMMA ScalarFollows ==
  ASSUME ReaderInv, FollowInv, Reader!ParseScalar
  PROVE  FollowInv'
<1>1. /\ state = "value" /\ state' = "return" /\ at' = at + 1
      /\ Reader!TokenAt(at) \in ScalarKind
      /\ values' = Append(values, Scalar(Reader!TokenAt(at),
                                         Payload(Reader!TokenAt(at), at)))
      /\ text' = text /\ frames' = frames
  BY SameValues DEF Reader!ParseScalar, Reader!Peek
<1>2. PICK s, n, st, calls, vals, places, W : Here(s, n, st, calls, vals, places, W)
  BY <1>1, StandsHere
<1>3. /\ s = text /\ Len(s) \in Nat /\ n \in Nat /\ n \in 0 .. Len(s)
      /\ at = n + 1 /\ calls = frames /\ vals = values /\ Len(vals) \in Nat
      /\ st = Run(s)[n] /\ IsState(st) /\ ValueNext(st)
      /\ Len(calls) \in Nat /\ Len(st.open) = Len(calls) /\ Depth(s, n) = Len(calls)
      /\ \A m \in 1 .. Len(calls) :
           /\ calls[m] \in Calls
           /\ calls[m].kind = st.open[m].kind /\ calls[m].count = st.open[m].index
      /\ PlacesFit(calls, places) /\ Len(vals) = places[Len(calls) + 1]
      /\ \A m \in 1 .. Len(calls) + 1 : places[m] \in Nat
      /\ \A m \in 1 .. Len(calls) : places[m] + 1 <= Len(vals)
  BY <1>1, <1>2 DEF Here, ReadsOn, HeightFits
<1>4. PICK q : q = n + 1
  OBVIOUS
<1>5. /\ q \in 1 .. Len(s) /\ q \in n .. Len(s) /\ s[q] = Reader!TokenAt(at)
      /\ q - 1 = n /\ n + 1 .. q = {q} /\ 1 .. n = 1 .. q - 1
  <2>1. Reader!TokenAt(at) # "NUL" /\ at \in Nat \ {0}
    BY <1>1, <1>3, TokenNames
  <2>2. at \in 1 .. Len(s) /\ s[at] = Reader!TokenAt(at)
    BY <1>3, <2>1, TokenIs
  <2> QED
    BY <1>3, <1>4, <2>2
<1>6. PICK token, depth : token = s[q] /\ depth = Len(calls) /\ depth \in Nat
  BY <1>3
<1>7. PICK next : next = Expecting(st, "separator")
  OBVIOUS
<1>8. /\ Run(s)[q] = next /\ ScalarRead(Run(s), s, q)
      /\ next.open = st.open /\ next.expects = "separator"
  <2>1. TokenReads(Run(s)[q - 1], next, s[q], q)
    BY <1>1, <1>3, <1>5, <1>7 DEF TokenReads
  <2>2. Run(s)[q] = next
    BY <1>3, <1>5, <2>1, TokenRead
  <2>3. next.open = st.open /\ next.expects = "separator"
    BY <1>3, <1>7, ExpectingState DEF Expectation
  <2> QED
    BY <1>1, <1>3, <1>5, <1>7, <2>2, <2>3 DEF ScalarRead
<1>9. PICK v, grown : /\ v = Scalar(token, Payload(token, q))
                      /\ grown = Append(vals, v) /\ grown = values'
  BY <1>1, <1>3, <1>4, <1>5, <1>6
<1>10. /\ Len(grown) = Len(vals) + 1 /\ grown[Len(vals) + 1] = v
       /\ \A k \in 1 .. Len(vals) : grown[k] = vals[k]
  <2>1. PICK V : vals \in Seq(V)
    BY <1>3 DEF ReaderInv, ReaderFits, ReaderTypes
  <2>2. /\ Len(Append(vals, v)) = Len(vals) + 1
        /\ Append(vals, v)[Len(vals) + 1] = v
        /\ \A k \in 1 .. Len(vals) : Append(vals, v)[k] = vals[k]
    BY <2>1, Stacked
  <2>3. Append(vals, v) = grown
    BY <1>9
  <2> QED
    BY <2>2, <2>3
<1>11. PICK later : later = [k \in 1 .. q |-> IF k = q THEN v ELSE W[k]]
  OBVIOUS
<1>12. later[q] = v /\ \A k \in 1 .. n : later[k] = W[k]
  BY <1>3, <1>4, <1>11
<1>13. Onto(s, n, q)
  BY <1>3, <1>5, <1>8 DEF Onto, Depth
<1>14. ~KeyRead(Run(s), s, q) /\ ~CloserRead(Run(s), s, q)
  <2>1. ~KeyNext(st)
    BY <1>3 DEF KeyNext, ValueNext
  <2>2. token \notin Closing
    BY <1>1, <1>5, <1>6, TokenNames
  <2>3. ~CloserNext(st, token)
    <3>1. st.open # <<>> => Closer[Inner(st).kind] \in Closing
      BY <1>3, InnerFacts, TokenNames
    <3> QED
      BY <2>2, <3>1 DEF CloserNext
  <2> QED
    BY <1>3, <1>5, <1>6, <2>1, <2>3 DEF KeyRead, CloserRead
<1>15. ASSUME NEW new, PlacesFit(calls, new)
       PROVE  /\ SamePlaces(s, n, q, places, new, vals)
              /\ Placed(s, later, new, grown, q, q)
  <2>1. \A k \in 1 .. depth + 1 : new[k] = places[k]
    BY <1>3, <1>6, <1>15, PlacesAgree
  <2>2. SamePlaces(s, n, q, places, new, vals)
    BY <1>3, <1>6, <1>8, <2>1 DEF SamePlaces, Depth
  <2>3. Placed(s, later, new, grown, q, q)
    <3>1. CASE depth = 0
      <4>1. Len(vals) = 0
        BY <1>3, <1>6, <3>1 DEF PlacesFit
      <4>2. IsWhole(next)
        BY <1>3, <1>6, <1>8, <3>1, EmptySeq DEF IsWhole, IsState
      <4>3. Depth(s, q - 1) = 0
        BY <1>3, <1>5, <1>6, <3>1
      <4>4. Len(grown) >= 1 /\ grown[1] = later[q]
        BY <1>10, <1>12, <4>1
      <4> QED
        BY <1>8, <4>2, <4>3, <4>4 DEF Placed
    <3>2. CASE depth # 0
      <4>1. depth \in 1 .. Len(calls) /\ depth = Depth(s, q - 1)
        BY <1>3, <1>5, <1>6, <3>2
      <4>2. Host(s, q) = st.open[depth]
        BY <1>3, <1>5, <4>1, <3>2, HostFacts
      <4>3. /\ calls[depth] \in Calls /\ new[depth] \in Nat
            /\ Host(s, q).kind = calls[depth].kind
            /\ Host(s, q).index = calls[depth].count
        <5>1. new[depth] = places[depth] /\ places[depth] \in Nat
          BY <1>3, <1>6, <2>1, <4>1
        <5> QED
          BY <1>3, <4>1, <4>2, <5>1
      <4>4. Slot(s, new, q) = new[depth + 1] + 1
        BY <1>14, <1>15, <4>1, <4>3, SlotIs
      <4>5. new[depth + 1] = Len(vals)
        BY <1>3, <1>6, <2>1, <3>2
      <4>6. Depth(s, q) = depth /\ Run(s)[q].open[depth].at = Host(s, q).at
        BY <1>3, <1>6, <1>8, <4>2 DEF Depth
      <4>7. Ceiling(s, new, grown, q, depth) = Len(grown)
        BY <4>6, <1>6 DEF Ceiling
      <4>8. OnStack(s, later, new, grown, q, q)
        BY <1>3, <1>10, <1>12, <4>1, <4>4, <4>5, <4>7 DEF OnStack
      <4>9. HostOpen(s, q, q)
        BY <1>6, <4>1, <4>6 DEF HostOpen
      <4> QED
        BY <3>2, <4>1, <4>8, <4>9 DEF Placed
    <3> QED
      BY <3>1, <3>2
  <2> QED
    BY <2>2, <2>3
<1>16. DomFollows(s, q, calls, grown)
  <2>1. ~IsWhole(st)
    BY <1>3 DEF IsWhole, ValueNext
  <2>2. Agrees(calls, Run(s)[q])
    BY <1>3, <1>8 DEF Agrees
  <2>3. ASSUME NEW new, PlacesFit(calls, new)
        PROVE  /\ SamePlaces(s, n, q, places, new, vals)
               /\ \A k \in n + 1 .. q :
                    /\ ScalarRead(Run(s), s, k) \/ KeyRead(Run(s), s, k)
                         => later[k] = Scalar(s[k], Payload(s[k], k))
                    /\ ~CloserRead(Run(s), s, k)
                    /\ IsItem(s, k) /\ ~IsOpen(s, q, k)
                         => Placed(s, later, new, grown, q, k)
    BY <1>5, <1>6, <1>9, <1>12, <1>14, <1>15, <2>3
  <2>4. Len(grown) \in Nat /\ Len(vals) <= Len(grown)
    BY <1>3, <1>10
  <2> QED
    BY <1>2, <1>10, <1>12, <1>13, <2>1, <2>2, <2>3, <2>4, MoreFollows
<1>17. at' \in Nat \ {0} /\ q = at' - 1
  BY <1>1, <1>3, <1>4
<1>18. ReadsOn("return", next)
  BY <1>8 DEF ReadsOn
<1> QED
  BY <1>1, <1>3, <1>8, <1>9, <1>16, <1>17, <1>18 DEF FollowInv

LEMMA StartFollows ==
  ASSUME ReaderInv, FollowInv, NEW kind \in Container, Reader!StartContainer(kind)
  PROVE  FollowInv'
<1>1. PICK call : call = [kind |-> kind, count |-> 0]
  OBVIOUS
<1>2. /\ state = "value" /\ state' = "first" /\ at' = at + 1
      /\ Reader!TokenAt(at) = Opener[kind]
      /\ values' = Append(values, Empty(kind))
      /\ frames' = Append(frames, call) /\ text' = text
  BY <1>1, SameValues DEF Reader!StartContainer, Reader!Peek
<1>3. PICK s, n, st, calls, vals, places, W : Here(s, n, st, calls, vals, places, W)
  BY <1>2, StandsHere
<1>4. /\ s = text /\ Len(s) \in Nat /\ n \in Nat /\ n \in 0 .. Len(s)
      /\ at = n + 1 /\ calls = frames /\ vals = values /\ Len(vals) \in Nat
      /\ st = Run(s)[n] /\ IsState(st) /\ ValueNext(st) /\ calls \in Seq(Calls)
      /\ Len(calls) \in Nat /\ Len(st.open) = Len(calls) /\ Depth(s, n) = Len(calls)
      /\ \A m \in 1 .. Len(calls) :
           calls[m].kind = st.open[m].kind /\ calls[m].count = st.open[m].index
      /\ PlacesFit(calls, places) /\ Len(vals) = places[Len(calls) + 1]
      /\ \A m \in 1 .. Len(calls) + 1 : places[m] \in Nat
      /\ \A m \in 1 .. Len(calls) : places[m] + 1 <= Len(vals)
  BY <1>2, <1>3 DEF Here, ReadsOn, HeightFits
<1>5. PICK q : q = n + 1
  OBVIOUS
<1>6. /\ q \in 1 .. Len(s) /\ q \in n .. Len(s) /\ s[q] = Opener[kind]
      /\ q - 1 = n /\ n + 1 .. q = {q} /\ 1 .. n = 1 .. q - 1
      /\ q \in Nat \ {0} /\ q \notin 1 .. n
  <2>1. Reader!TokenAt(at) # "NUL" /\ at \in Nat \ {0}
    BY <1>2, <1>4, TokenNames
  <2>2. at \in 1 .. Len(s) /\ s[at] = Opener[kind]
    BY <1>2, <1>4, <2>1, TokenIs
  <2> QED
    BY <1>4, <1>5, <2>2
<1>7. PICK token, depth : token = s[q] /\ depth = Len(calls) /\ depth \in Nat
  BY <1>4
<1>8. PICK next : next = Deeper(st, kind, q)
  OBVIOUS
<1>9. /\ Run(s)[q] = next /\ next.expects = "first"
      /\ Len(next.open) = depth + 1
      /\ \A m \in 1 .. depth : next.open[m] = st.open[m]
      /\ next.open[depth + 1] = [at |-> q, kind |-> kind, index |-> 0]
  <2>1. TokenReads(Run(s)[q - 1], next, s[q], q)
    BY <1>4, <1>6, <1>8 DEF TokenReads
  <2>2. Run(s)[q] = next
    BY <1>4, <1>6, <2>1, TokenRead
  <2>3. /\ Deeper(st, kind, q).expects = "first"
        /\ Len(Deeper(st, kind, q).open) = Len(st.open) + 1
        /\ \A m \in 1 .. Len(st.open) : Deeper(st, kind, q).open[m] = st.open[m]
        /\ Deeper(st, kind, q).open[Len(st.open) + 1] =
             [at |-> q, kind |-> kind, index |-> 0]
    <3>1. IsState(st) /\ q \in Nat \ {0}
      BY <1>4, <1>6
    <3> QED
      BY <3>1, DeeperState
  <2>4. Len(st.open) = depth
    BY <1>4, <1>7
  <2> QED
    BY <1>8, <2>2, <2>3, <2>4
<1>10. PICK v, grown : v = Empty(kind) /\ grown = Append(vals, v) /\ grown = values'
  BY <1>2, <1>4
<1>11. /\ Len(grown) = Len(vals) + 1
       /\ \A k \in 1 .. Len(vals) : grown[k] = vals[k]
  <2>1. PICK V : vals \in Seq(V)
    BY <1>4 DEF ReaderInv, ReaderFits, ReaderTypes
  <2>2. /\ Len(Append(vals, v)) = Len(vals) + 1
        /\ \A k \in 1 .. Len(vals) : Append(vals, v)[k] = vals[k]
    BY <2>1, Stacked
  <2>3. Append(vals, v) = grown
    BY <1>10
  <2> QED
    BY <2>2, <2>3
<1>12. PICK other : other = Append(calls, call) /\ other = frames'
  BY <1>2, <1>4
<1>13. /\ Len(other) = depth + 1 /\ other[depth + 1] = call
       /\ \A k \in 1 .. depth : other[k] = calls[k]
  <2>1. /\ Len(Append(calls, call)) = Len(calls) + 1
        /\ Append(calls, call)[Len(calls) + 1] = call
        /\ \A k \in 1 .. Len(calls) : Append(calls, call)[k] = calls[k]
    BY <1>4, Stacked
  <2> QED
    BY <1>7, <1>12, <2>1
<1>14. Onto(s, n, q)
  <2>1. \A m \in depth + 1 .. depth + 1 : next.open[m].at = q
    BY <1>9
  <2> QED
    BY <1>4, <1>6, <1>7, <1>9, <2>1 DEF Onto, Depth
<1>15. IsOpen(s, q, q)
  <2>1. depth + 1 \in 1 .. depth + 1
    BY <1>7
  <2>2. next.open[depth + 1].at = q
    BY <1>9
  <2> QED
    BY <1>9, <2>1, <2>2 DEF IsOpen, Depth
<1>16. ~ScalarRead(Run(s), s, q) /\ ~KeyRead(Run(s), s, q) /\ ~CloserRead(Run(s), s, q)
  <2>1. token \notin Closing /\ token \notin ScalarKind /\ token # "string"
    BY <1>6, <1>7, TokenNames
  <2>2. ~CloserNext(st, token)
    <3>1. st.open # <<>> => Closer[Inner(st).kind] \in Closing
      BY <1>4, InnerFacts, TokenNames
    <3> QED
      BY <2>1, <3>1 DEF CloserNext
  <2> QED
    BY <1>4, <1>6, <1>7, <2>1, <2>2 DEF KeyRead, CloserRead, ScalarRead
<1>17. ASSUME NEW new, PlacesFit(other, new)
       PROVE  SamePlaces(s, n, q, places, new, vals)
  <2>1. \A k \in 1 .. depth + 1 : new[k] = places[k]
    <3>1. PlacesFit(calls, places) /\ depth <= Len(calls) /\ depth <= Len(other)
      BY <1>4, <1>7, <1>13
    <3> QED
      BY <1>7, <1>13, <1>17, <3>1, PlacesAgree
  <2>2. new[depth + 1] = Len(vals)
    BY <1>4, <1>7, <2>1
  <2>3. ASSUME NEW m \in 1 .. depth
        PROVE  places[m] \in Nat /\ places[m] <= Len(vals) /\ new[m] = places[m]
    <3>1. m \in 1 .. depth + 1
      BY <1>7
    <3>2. places[m] \in Nat /\ places[m] + 1 <= Len(vals)
      BY <1>4, <1>7, <3>1
    <3> QED
      BY <1>4, <2>1, <3>1, <3>2
  <2> QED
    BY <1>4, <1>7, <1>9, <2>2, <2>3 DEF SamePlaces, Depth
<1>18. DomFollows(s, q, other, grown)
  <2>1. ~IsWhole(st)
    BY <1>4 DEF IsWhole, ValueNext
  <2>2. Agrees(other, Run(s)[q])
    <3>1. ASSUME NEW m \in 1 .. depth + 1
          PROVE  /\ other[m].kind = next.open[m].kind
                 /\ other[m].count = next.open[m].index
      <4>1. CASE m = depth + 1
        BY <1>1, <1>9, <1>13, <4>1
      <4>2. CASE m # depth + 1
        <5>1. m \in 1 .. depth /\ m \in 1 .. Len(calls)
          BY <1>7, <4>2
        <5> QED
          BY <1>4, <1>9, <1>13, <5>1
      <4> QED
        BY <4>1, <4>2
    <3> QED
      BY <1>9, <1>13, <3>1 DEF Agrees
  <2>3. Len(grown) \in Nat /\ Len(vals) <= Len(grown)
    BY <1>4, <1>11
  <2>4. ASSUME NEW new, PlacesFit(other, new)
        PROVE  /\ SamePlaces(s, n, q, places, new, vals)
               /\ \A k \in n + 1 .. q :
                    /\ ScalarRead(Run(s), s, k) \/ KeyRead(Run(s), s, k)
                         => W[k] = Scalar(s[k], Payload(s[k], k))
                    /\ ~CloserRead(Run(s), s, k)
                    /\ IsItem(s, k) /\ ~IsOpen(s, q, k)
                         => Placed(s, W, new, grown, q, k)
    BY <1>6, <1>15, <1>16, <1>17, <2>4
  <2>5. \A k \in 1 .. n : W[k] = W[k]
    OBVIOUS
  <2> QED
    BY <1>3, <1>11, <1>14, <2>1, <2>2, <2>3, <2>4, <2>5, MoreFollows
<1>19. at' \in Nat \ {0} /\ q = at' - 1
  BY <1>2, <1>4, <1>5
<1>20. ReadsOn("first", next)
  BY <1>9 DEF ReadsOn
<1> QED
  BY <1>2, <1>4, <1>9, <1>10, <1>12, <1>18, <1>19, <1>20 DEF FollowInv

LEMMA KeyFollows ==
  ASSUME ReaderInv, FollowInv, Reader!Key
  PROVE  FollowInv'
<1>1. /\ state = "key" /\ state' = "value" /\ at' = at + 2
      /\ Reader!TokenAt(at) = "string" /\ Reader!TokenAt(at + 1) = "colon"
      /\ values' = Append(values, Scalar("string", Payload("string", at)))
      /\ text' = text /\ frames' = frames
  BY SameValues DEF Reader!Key, Reader!Peek
<1>2. PICK s, n, st, calls, vals, places, W : Here(s, n, st, calls, vals, places, W)
  BY <1>1, StandsHere
<1>3. /\ s = text /\ Len(s) \in Nat /\ n \in Nat /\ n \in 0 .. Len(s)
      /\ at = n + 1 /\ calls = frames /\ vals = values /\ Len(vals) \in Nat
      /\ st = Run(s)[n] /\ IsState(st) /\ KeyNext(st)
      /\ Len(calls) \in Nat \ {0} /\ Len(st.open) = Len(calls)
      /\ Depth(s, n) = Len(calls)
      /\ \A m \in 1 .. Len(calls) :
           /\ calls[m] \in Calls
           /\ calls[m].kind = st.open[m].kind /\ calls[m].count = st.open[m].index
      /\ PlacesFit(calls, places) /\ Len(vals) + 1 = places[Len(calls) + 1]
      /\ \A m \in 1 .. Len(calls) + 1 : places[m] \in Nat
      /\ \A m \in 1 .. Len(calls) : places[m] + 1 <= Len(vals)
  BY <1>1, <1>2 DEF Here, ReadsOn, HeightFits
<1>4. PICK q, more : q = n + 1 /\ more = n + 2
  OBVIOUS
<1>5. /\ q \in 1 .. Len(s) /\ s[q] = "string" /\ q - 1 = n
      /\ more \in 1 .. Len(s) /\ more \in n .. Len(s) /\ s[more] = "colon"
      /\ more - 1 = q /\ n + 1 .. more = {q, more} /\ 1 .. n = 1 .. q - 1
      /\ q # more /\ more # 1
  <2>1. at \in Nat \ {0} /\ at + 1 \in Nat \ {0}
    BY <1>3
  <2>2. at \in 1 .. Len(s) /\ s[at] = "string"
    BY <1>1, <1>3, <2>1, TokenIs
  <2>3. at + 1 \in 1 .. Len(s) /\ s[at + 1] = "colon"
    BY <1>1, <1>3, <2>1, TokenIs
  <2>4. n + 1 .. n + 2 = {n + 1, n + 2} /\ (n + 2) - 1 = n + 1 /\ (n + 1) - 1 = n
        /\ n + 1 # n + 2 /\ n + 2 # 1 /\ n + 2 >= n /\ 1 .. n = 1 .. (n + 1) - 1
    <3>1. n \in Nat
      BY <1>3
    <3>2. \A k : k \in n + 1 .. n + 2 <=> k \in {n + 1, n + 2}
      BY <3>1
    <3> QED
      BY <3>1, <3>2
  <2>5. at = q /\ at + 1 = more
    BY <1>3, <1>4
  <2>6. more \in n .. Len(s)
    BY <1>3, <1>4, <2>3, <2>5
  <2> QED
    BY <1>4, <2>2, <2>3, <2>4, <2>5, <2>6
<1>6. PICK depth : depth = Len(calls) /\ depth \in Nat \ {0}
  BY <1>3
<1>7. PICK mid, next : mid = Expecting(st, "colon") /\ next = Expecting(mid, "value")
  OBVIOUS
<1>8. /\ IsState(mid) /\ mid.expects = "colon" /\ mid.open = st.open
      /\ next.expects = "value" /\ next.open = st.open
      /\ Inner(mid).kind = "object" /\ mid.open # <<>>
  <2>1. st.open # <<>> /\ Inner(st).kind = "object"
    BY <1>3 DEF IsState, KeyNext
  <2>2. /\ IsState(mid) /\ mid.expects = "colon" /\ mid.open = st.open
        /\ Inner(mid) = Inner(st)
    BY <1>3, <1>7, <2>1, ExpectingState DEF Expectation
  <2>3. next.expects = "value" /\ next.open = mid.open
    BY <1>7, <2>2, ExpectingState DEF Expectation
  <2> QED
    BY <2>1, <2>2, <2>3
<1>9. Run(s)[q] = mid /\ KeyRead(Run(s), s, q)
  <2>1. TokenReads(Run(s)[q - 1], mid, s[q], q)
    BY <1>3, <1>5, <1>7 DEF TokenReads
  <2>2. Run(s)[q] = mid
    BY <1>3, <1>5, <2>1, TokenRead
  <2> QED
    BY <1>3, <1>5, <1>7, <2>2 DEF KeyRead
<1>10. Run(s)[more] = next
  <2>1. TokenReads(Run(s)[more - 1], next, s[more], more)
    BY <1>5, <1>7, <1>8, <1>9 DEF TokenReads
  <2> QED
    BY <1>3, <1>5, <2>1, TokenRead
<1>11. PICK v, grown : /\ v = Scalar("string", Payload("string", q))
                       /\ grown = Append(vals, v) /\ grown = values'
  BY <1>1, <1>3, <1>4
<1>12. /\ Len(grown) = Len(vals) + 1 /\ grown[Len(vals) + 1] = v
       /\ \A k \in 1 .. Len(vals) : grown[k] = vals[k]
  <2>1. PICK V : vals \in Seq(V)
    BY <1>3 DEF ReaderInv, ReaderFits, ReaderTypes
  <2>2. /\ Len(Append(vals, v)) = Len(vals) + 1
        /\ Append(vals, v)[Len(vals) + 1] = v
        /\ \A k \in 1 .. Len(vals) : Append(vals, v)[k] = vals[k]
    BY <2>1, Stacked
  <2>3. Append(vals, v) = grown
    BY <1>11
  <2> QED
    BY <2>2, <2>3
<1>13. PICK later : later = [k \in 1 .. q |-> IF k = q THEN v ELSE W[k]]
  OBVIOUS
<1>14. later[q] = v /\ \A k \in 1 .. n : later[k] = W[k]
  BY <1>3, <1>4, <1>13
<1>15. Onto(s, n, more)
  <2>1. Run(s)[n].open = Run(s)[more].open /\ Depth(s, more) = Depth(s, n)
    BY <1>3, <1>8, <1>10 DEF Depth
  <2>2. \A m \in Depth(s, n) + 1 .. Depth(s, n) : FALSE
    BY <1>3
  <2> QED
    BY <1>3, <1>5, <2>1, <2>2 DEF Onto
<1>16. /\ ~CloserRead(Run(s), s, q) /\ ~CloserRead(Run(s), s, more)
       /\ ~IsItem(s, more) /\ ~ScalarRead(Run(s), s, more)
       /\ ~KeyRead(Run(s), s, more)
  <2>1. ~CloserRead(Run(s), s, q)
    <3>1. Closer[Inner(st).kind] \in Closing /\ "string" \notin Closing
      BY <1>3, <1>8, InnerFacts, TokenNames
    <3> QED
      BY <1>3, <1>5, <3>1 DEF CloserRead, CloserNext
  <2>2. ~ValueNext(mid) /\ ~KeyNext(mid)
    BY <1>8 DEF ValueNext, KeyNext
  <2> QED
    BY <1>5, <1>8, <1>9, <2>1, <2>2
      DEF CloserRead, CloserNext, IsItem, ScalarRead, BracketRead, KeyRead
<1>17. ASSUME NEW new, PlacesFit(calls, new)
       PROVE  /\ SamePlaces(s, n, more, places, new, vals)
              /\ Placed(s, later, new, grown, more, q)
  <2>1. \A k \in 1 .. depth + 1 : new[k] = places[k]
    BY <1>3, <1>6, <1>17, PlacesAgree
  <2>2. SamePlaces(s, n, more, places, new, vals)
    BY <1>3, <1>6, <1>8, <1>10, <2>1 DEF SamePlaces, Depth
  <2>3. Placed(s, later, new, grown, more, q)
      <4>1. depth \in 1 .. Len(calls) /\ depth = Depth(s, q - 1)
        BY <1>3, <1>5, <1>6
      <4>2. Host(s, q) = st.open[depth]
        <5>1. Depth(s, q - 1) # 0 /\ q \in 1 .. Len(s)
          BY <1>5, <1>6, <4>1
        <5>2. Host(s, q) = Run(s)[q - 1].open[Depth(s, q - 1)]
          BY <1>3, <5>1, HostFacts
        <5> QED
          BY <1>3, <1>5, <4>1, <5>2
      <4>3. /\ calls[depth] \in Calls /\ new[depth] \in Nat
            /\ Host(s, q).kind = calls[depth].kind
            /\ Host(s, q).index = calls[depth].count
        <5>1. new[depth] = places[depth] /\ places[depth] \in Nat
          BY <1>3, <1>6, <2>1, <4>1
        <5> QED
          BY <1>3, <4>1, <4>2, <5>1
      <4>4. calls[depth].kind = "object"
        <5>1. Host(s, q) = Inner(st)
          BY <1>3, <1>5 DEF Host
        <5>2. Inner(st).kind = "object"
          BY <1>3 DEF IsState, KeyNext
        <5> QED
          BY <4>3, <5>1, <5>2
      <4>5. Slot(s, new, q) = new[depth + 1]
        BY <1>9, <1>17, <4>1, <4>3, <4>4, SlotIs
      <4>6. new[depth + 1] = Len(vals) + 1
        BY <1>3, <1>6, <2>1
      <4>7. Depth(s, more) = depth /\ Run(s)[more].open[depth].at = Host(s, q).at
        BY <1>3, <1>6, <1>8, <1>10, <4>2 DEF Depth
      <4>8. Ceiling(s, new, grown, more, depth) = Len(grown)
        BY <4>7, <1>6 DEF Ceiling
      <4>9. OnStack(s, later, new, grown, more, q)
        BY <1>3, <1>12, <1>14, <4>1, <4>5, <4>6, <4>8 DEF OnStack
      <4>10. HostOpen(s, more, q)
        BY <1>6, <4>1, <4>7 DEF HostOpen
      <4> QED
        BY <1>6, <4>1, <4>9, <4>10 DEF Placed
  <2> QED
    BY <2>2, <2>3
<1>18. DomFollows(s, more, calls, grown)
  <2>1. ~IsWhole(st)
    BY <1>3 DEF IsWhole, KeyNext
  <2>2. Agrees(calls, Run(s)[more])
    BY <1>3, <1>8, <1>10 DEF Agrees
  <2>3. ASSUME NEW new, PlacesFit(calls, new)
        PROVE  /\ SamePlaces(s, n, more, places, new, vals)
               /\ \A k \in n + 1 .. more :
                    /\ ScalarRead(Run(s), s, k) \/ KeyRead(Run(s), s, k)
                         => later[k] = Scalar(s[k], Payload(s[k], k))
                    /\ ~CloserRead(Run(s), s, k)
                    /\ IsItem(s, k) /\ ~IsOpen(s, more, k)
                         => Placed(s, later, new, grown, more, k)
    BY <1>5, <1>11, <1>14, <1>16, <1>17, <2>3
  <2>4. Len(grown) \in Nat /\ Len(vals) <= Len(grown)
    BY <1>3, <1>12
  <2> QED
    BY <1>2, <1>12, <1>14, <1>15, <2>1, <2>2, <2>3, <2>4, MoreFollows
<1>19. at' \in Nat \ {0} /\ more = at' - 1
  BY <1>1, <1>3, <1>4
<1>20. ReadsOn("value", next)
  BY <1>8 DEF ReadsOn, ValueNext
<1> QED
  BY <1>1, <1>3, <1>10, <1>11, <1>18, <1>19, <1>20 DEF FollowInv

LEMMA CommaFollows ==
  ASSUME ReaderInv, FollowInv, Reader!Comma
  PROVE  FollowInv'
<1>1. /\ state = "return" /\ frames # <<>> /\ at' = at + 1
      /\ Reader!TokenAt(at) = "comma"
      /\ frames' = Append(Front(frames), Reader!Counted(Reader!Frame))
      /\ state' = IF Reader!Frame.kind = "object" THEN "key" ELSE "value"
      /\ text' = text /\ values' = values
  BY SameWords DEF Reader!Comma, Reader!Peek, Reader!NextPart
<1>2. PICK s, n, st, calls, vals, places, W : Here(s, n, st, calls, vals, places, W)
  BY <1>1, StandsHere
<1>3. /\ s = text /\ Len(s) \in Nat /\ n \in Nat /\ n \in 0 .. Len(s)
      /\ at = n + 1 /\ calls = frames /\ vals = values /\ Len(vals) \in Nat
      /\ st = Run(s)[n] /\ IsState(st) /\ st.expects = "separator"
      /\ calls \in Seq(Calls)
      /\ Len(calls) \in Nat /\ Len(st.open) = Len(calls) /\ Depth(s, n) = Len(calls)
      /\ \A m \in 1 .. Len(calls) :
           /\ calls[m] \in Calls
           /\ calls[m].kind = st.open[m].kind /\ calls[m].count = st.open[m].index
      /\ PlacesFit(calls, places)
      /\ \A m \in 1 .. Len(calls) + 1 : places[m] \in Nat
      /\ \A m \in 1 .. Len(calls) : places[m] + 1 <= Len(vals)
  BY <1>1, <1>2 DEF Here, ReadsOn
<1>4. PICK q : q = n + 1
  OBVIOUS
<1>5. /\ q \in 1 .. Len(s) /\ q \in n .. Len(s) /\ s[q] = "comma"
      /\ q - 1 = n /\ n + 1 .. q = {q} /\ 1 .. n = 1 .. q - 1
  <2>1. Reader!TokenAt(at) # "NUL" /\ at \in Nat \ {0}
    BY <1>1, <1>3
  <2>2. at \in 1 .. Len(s) /\ s[at] = "comma"
    BY <1>1, <1>3, <2>1, TokenIs
  <2> QED
    BY <1>3, <1>4, <2>2
<1>6. PICK depth : depth = Len(calls) /\ depth \in Nat \ {0}
  BY <1>1, <1>3, EmptySeq
<1>7. PICK next : next = Onward(st)
  OBVIOUS
<1>8. st.open # <<>>
  BY <1>3, <1>6
<1>9. /\ next.expects = IF Inner(st).kind = "object" THEN "key" ELSE "value"
      /\ Len(next.open) = depth
      /\ \A m \in 1 .. depth - 1 : next.open[m] = st.open[m]
      /\ next.open[depth].at = st.open[depth].at
      /\ next.open[depth].kind = st.open[depth].kind
      /\ next.open[depth].index = st.open[depth].index + 1
      /\ Inner(st) = st.open[depth] /\ Inner(st).kind \in Container
  <2>1. Len(st.open) = depth
    BY <1>3, <1>6
  <2>2. IsState(st)
    BY <1>3
  <2>3. Inner(st) = st.open[depth] /\ Inner(st).kind \in Container
    BY <1>8, <2>1, <2>2, InnerFacts
  <2>4. /\ Onward(st).expects = IF Inner(st).kind = "object" THEN "key" ELSE "value"
        /\ Len(Onward(st).open) = Len(st.open)
        /\ \A m \in 1 .. Len(st.open) - 1 : Onward(st).open[m] = st.open[m]
        /\ Inner(Onward(st)).at = Inner(st).at
        /\ Inner(Onward(st)).kind = Inner(st).kind
        /\ Inner(Onward(st)).index = Inner(st).index + 1
        /\ Onward(st).open[Len(st.open)] = Inner(Onward(st))
    BY <1>8, <2>2, OnwardState
  <2> QED
    BY <1>7, <2>1, <2>3, <2>4
<1>10. Run(s)[q] = next
  <2>1. TokenReads(Run(s)[q - 1], next, s[q], q)
    BY <1>3, <1>5, <1>7, <1>8 DEF TokenReads, CommaNext
  <2> QED
    BY <1>3, <1>5, <2>1, TokenRead
<1>11. Reader!Frame = calls[depth] /\ calls[depth] \in Calls
  BY <1>3, <1>6, SameWords DEF Reader!Frame, Last
<1>12. PICK call : call = Reader!Counted(calls[depth])
  OBVIOUS
<1>13. call \in Calls /\ call.kind = calls[depth].kind /\ call.count = calls[depth].count + 1
  BY <1>11, <1>12 DEF Reader!Counted, Calls
<1>14. PICK other : other = Append(Front(calls), call) /\ other = frames'
  BY <1>1, <1>3, <1>11, <1>12
<1>15. /\ Len(other) = depth /\ other[depth] = call
       /\ \A k \in 1 .. depth - 1 : other[k] = calls[k]
  <2>1. calls \in Seq(Calls) /\ calls # <<>>
    BY <1>1, <1>3
  <2>2. /\ Len(Append(Front(calls), call)) = Len(calls)
        /\ \A k \in 1 .. Len(calls) - 1 : Append(Front(calls), call)[k] = calls[k]
        /\ Append(Front(calls), call)[Len(calls)] = call
    BY <1>13, <2>1, ReplaceTop
  <2> QED
    BY <1>6, <1>14, <2>2
<1>16. Onto(s, n, q)
  <2>1. \A m \in 1 .. depth : next.open[m].at = st.open[m].at
    <3> SUFFICES ASSUME NEW m \in 1 .. depth
                 PROVE  next.open[m].at = st.open[m].at
      OBVIOUS
    <3>1. CASE m = depth
      BY <1>9, <3>1
    <3>2. CASE m # depth
      <4>1. m \in 1 .. depth - 1
        BY <1>6, <3>2
      <4> QED
        BY <1>9, <4>1
    <3> QED
      BY <3>1, <3>2
  <2> QED
    BY <1>3, <1>5, <1>6, <1>9, <1>10, <2>1 DEF Onto, Depth
<1>17. /\ ~IsItem(s, q) /\ ~ScalarRead(Run(s), s, q)
       /\ ~KeyRead(Run(s), s, q) /\ ~CloserRead(Run(s), s, q)
  <2>1. ~ValueNext(st) /\ ~KeyNext(st)
    BY <1>3 DEF ValueNext, KeyNext
  <2>2. Closer[Inner(st).kind] # "comma"
    BY <1>9, TokenNames
  <2> QED
    BY <1>3, <1>5, <2>1, <2>2
      DEF CloserRead, CloserNext, IsItem, ScalarRead, BracketRead, KeyRead
<1>18. ASSUME NEW new, PlacesFit(other, new)
       PROVE  SamePlaces(s, n, q, places, new, vals)
  <2>1. \A k \in 1 .. depth : new[k] = places[k]
    <3>1. PICK less \in Nat : less = depth - 1
      BY <1>6
    <3>2. /\ PlacesFit(calls, places) /\ less <= Len(calls) /\ less <= Len(other)
          /\ \A k \in 1 .. less : other[k] = calls[k]
      BY <1>3, <1>6, <1>15, <3>1
    <3>3. \A k \in 1 .. less + 1 : new[k] = places[k]
      BY <1>18, <3>2, PlacesAgree
    <3> QED
      BY <1>6, <3>1, <3>3
  <2>2. ASSUME NEW m \in 1 .. depth
        PROVE  places[m] \in Nat /\ places[m] <= Len(vals) /\ new[m] = places[m]
    <3>1. m \in 1 .. Len(calls) + 1 /\ m \in 1 .. Len(calls)
      BY <1>6
    <3>2. places[m] \in Nat /\ places[m] + 1 <= Len(vals)
      BY <1>3, <3>1
    <3> QED
      BY <1>3, <2>1, <3>2
  <2> QED
    BY <1>3, <1>6, <1>9, <1>10, <2>2 DEF SamePlaces, Depth
<1>19. DomFollows(s, q, other, vals)
  <2>1. ~IsWhole(st)
    BY <1>8 DEF IsWhole
  <2>2. Agrees(other, Run(s)[q])
    <3>1. ASSUME NEW m \in 1 .. depth
          PROVE  /\ other[m].kind = next.open[m].kind
                 /\ other[m].count = next.open[m].index
      <4>1. m \in 1 .. Len(calls)
        BY <1>6
      <4>2. CASE m = depth
        BY <1>3, <1>9, <1>13, <1>15, <4>1, <4>2
      <4>3. CASE m # depth
        <5>1. m \in 1 .. depth - 1
          BY <1>6, <4>3
        <5>2. other[m] = calls[m] /\ next.open[m] = st.open[m]
          BY <1>9, <1>15, <5>1
        <5>3. calls[m].kind = st.open[m].kind /\ calls[m].count = st.open[m].index
          BY <1>3, <4>1
        <5> QED
          BY <5>2, <5>3, Zenon
      <4> QED
        BY <4>2, <4>3
    <3> QED
      BY <1>9, <1>10, <1>15, <3>1 DEF Agrees
  <2>3. ASSUME NEW new, PlacesFit(other, new)
        PROVE  /\ SamePlaces(s, n, q, places, new, vals)
               /\ \A k \in n + 1 .. q :
                    /\ ScalarRead(Run(s), s, k) \/ KeyRead(Run(s), s, k)
                         => W[k] = Scalar(s[k], Payload(s[k], k))
                    /\ ~CloserRead(Run(s), s, k)
                    /\ IsItem(s, k) /\ ~IsOpen(s, q, k)
                         => Placed(s, W, new, vals, q, k)
    BY <1>5, <1>17, <1>18, <2>3
  <2>4. /\ Len(vals) <= Len(vals) /\ Len(vals) \in Nat
        /\ \A k \in 1 .. n : W[k] = W[k]
        /\ \A k \in 1 .. Len(vals) : vals[k] = vals[k]
    BY <1>3
  <2> QED
    BY <1>2, <1>16, <2>1, <2>2, <2>3, <2>4, MoreFollows
<1>20. at' \in Nat \ {0} /\ q = at' - 1
  BY <1>1, <1>3, <1>4
<1>21. ReadsOn(state', next)
  <2>1. calls[depth].kind = Inner(st).kind
    BY <1>3, <1>6, <1>9
  <2>2. state' = next.expects
    BY <1>1, <1>9, <1>11, <2>1
  <2> QED
    BY <1>9, <2>2 DEF ReadsOn, ValueNext, KeyNext
<1> QED
  BY <1>1, <1>3, <1>10, <1>14, <1>19, <1>20, <1>21 DEF FollowInv

-----------------------------------------------------------------------------
(***************************************************************************)
(* A container is closed: what is folded into it was above it.             *)
(***************************************************************************)

\* The token q, after n others, closes the innermost container, of depth
\* "depth", that starts at o.
Folding(s, n, q, o, depth, calls, places, new) ==
  /\ Len(s) \in Nat /\ n \in 0 .. Len(s) /\ n \in Nat /\ q = n + 1 /\ q \in 1 .. Len(s)
  /\ q - 1 = n /\ CloserRead(Run(s), s, q)
  /\ depth \in Nat \ {0} /\ Depth(s, n) = depth /\ Len(calls) = depth
  /\ Depth(s, q) = depth - 1
  /\ \A m \in 1 .. depth - 1 : Run(s)[q].open[m] = Run(s)[n].open[m]
  /\ o = Run(s)[n].open[depth].at /\ Inner(Run(s)[n]) = Run(s)[n].open[depth]
  /\ WasOpened(Run(s), s, n, depth, o)
  /\ \A m \in 1 .. depth :
       /\ calls[m] \in Calls
       /\ calls[m].kind = Run(s)[n].open[m].kind
       /\ calls[m].count = Run(s)[n].open[m].index
  /\ PlacesFit(calls, places)
  /\ \A m \in 1 .. depth : places[m] \in Nat /\ new[m] = places[m]

Folded(s, n, q, o, depth, vals, folded, places, base, count, filled, W, later) ==
  /\ base \in Nat /\ count \in Nat /\ base = places[depth]
  /\ count = CountAt(Run(s)[n])
  /\ Len(vals) = base + 1 + IF filled.kind = "object" THEN 2 * count ELSE count
  /\ Len(folded) = base + 1 /\ folded[base + 1] = filled
  /\ \A k \in 1 .. base : folded[k] = vals[k]
  /\ filled.kind = Run(s)[n].open[depth].kind /\ Len(filled.elements) = count
  /\ \A k \in 1 .. count :
       filled.elements[k] = vals[base + 1 + IF filled.kind = "object" THEN 2 * k ELSE k]
  /\ filled.kind = "object" =>
       \A k \in 1 .. count : filled.keys[k] = vals[base + 2 * k].payload
  /\ later[o] = filled /\ \A k \in 1 .. q : k # o => later[k] = W[k]

\* An item in the container itself.
LEMMA InnerStored ==
  ASSUME NEW s, NEW n, NEW q, NEW o, NEW depth, NEW calls, NEW places, NEW new,
         NEW vals, NEW folded, NEW base, NEW count, NEW filled, NEW W, NEW later,
         Folding(s, n, q, o, depth, calls, places, new),
         Folded(s, n, q, o, depth, vals, folded, places, base, count, filled, W, later),
         NEW v \in 1 .. n, v # o, Depth(s, v - 1) = depth, Host(s, v).at = o,
         OnStack(s, W, places, vals, n, v)
  PROVE  Stored(s, later, v)
<1>1. /\ Len(s) \in Nat /\ n \in 0 .. Len(s) /\ n \in Nat /\ q = n + 1
      /\ depth \in Nat \ {0} /\ Depth(s, n) = depth
      /\ WasOpened(Run(s), s, n, depth, o)
  BY DEF Folding
<1>2. /\ base \in Nat /\ count \in Nat /\ base = places[depth]
      /\ Len(vals) = base + 1 + IF filled.kind = "object" THEN 2 * count ELSE count
      /\ filled.kind = Run(s)[n].open[depth].kind /\ Len(filled.elements) = count
      /\ \A k \in 1 .. count :
           filled.elements[k] =
             vals[base + 1 + IF filled.kind = "object" THEN 2 * k ELSE k]
      /\ filled.kind = "object" =>
           \A k \in 1 .. count : filled.keys[k] = vals[base + 2 * k].payload
      /\ later[o] = filled /\ \A k \in 1 .. q : k # o => later[k] = W[k]
  BY DEF Folded
<1>3. v \in 1 .. Len(s) /\ v \in 1 .. q /\ later[v] = W[v]
  BY <1>1, <1>2
<1>4. /\ Host(s, v).index \in Nat /\ o \in 1 .. v - 1
      /\ Host(s, v) = Run(s)[v - 1].open[depth]
  BY <1>1, <1>3, HostFacts
<1>5. PICK index \in Nat : index = Host(s, v).index
  BY <1>4
<1>6. Host(s, v).kind = filled.kind
  <2>1. v - 1 \in o .. n
    BY <1>1, <1>4
  <2>2. WasOpen(Run(s), n, depth, v - 1)
    BY <1>1, <2>1 DEF WasOpened
  <2> QED
    BY <1>2, <1>4, <2>2 DEF WasOpen
<1>7. PICK slot : slot = Slot(s, places, v)
  OBVIOUS
<1>8. slot \in 1 .. Len(vals) /\ vals[slot] = W[v]
  BY <1>1, <1>7 DEF OnStack, Ceiling
<1>9. base \in Nat /\ count \in Nat /\ index \in Nat
  BY <1>2
<1>10. CASE KeyRead(Run(s), s, v)
  <2>1. filled.kind = "object"
    <3>1. PICK st : st = Run(s)[v - 1]
      OBVIOUS
    <3>2. IsState(st) /\ KeyNext(st)
      <4>1. v - 1 \in 0 .. Len(s)
        BY <1>3
      <4> QED
        BY <1>1, <1>10, <3>1, <4>1, RunStates DEF KeyRead
    <3>3. Inner(st).kind = "object"
      BY <3>2 DEF IsState, KeyNext
    <3> QED
      BY <1>6, <3>1, <3>3 DEF Host
  <2>2. slot = base + 2 * index + 2
    BY <1>1, <1>2, <1>5, <1>7, <1>10 DEF Slot
  <2>3. index < count /\ index + 1 \in 1 .. count
    <3>1. Len(vals) = base + 1 + 2 * count
      BY <1>2, <2>1
    <3>2. base + 2 * index + 2 <= base + 1 + 2 * count
      BY <1>8, <2>2, <3>1
    <3> QED
      BY <1>9, <3>2
  <2>4. filled.keys[index + 1] = vals[base + 2 * (index + 1)].payload
    BY <1>2, <2>1, <2>3
  <2>5. base + 2 * (index + 1) = slot
    BY <1>9, <2>2
  <2>6. filled.keys[index + 1] = later[v].payload
    BY <1>3, <1>8, <2>4, <2>5, Zenon
  <2>7. index < Len(filled.elements) /\ later[Host(s, v).at] = filled
    BY <1>2, <2>3
  <2> QED
    BY <1>5, <1>10, <2>6, <2>7, Zenon DEF Stored
<1>11. CASE ~KeyRead(Run(s), s, v) /\ filled.kind = "object"
  <2>1. slot = base + 2 * index + 3
    BY <1>1, <1>2, <1>5, <1>6, <1>7, <1>11 DEF Slot
  <2>2. index < count /\ index + 1 \in 1 .. count
    <3>1. Len(vals) = base + 1 + 2 * count
      BY <1>2, <1>11
    <3>2. base + 2 * index + 3 <= base + 1 + 2 * count
      BY <1>8, <2>1, <3>1
    <3> QED
      BY <1>9, <3>2
  <2>3. filled.elements[index + 1] = vals[base + 1 + 2 * (index + 1)]
    BY <1>2, <1>11, <2>2
  <2>4. base + 1 + 2 * (index + 1) = slot
    BY <1>9, <2>1
  <2> QED
    BY <1>2, <1>3, <1>5, <1>8, <1>11, <2>2, <2>3, <2>4 DEF Stored
<1>12. CASE ~KeyRead(Run(s), s, v) /\ filled.kind # "object"
  <2>1. slot = base + index + 2
    BY <1>1, <1>2, <1>5, <1>6, <1>7, <1>12 DEF Slot
  <2>2. index < count /\ index + 1 \in 1 .. count
    <3>1. Len(vals) = base + 1 + count
      BY <1>2, <1>12
    <3>2. base + index + 2 <= base + 1 + count
      BY <1>8, <2>1, <3>1
    <3> QED
      BY <1>9, <3>2
  <2>3. filled.elements[index + 1] = vals[base + 1 + (index + 1)]
    BY <1>2, <1>12, <2>2
  <2>4. base + 1 + (index + 1) = slot
    BY <1>9, <2>1
  <2> QED
    BY <1>2, <1>3, <1>5, <1>8, <1>12, <2>2, <2>3, <2>4 DEF Stored
<1> QED
  BY <1>10, <1>11, <1>12

\* Any item that was there before.
LEMMA ItemKept ==
  ASSUME NEW s, NEW n, NEW q, NEW o, NEW depth, NEW calls, NEW places, NEW new,
         NEW vals, NEW folded, NEW base, NEW count, NEW filled, NEW W, NEW later,
         Folding(s, n, q, o, depth, calls, places, new),
         Folded(s, n, q, o, depth, vals, folded, places, base, count, filled, W, later),
         NEW v \in 1 .. n, v # o, Placed(s, W, places, vals, n, v)
  PROVE  Placed(s, later, new, folded, q, v)
<1>1. /\ Len(s) \in Nat /\ n \in 0 .. Len(s) /\ n \in Nat /\ q = n + 1
      /\ depth \in Nat \ {0} /\ Depth(s, n) = depth /\ Depth(s, q) = depth - 1
      /\ \A m \in 1 .. depth - 1 : Run(s)[q].open[m] = Run(s)[n].open[m]
      /\ o = Run(s)[n].open[depth].at /\ WasOpened(Run(s), s, n, depth, o)
      /\ Len(calls) = depth /\ PlacesFit(calls, places)
      /\ \A m \in 1 .. depth : places[m] \in Nat /\ new[m] = places[m]
  BY DEF Folding
<1>2. /\ base \in Nat /\ base = places[depth]
      /\ Len(folded) = base + 1 /\ \A k \in 1 .. base : folded[k] = vals[k]
      /\ later[o] = filled /\ \A k \in 1 .. q : k # o => later[k] = W[k]
  BY DEF Folded
<1>3. v \in 1 .. Len(s) /\ v \in 1 .. q /\ later[v] = W[v]
  BY <1>1, <1>2
<1>4. PICK m : m = Depth(s, v - 1)
  OBVIOUS
<1>5. m \in Nat
  BY <1>1, <1>3, <1>4, HostFacts
<1>6. CASE m = 0
  <2>1. IsWhole(Run(s)[n])
    BY <1>4, <1>6 DEF Placed
  <2>2. Len(Run(s)[n].open) # 0
    BY <1>1 DEF Depth
  <2> QED
    BY <2>1, <2>2, EmptySeq DEF IsWhole
<1>7. CASE m # 0
  <2>1. PICK h : h = Host(s, v).at
    OBVIOUS
  <2>2. h \in 1 .. v - 1 /\ h \in 1 .. q /\ Host(s, v) = Run(s)[v - 1].open[m]
    BY <1>1, <1>3, <1>4, <1>7, <2>1, HostFacts
  <2>3. HostOpen(s, n, v) <=> m <= depth /\ Run(s)[n].open[m].at = h
    BY <1>1, <1>4, <2>1 DEF HostOpen
  <2>4. HostOpen(s, q, v) <=> m <= depth - 1 /\ Run(s)[q].open[m].at = h
    BY <1>1, <1>4, <2>1 DEF HostOpen
  <2>5. m <= depth - 1 => Run(s)[q].open[m] = Run(s)[n].open[m]
    BY <1>1, <1>5, <1>7
  <2>6. CASE HostOpen(s, n, v) /\ m = depth
    <3>1. OnStack(s, W, places, vals, n, v)
      BY <1>4, <1>7, <2>6 DEF Placed
    <3>2. Host(s, v).at = o
      BY <1>1, <2>1, <2>3, <2>6
    <3>3. Stored(s, later, v)
      BY <1>4, <2>6, <3>1, <3>2, InnerStored
    <3>4. ~HostOpen(s, q, v)
      BY <1>1, <2>4, <2>6
    <3> QED
      BY <1>4, <1>7, <3>3, <3>4 DEF Placed
  <2>7. CASE HostOpen(s, n, v) /\ m # depth
    <3>1. m \in 1 .. depth - 1 /\ m \in 1 .. depth /\ m + 1 \in 1 .. depth
          /\ m < depth
      BY <1>1, <1>5, <1>7, <2>3, <2>7
    <3>2. HostOpen(s, q, v)
      BY <1>1, <2>3, <2>4, <2>5, <2>7, <3>1
    <3>3. OnStack(s, W, places, vals, n, v)
      BY <1>4, <1>7, <2>7 DEF Placed
    <3>4. PICK slot, place : slot = Slot(s, places, v) /\ place = places[m + 1]
      OBVIOUS
    <3>5. slot \in 1 .. place /\ vals[slot] = W[v] /\ place \in Nat
      BY <1>1, <1>4, <3>1, <3>3, <3>4 DEF OnStack, Ceiling
    <3>6. place <= base
      <4>1. CASE m + 1 = depth
        BY <1>2, <3>4, <4>1
      <4>2. CASE m + 1 # depth
        <5>1. m + 1 \in 1 .. Len(places) /\ depth \in 1 .. Len(places) /\ m + 1 < depth
          <6>1. Len(places) = depth + 1
            BY <1>1 DEF PlacesFit
          <6>2. m + 1 < depth
            BY <1>1, <1>5, <3>1, <4>2
          <6> QED
            BY <1>1, <1>5, <6>1, <6>2
        <5>2. places[m + 1] < places[depth]
          BY <1>1, <5>1 DEF PlacesFit
        <5> QED
          BY <1>2, <3>4, <3>5, <5>2
      <4> QED
        BY <4>1, <4>2
    <3>7. Slot(s, new, v) = slot
      BY <1>1, <1>4, <3>1, <3>4 DEF Slot
    <3>8. slot \in 1 .. base /\ folded[slot] = later[v]
      BY <1>2, <1>3, <3>5, <3>6
    <3>9. slot \in 1 .. Ceiling(s, new, folded, q, m)
      <4>1. CASE m < depth - 1
        <5>1. Ceiling(s, new, folded, q, m) = place
          BY <1>1, <3>1, <3>4, <4>1 DEF Ceiling
        <5> QED
          BY <3>5, <5>1
      <4>2. CASE ~(m < depth - 1)
        <5>1. Ceiling(s, new, folded, q, m) = base + 1
          BY <1>1, <1>2, <4>2 DEF Ceiling
        <5> QED
          BY <1>2, <3>8, <5>1
      <4> QED
        BY <4>1, <4>2
    <3>10. OnStack(s, later, new, folded, q, v)
      BY <1>4, <3>7, <3>8, <3>9 DEF OnStack
    <3> QED
      BY <1>4, <1>7, <3>2, <3>10 DEF Placed
  <2>8. CASE ~HostOpen(s, n, v)
    <3>1. ~HostOpen(s, q, v)
      BY <1>1, <1>5, <2>3, <2>4, <2>5, <2>8
    <3>2. Stored(s, W, v)
      BY <1>4, <1>7, <2>8 DEF Placed
    <3>3. h # o
      <4> SUFFICES ASSUME h = o
                   PROVE  FALSE
        OBVIOUS
      <4>1. v - 1 \in 0 .. Len(s)
        BY <1>3
      <4>2. m \in 1 .. Len(Run(s)[v - 1].open)
        BY <1>4, <1>5, <1>7 DEF Depth
      <4>3. WasOpened(Run(s), s, v - 1, m, Run(s)[v - 1].open[m].at)
        BY <1>1, <4>1, <4>2, ScopesOpened
      <4>4. Len(Run(s)[o - 1].open) = m - 1
        BY <2>1, <2>2, <4>3 DEF WasOpened
      <4>5. Len(Run(s)[o - 1].open) = depth - 1
        BY <1>1 DEF WasOpened
      <4>6. m = depth
        BY <1>1, <1>5, <4>4, <4>5
      <4> QED
        BY <1>1, <2>3, <2>8, <4>6
    <3>4. later[h] = W[h]
      BY <1>2, <2>2, <3>3
    <3>5. Stored(s, later, v)
      BY <1>3, <2>1, <3>2, <3>4 DEF Stored
    <3> QED
      BY <1>4, <1>7, <3>1, <3>5 DEF Placed
  <2> QED
    BY <2>6, <2>7, <2>8
<1> QED
  BY <1>6, <1>7

\* The container itself.
LEMMA ContainerPlaced ==
  ASSUME NEW s, NEW n, NEW q, NEW o, NEW depth, NEW calls, NEW places, NEW new,
         NEW vals, NEW folded, NEW base, NEW count, NEW filled, NEW W, NEW later,
         Folding(s, n, q, o, depth, calls, places, new),
         Folded(s, n, q, o, depth, vals, folded, places, base, count, filled, W, later)
  PROVE  /\ o \in 1 .. n /\ BracketRead(Run(s), s, o)
         /\ Placed(s, later, new, folded, q, o)
<1>1. /\ Len(s) \in Nat /\ n \in 0 .. Len(s) /\ n \in Nat /\ q = n + 1
      /\ q - 1 = n /\ q \in 1 .. Len(s) /\ CloserRead(Run(s), s, q)
      /\ depth \in Nat \ {0} /\ Depth(s, n) = depth /\ Depth(s, q) = depth - 1
      /\ \A m \in 1 .. depth - 1 : Run(s)[q].open[m] = Run(s)[n].open[m]
      /\ WasOpened(Run(s), s, n, depth, o)
      /\ Len(calls) = depth /\ PlacesFit(calls, places)
      /\ \A m \in 1 .. depth : places[m] \in Nat /\ new[m] = places[m]
  BY DEF Folding
<1>2. /\ base \in Nat /\ base = places[depth] /\ later[o] = filled
      /\ Len(folded) = base + 1 /\ folded[base + 1] = filled
  BY DEF Folded
<1>3. /\ o \in 1 .. n /\ ValueNext(Run(s)[o - 1])
      /\ s[o] = Opener[Run(s)[n].open[depth].kind]
      /\ Depth(s, o - 1) = depth - 1
      /\ \A m \in 1 .. depth - 1 : Run(s)[o - 1].open[m] = Run(s)[n].open[m]
  BY <1>1 DEF WasOpened, Depth
<1>4. o \in 1 .. Len(s) /\ o - 1 \in 0 .. Len(s) /\ o - 1 \in Nat
  BY <1>1, <1>3
<1>5. PICK kind \in Container : kind = Run(s)[n].open[depth].kind
  <2>1. IsState(Run(s)[n])
    BY <1>1, RunStates
  <2>2. depth \in 1 .. Len(Run(s)[n].open)
    BY <1>1 DEF Depth
  <2>3. Run(s)[n].open[depth] \in Scopes
    BY <2>1, <2>2 DEF IsState
  <2> QED
    BY <2>3 DEF Scopes
<1>6. BracketRead(Run(s), s, o)
  <2>1. TokenReads(Run(s)[o - 1], Deeper(Run(s)[o - 1], kind, o), s[o], o)
    BY <1>3, <1>5 DEF TokenReads
  <2>2. Run(s)[o] = Deeper(Run(s)[o - 1], kind, o)
    BY <1>1, <1>4, <2>1, TokenRead
  <2> QED
    BY <1>3, <1>5, <2>2 DEF BracketRead
<1>7. ~KeyRead(Run(s), s, o)
  BY <1>3, <1>5, TokenNames DEF KeyRead
<1>8. Placed(s, later, new, folded, q, o)
  <2>1. CASE depth = 1
    <3>1. base = 0
      BY <1>1, <1>2, <2>1 DEF PlacesFit
    <3>2. IsWhole(Run(s)[q])
      <4>1. /\ IsState(Run(s)[q]) /\ IsState(Run(s)[n])
            /\ Run(s)[n].open # <<>> /\ Run(s)[q] = Shallower(Run(s)[n])
        BY <1>1, RunStates DEF CloserRead, CloserNext
      <4>2. PICK st, next : st = Run(s)[n] /\ next = Run(s)[q]
        OBVIOUS
      <4>3. next.expects = "separator"
        BY <4>1, <4>2, ShallowerState
      <4>4. next.open = <<>>
        BY <1>1, <2>1, <4>1, <4>2, EmptySeq DEF Depth, IsState
      <4> QED
        BY <4>2, <4>3, <4>4 DEF IsWhole
    <3>3. Depth(s, o - 1) = 0
      BY <1>3, <2>1
    <3>4. Len(folded) >= 1 /\ folded[1] = later[o]
      BY <1>2, <3>1
    <3> QED
      BY <3>2, <3>3, <3>4 DEF Placed
  <2>2. CASE depth # 1
    <3>1. PICK m : m = depth - 1
      OBVIOUS
    <3>2. m \in Nat \ {0} /\ m \in 1 .. depth - 1 /\ m \in 1 .. depth /\ m + 1 = depth
          /\ m \in 1 .. Len(calls) /\ depth \in 1 .. depth
      BY <1>1, <2>2, <3>1
    <3>3. Host(s, o) = Run(s)[n].open[m]
      <4>1. Depth(s, o - 1) # 0
        BY <1>3, <3>1, <3>2
      <4>2. Host(s, o) = Run(s)[o - 1].open[Depth(s, o - 1)]
        BY <1>1, <1>4, <4>1, HostFacts
      <4> QED
        BY <1>3, <3>1, <3>2, <4>2
    <3>4. /\ calls[m] \in Calls /\ Host(s, o).kind = calls[m].kind
          /\ Host(s, o).index = calls[m].count /\ new[m] = places[m]
          /\ places[m] \in Nat /\ new[depth] = base
      BY <1>1, <1>2, <3>2, <3>3 DEF Folding
    <3>5. Slot(s, places, o) = places[m + 1] + 1
      <4>1. PlacesFit(calls, places) /\ m = Depth(s, o - 1)
        BY <1>1, <1>3, <3>1
      <4>2. /\ m \in 1 .. Len(calls) /\ calls[m] \in Calls /\ places[m] \in Nat
            /\ Host(s, o).kind = calls[m].kind /\ Host(s, o).index = calls[m].count
        BY <3>2, <3>4, Zenon
      <4>3. Slot(s, places, o) =
              IF KeyRead(Run(s), s, o) THEN places[m + 1] ELSE places[m + 1] + 1
        BY <1>7, <4>1, <4>2, SlotIs
      <4> QED
        BY <1>7, <4>3, Zenon
    <3>6. Slot(s, new, o) = base + 1
      <4>1. Slot(s, new, o) = Slot(s, places, o)
        BY <1>3, <3>1, <3>4 DEF Slot
      <4> QED
        BY <1>2, <3>2, <3>5, <4>1
    <3>7. Ceiling(s, new, folded, q, m) = base + 1
      BY <1>1, <1>2, <3>1 DEF Ceiling
    <3>8. OnStack(s, later, new, folded, q, o)
      BY <1>2, <1>3, <3>1, <3>6, <3>7 DEF OnStack
    <3>9. HostOpen(s, q, o)
      BY <1>1, <1>3, <3>1, <3>2, <3>3 DEF HostOpen
    <3>10. Depth(s, o - 1) # 0
      BY <1>3, <3>1, <3>2
    <3> QED
      BY <3>8, <3>9, <3>10 DEF Placed
  <2> QED
    BY <2>1, <2>2
<1> QED
  BY <1>3, <1>6, <1>8

LEMMA ClosedReads ==
  ASSUME NEW s, NEW n, NEW q, NEW o, NEW depth, NEW calls, NEW places, NEW new,
         NEW vals, NEW folded, NEW base, NEW count, NEW filled, NEW W, NEW later,
         Folding(s, n, q, o, depth, calls, places, new),
         Folded(s, n, q, o, depth, vals, folded, places, base, count, filled, W, later),
         DomReads(s, W, places, vals, n)
  PROVE  DomReads(s, later, new, folded, q)
<1>1. /\ Len(s) \in Nat /\ n \in 0 .. Len(s) /\ n \in Nat /\ q = n + 1
      /\ q - 1 = n /\ q \in 1 .. Len(s) /\ CloserRead(Run(s), s, q)
      /\ depth \in Nat \ {0} /\ Depth(s, n) = depth /\ Depth(s, q) = depth - 1
      /\ \A m \in 1 .. depth - 1 : Run(s)[q].open[m] = Run(s)[n].open[m]
      /\ o = Run(s)[n].open[depth].at /\ Inner(Run(s)[n]) = Run(s)[n].open[depth]
  BY DEF Folding
<1>2. /\ later[o] = filled /\ \A k \in 1 .. q : k # o => later[k] = W[k]
      /\ filled.kind = Run(s)[n].open[depth].kind /\ Len(filled.elements) = count
      /\ count = CountAt(Run(s)[n])
  BY DEF Folded
<1>3. o \in 1 .. n /\ BracketRead(Run(s), s, o) /\ Placed(s, later, new, folded, q, o)
  BY ContainerPlaced
<1>4. ~ScalarRead(Run(s), s, o) /\ ~KeyRead(Run(s), s, o)
  BY <1>3, TokenNames DEF BracketRead, ScalarRead, KeyRead
<1>5. ~ScalarRead(Run(s), s, q) /\ ~KeyRead(Run(s), s, q) /\ ~IsItem(s, q)
  <2>1. PICK st, token : st = Run(s)[n] /\ token = s[q]
    OBVIOUS
  <2>2. IsState(st) /\ CloserNext(st, token) /\ st.open # <<>>
    BY <1>1, <2>1, RunStates DEF CloserRead, CloserNext
  <2>3. token \in Closing
    BY <2>2, InnerFacts, TokenNames DEF CloserNext
  <2>4. token \notin ScalarKind /\ token # "string" /\ \A kind \in Container : token # Opener[kind]
    BY <2>3, TokenNames
  <2> QED
    BY <1>1, <2>1, <2>4 DEF ScalarRead, KeyRead, IsItem, BracketRead
<1>6. \A k \in 1 .. q : k # q => k \in 1 .. n
  BY <1>1
<1>7. ASSUME NEW k \in 1 .. q, ScalarRead(Run(s), s, k) \/ KeyRead(Run(s), s, k)
      PROVE  later[k] = Scalar(s[k], Payload(s[k], k))
  <2>1. k # o /\ k \in 1 .. n
    BY <1>4, <1>5, <1>6, <1>7
  <2> QED
    BY <1>2, <1>7, <2>1 DEF DomReads
<1>8. ASSUME NEW k \in 1 .. q, CloserRead(Run(s), s, k)
      PROVE  /\ later[Host(s, k).at].kind = Host(s, k).kind
             /\ Len(later[Host(s, k).at].elements) = CountAt(Run(s)[k - 1])
  <2>1. CASE k = q
    BY <1>1, <1>2, <2>1 DEF Host
  <2>2. CASE k # q
    <3>1. k \in 1 .. n /\ k \in 1 .. Len(s) /\ k - 1 \in 0 .. Len(s)
      BY <1>1, <1>6, <2>2
    <3>2. depth \in 1 .. Len(Run(s)[n].open)
      BY <1>1 DEF Depth
    <3>3. Run(s)[n].open[depth].at # Inner(Run(s)[k - 1]).at
      <4>1. PICK r : r = Run(s)
        OBVIOUS
      <4>2. CloserRead(r, s, k) /\ depth \in 1 .. Len(r[n].open)
        BY <1>8, <3>2, <4>1
      <4>3. r[n].open[depth].at # Inner(r[k - 1]).at
        <5>1. Len(s) \in Nat /\ n \in 0 .. Len(s) /\ k \in 1 .. n
          BY <1>1, <3>1
        <5> QED
          BY <4>1, <4>2, <5>1, ClosedOnce
      <4> QED
        BY <4>1, <4>3
    <3>4. Depth(s, k - 1) # 0
      <4>1. PICK st : st = Run(s)[k - 1]
        OBVIOUS
      <4>2. IsState(st) /\ st.open # <<>>
        BY <1>1, <1>8, <3>1, <4>1, RunStates DEF CloserRead, CloserNext
      <4> QED
        BY <4>1, <4>2, EmptySeq DEF Depth, IsState
    <3>5. PICK h : h = Host(s, k).at
      OBVIOUS
    <3>6. h \in 1 .. k - 1
      BY <1>1, <3>1, <3>4, <3>5, HostFacts
    <3>7. h \in 1 .. q /\ h # o
      BY <1>1, <3>1, <3>3, <3>5, <3>6 DEF Host
    <3>8. /\ W[h].kind = Host(s, k).kind
          /\ Len(W[h].elements) = CountAt(Run(s)[k - 1])
      BY <1>8, <3>1, <3>5 DEF DomReads
    <3> QED
      BY <1>2, <3>5, <3>7, <3>8
  <2> QED
    BY <2>1, <2>2
<1>9. ASSUME NEW k \in 1 .. q, IsItem(s, k), ~IsOpen(s, q, k)
      PROVE  Placed(s, later, new, folded, q, k)
  <2>1. k \in 1 .. n
    BY <1>5, <1>6, <1>9
  <2>2. CASE k = o
    BY <1>3, <2>2
  <2>3. CASE k # o
    <3>1. ~IsOpen(s, n, k)
      <4> SUFFICES ASSUME NEW m \in 1 .. depth, Run(s)[n].open[m].at = k
                   PROVE  FALSE
        BY <1>1 DEF IsOpen
      <4>1. m # depth
        BY <1>1, <2>3
      <4>2. m \in 1 .. depth - 1
        BY <1>1, <4>1
      <4> QED
        BY <1>1, <1>9, <4>2 DEF IsOpen
    <3>2. Placed(s, W, places, vals, n, k)
      BY <1>9, <2>1, <3>1 DEF DomReads
    <3> QED
      BY <2>1, <2>3, <3>2, ItemKept
  <2> QED
    BY <2>2, <2>3
<1> QED
  BY <1>7, <1>8, <1>9 DEF DomReads

LEMMA EndFollows ==
  ASSUME ReaderInv, FollowInv, Reader!EndContainer
  PROVE  FollowInv'
<1>1. /\ state = "first" \/ (state = "return" /\ frames # <<>>)
      /\ state' = "return" /\ at' = at + 1 /\ text' = text
      /\ Reader!TokenAt(at) = Closer[Reader!Frame.kind]
      /\ frames' = Front(frames)
  BY SameWords, SameValues DEF Reader!EndContainer, Reader!Peek
<1>2. PICK s, n, st, calls, vals, places, W : Here(s, n, st, calls, vals, places, W)
  BY <1>1, StandsHere
<1>3. /\ s = text /\ Len(s) \in Nat /\ n \in Nat /\ n \in 0 .. Len(s)
      /\ at = n + 1 /\ calls = frames /\ vals = values
      /\ st = Run(s)[n] /\ IsState(st)
      /\ IF state = "first" THEN st.expects = "first" ELSE st.expects = "separator"
      /\ calls \in Seq(Calls)
      /\ Len(calls) \in Nat /\ Len(st.open) = Len(calls) /\ Depth(s, n) = Len(calls)
      /\ \A m \in 1 .. Len(calls) :
           /\ calls[m] \in Calls
           /\ calls[m].kind = st.open[m].kind /\ calls[m].count = st.open[m].index
      /\ PlacesFit(calls, places) /\ DomReads(s, W, places, vals, n)
      /\ \A m \in 1 .. Len(calls) + 1 : places[m] \in Nat
  BY <1>1, <1>2 DEF Here, ReadsOn
<1>4. PICK q : q = n + 1
  OBVIOUS
<1>5. PICK folded : folded = values'
  OBVIOUS
<1>6. PICK V, base, count, filled :
        Folds(V, state, calls, vals, folded, places, base, count, filled)
  <2>1. PICK V : ReaderFits(V, places)
    BY <1>2 DEF Here
  <2> QED
    BY <1>3, <1>5, <2>1, EndShape
<1>7. st.open # <<>>
  <2>1. calls # <<>> => Len(calls) # 0
    BY <1>3, EmptySeq
  <2> QED
    BY <1>1, <1>3, <2>1, EmptySeq DEF IsState
<1>8. PICK depth : depth = Len(calls) /\ depth \in Nat \ {0}
  BY <1>3, <1>7, InnerFacts
<1>9. Len(st.open) = depth /\ Inner(st) = st.open[depth] /\ Inner(st).kind \in Container
  BY <1>3, <1>7, <1>8, InnerFacts
<1>10. Reader!Frame = calls[depth] /\ calls[depth].kind = Inner(st).kind
  BY <1>3, <1>8, <1>9, SameWords DEF Reader!Frame, Last
<1>11. /\ q \in 1 .. Len(s) /\ s[q] = Closer[Inner(st).kind] /\ q - 1 = n
  <2>1. Reader!TokenAt(at) # "NUL" /\ at \in Nat \ {0}
    BY <1>1, <1>3, <1>9, <1>10, TokenNames
  <2>2. at \in 1 .. Len(s) /\ s[at] = Closer[Inner(st).kind]
    BY <1>1, <1>3, <1>10, <2>1, TokenIs
  <2> QED
    BY <1>3, <1>4, <2>2
<1>12. PICK next : next = Shallower(st)
  OBVIOUS
<1>13. Run(s)[q] = next /\ CloserRead(Run(s), s, q)
  <2>1. CloserNext(st, s[q])
    BY <1>3, <1>7, <1>11 DEF CloserNext
  <2>2. TokenReads(Run(s)[q - 1], next, s[q], q)
    BY <1>3, <1>11, <1>12, <2>1 DEF TokenReads
  <2>3. Run(s)[q] = next
    BY <1>3, <1>11, <2>2, TokenRead
  <2> QED
    BY <1>3, <1>11, <1>12, <2>1, <2>3 DEF CloserRead
<1>14. /\ next.expects = "separator" /\ Len(next.open) = depth - 1
       /\ \A m \in 1 .. depth - 1 : next.open[m] = st.open[m]
  <2>1. /\ Shallower(st).expects = "separator"
        /\ Len(Shallower(st).open) = Len(st.open) - 1
        /\ \A m \in 1 .. Len(st.open) - 1 : Shallower(st).open[m] = st.open[m]
    BY <1>3, <1>7, ShallowerState
  <2> QED
    BY <1>9, <1>12, <2>1
<1>15. PICK fewer : fewer = Front(calls) /\ fewer = frames'
  BY <1>1, <1>3
<1>16. /\ Len(fewer) = depth - 1 /\ \A m \in 1 .. depth - 1 : fewer[m] = calls[m]
  <2>1. calls \in Seq(Calls) /\ calls # <<>>
    BY <1>3, <1>8, EmptySeq
  <2>2. /\ Len(Front(calls)) = Len(calls) - 1
        /\ \A k \in 1 .. Len(calls) - 1 : Front(calls)[k] = calls[k]
    BY <2>1, FrontFacts
  <2> QED
    BY <1>8, <1>15, <2>2
<1>17. PICK o, later : /\ o = st.open[depth].at
                       /\ later = [k \in 1 .. q |-> IF k = o THEN filled ELSE W[k]]
  OBVIOUS
<1>18. WasOpened(Run(s), s, n, depth, o)
  <2>1. depth \in 1 .. Len(Run(s)[n].open)
    BY <1>3, <1>8
  <2> QED
    BY <1>3, <1>17, <2>1, ScopesOpened
<1>19. later[o] = filled /\ \A k \in 1 .. q : k # o => later[k] = W[k]
  <2>1. o \in 1 .. n
    BY <1>18 DEF WasOpened
  <2>2. o \in 1 .. q
    BY <1>3, <1>4, <2>1
  <2> QED
    BY <1>17, <2>2
<1>20. count = CountAt(Run(s)[n])
  <2>1. count = IF state = "first" THEN 0 ELSE calls[depth].count + 1
    BY <1>6, <1>8 DEF Folds
  <2>2. calls[depth].count = Inner(st).index
    BY <1>3, <1>8, <1>9
  <2> QED
    BY <1>3, <2>1, <2>2 DEF CountAt
<1>21. Folded(s, n, q, o, depth, vals, folded, places, base, count, filled, W, later)
  <2>1. filled.kind = Run(s)[n].open[depth].kind
    BY <1>3, <1>6, <1>8 DEF Folds
  <2> QED
    BY <1>6, <1>8, <1>19, <1>20, <2>1 DEF Folds, Folded
<1>22. ASSUME NEW new, PlacesFit(fewer, new)
       PROVE  DomReads(s, later, new, folded, q)
  <2>1. \A m \in 1 .. depth : places[m] \in Nat /\ new[m] = places[m]
    <3>1. PICK less \in Nat : less = depth - 1
      BY <1>8
    <3>2. /\ PlacesFit(calls, places) /\ less <= Len(calls) /\ less <= Len(fewer)
          /\ \A k \in 1 .. less : fewer[k] = calls[k]
      BY <1>3, <1>8, <1>16, <3>1
    <3>3. \A k \in 1 .. less + 1 : new[k] = places[k]
      BY <1>22, <3>2, PlacesAgree
    <3> QED
      BY <1>3, <1>8, <3>1, <3>3
  <2>2. Folding(s, n, q, o, depth, calls, places, new)
    <3>1. Depth(s, q) = depth - 1
      BY <1>13, <1>14 DEF Depth
    <3>2. \A m \in 1 .. depth - 1 : Run(s)[q].open[m] = Run(s)[n].open[m]
      BY <1>3, <1>13, <1>14
    <3>3. o = Run(s)[n].open[depth].at /\ Inner(Run(s)[n]) = Run(s)[n].open[depth]
      BY <1>3, <1>9, <1>17
    <3>4. /\ Len(s) \in Nat /\ n \in 0 .. Len(s) /\ n \in Nat /\ q = n + 1
          /\ q \in 1 .. Len(s) /\ q - 1 = n
          /\ depth \in Nat \ {0} /\ Depth(s, n) = depth /\ Len(calls) = depth
          /\ PlacesFit(calls, places)
      BY <1>3, <1>4, <1>8, <1>11
    <3>5. \A m \in 1 .. depth :
            /\ calls[m] \in Calls
            /\ calls[m].kind = Run(s)[n].open[m].kind
            /\ calls[m].count = Run(s)[n].open[m].index
      BY <1>3, <1>8
    <3> QED
      BY <1>13, <1>18, <2>1, <3>1, <3>2, <3>3, <3>4, <3>5 DEF Folding
  <2> QED
    BY <1>3, <1>21, <2>2, ClosedReads
<1>23. DomFollows(s, q, fewer, folded)
  <2>1. Agrees(fewer, Run(s)[q])
    <3>1. ASSUME NEW m \in 1 .. depth - 1
          PROVE  /\ fewer[m].kind = next.open[m].kind
                 /\ fewer[m].count = next.open[m].index
      <4>1. m \in 1 .. Len(calls)
        BY <1>8
      <4> QED
        BY <1>3, <1>14, <1>16, <4>1
    <3> QED
      BY <1>13, <1>14, <1>16, <3>1 DEF Agrees
  <2>2. q \in 0 .. Len(s)
    BY <1>3, <1>11
  <2> QED
    BY <1>22, <2>1, <2>2 DEF DomFollows
<1>24. at' \in Nat \ {0} /\ q = at' - 1
  BY <1>1, <1>3, <1>4
<1>25. ReadsOn("return", next)
  BY <1>14 DEF ReadsOn
<1> QED
  BY <1>1, <1>3, <1>5, <1>13, <1>15, <1>23, <1>24, <1>25 DEF FollowInv

LEMMA FinishFollows ==
  ASSUME FollowInv, Reader!Finish
  PROVE  FollowInv'
<1>1. /\ state = "return" /\ frames = <<>> /\ state' \in {"accepted", "rejected"}
      /\ text' = text /\ at' = at /\ frames' = frames /\ values' = values
  BY DEF Reader!Finish
<1>2. PICK st : st = Run(text)[at - 1]
  OBVIOUS
<1>3. /\ DomFollows(text, at - 1, frames, values) /\ st.expects = "separator"
      /\ Len(text) \in Nat
  BY <1>1, <1>2 DEF FollowInv, ReadsOn
<1>4. IsState(st) /\ Len(st.open) = 0
  BY <1>1, <1>2, <1>3, RunStates, EmptySeq DEF DomFollows, Agrees
<1>5. IsWhole(st)
  BY <1>3, <1>4, EmptySeq DEF IsWhole, IsState
<1> QED
  BY <1>1, <1>2, <1>3, <1>5 DEF FollowInv, ReadsOn

\* The reader follows the text, token by token, and what it has read is where
\* the walk will look for it.
LEMMA FollowStarts ==
  ASSUME Reader!Init, Len(text) \in Nat
  PROVE  FollowInv
BY DEF Reader!Init, FollowInv

LEMMA FollowKeeps == ReaderInv /\ FollowInv /\ Reader!Parse => FollowInv'
<1> SUFFICES ASSUME ReaderInv, FollowInv, Reader!Parse
             PROVE  FollowInv'
  OBVIOUS
<1>1. ASSUME Reader!Reject
      PROVE  FollowInv'
  BY <1>1 DEF Reader!Reject, FollowInv
<1>2. CASE \E kind \in Reader!Container : Reader!StartContainer(kind)
  BY <1>2, SameWords, StartFollows
<1> QED
  BY <1>1, <1>2, BeginFollows, ScalarFollows, FirstFollows, KeyFollows,
     CommaFollows, EndFollows, FinishFollows
     DEF Reader!Parse, Reader!NoValue, Reader!NoKey, Reader!NoSeparator

-----------------------------------------------------------------------------
(***************************************************************************)
(* The document of a text that was accepted.                               *)
(***************************************************************************)

DomIs(s, last, W, doc) ==
  /\ Len(s) \in Nat /\ last \in 0 .. Len(s) /\ last \in Nat /\ IsWhole(Run(s)[last])
  /\ \A q \in 1 .. last :
       ScalarRead(Run(s), s, q) \/ KeyRead(Run(s), s, q)
         => W[q] = Scalar(s[q], Payload(s[q], q))
  /\ \A q \in 1 .. last : BracketRead(Run(s), s, q) =>
       W[q].kind \in Container /\ s[q] = Opener[W[q].kind]
  /\ \A q \in 1 .. last : CloserRead(Run(s), s, q) =>
       Len(W[Host(s, q).at].elements) = CountAt(Run(s)[q - 1])
  /\ \A q \in 1 .. last :
       IsItem(s, q) /\ Depth(s, q - 1) # 0 => Stored(s, W, q)
  /\ doc = W[FirstEvent(s)]

LEMMA BracketsKind ==
  ASSUME NEW s, Len(s) \in Nat, NEW last \in 0 .. Len(s), IsWhole(Run(s)[last]),
         NEW W, NEW places, NEW vals, DomReads(s, W, places, vals, last),
         NEW q \in 1 .. last, BracketRead(Run(s), s, q)
  PROVE  W[q].kind \in Container /\ s[q] = Opener[W[q].kind]
<1>1. PICK r : r = Run(s)
  OBVIOUS
<1>2. PICK kind \in Container :
        s[q] = Opener[kind] /\ r[q] = Deeper(r[q - 1], kind, q)
  BY <1>1 DEF BracketRead
<1>3. q - 1 \in 0 .. Len(s) /\ q \in 0 .. last /\ q \in Nat \ {0} /\ q \in 0 .. Len(s)
  OBVIOUS
<1>4. PICK st : st = r[q - 1]
  OBVIOUS
<1>5. IsState(st)
  BY <1>1, <1>3, <1>4, RunStates
<1>6. PICK m : m = Len(st.open) + 1
  OBVIOUS
<1>7. m \in 1 .. Len(r[q].open) /\ r[q].open[m].at = q
  <2>1. /\ Len(st.open) \in Nat
        /\ Len(Deeper(st, kind, q).open) = Len(st.open) + 1
        /\ Deeper(st, kind, q).open[Len(st.open) + 1] =
             [at |-> q, kind |-> kind, index |-> 0]
    BY <1>3, <1>5, DeeperState
  <2>2. r[q] = Deeper(st, kind, q)
    BY <1>2, <1>4
  <2> QED
    BY <1>6, <2>1, <2>2
<1>8. ClosesLater(r, s, last, q, m)
  BY <1>1, <1>3, <1>7, ClosedLater
<1>9. PICK e \in q + 1 .. last :
        CloserNext(r[e - 1], s[e]) /\ Inner(r[e - 1]).at = q
  BY <1>7, <1>8 DEF ClosesLater
<1>10. e \in 1 .. last /\ e \in 1 .. Len(s) /\ e - 1 \in 0 .. Len(s)
  BY <1>3
<1>11. CloserRead(Run(s), s, e)
  <2>1. TokenReads(Run(s)[e - 1], Shallower(Run(s)[e - 1]), s[e], e)
    BY <1>1, <1>9 DEF TokenReads
  <2>2. Run(s)[e] = Shallower(Run(s)[e - 1])
    BY <1>10, <2>1, TokenRead
  <2> QED
    BY <1>1, <1>9, <2>2 DEF CloserRead
<1>12. W[q].kind = Host(s, e).kind
  <2>1. W[Host(s, e).at].kind = Host(s, e).kind
    BY <1>10, <1>11 DEF DomReads
  <2> QED
    BY <1>1, <1>9, <2>1 DEF Host
<1>13. PICK before, depth : before = r[e - 1] /\ depth = Len(before.open)
  OBVIOUS
<1>14. /\ depth \in 1 .. Len(r[e - 1].open) /\ Inner(before) = before.open[depth]
       /\ Inner(before).kind \in Container
  <2>1. IsState(before) /\ before.open # <<>>
    BY <1>1, <1>9, <1>10, <1>13, RunStates DEF CloserNext
  <2> QED
    BY <1>13, <2>1, InnerFacts
<1>15. WasOpened(r, s, e - 1, depth, r[e - 1].open[depth].at)
  BY <1>1, <1>10, <1>14, ScopesOpened
<1>16. s[q] = Opener[Inner(before).kind]
  BY <1>9, <1>13, <1>14, <1>15 DEF WasOpened
<1> QED
  BY <1>1, <1>12, <1>13, <1>14, <1>16 DEF Host

LEMMA DomRead ==
  ASSUME ReaderInv, FollowInv, state = "accepted"
  PROVE  \E W : DomIs(text, at - 1, W, Head(values))
<1>1. PICK V, places : ReaderFits(V, places)
  BY DEF ReaderInv
<1>2. PICK s, last, calls, vals :
        s = text /\ last = at - 1 /\ calls = frames /\ vals = values
  OBVIOUS
<1>3. /\ DomFollows(s, last, calls, vals) /\ IsWhole(Run(s)[last])
      /\ Len(s) \in Nat /\ last \in Nat
  BY <1>2 DEF FollowInv, ReadsOn
<1>4. last \in 0 .. Len(s)
  BY <1>3 DEF DomFollows
<1>5. PlacesFit(calls, places) /\ Len(vals) = 1
  BY <1>1, <1>2 DEF ReaderFits, HeightFits
<1>6. PICK W : DomReads(s, W, places, vals, last)
  BY <1>3, <1>5 DEF DomFollows
<1>7. Depth(s, last) = 0
  BY <1>3, EmptySeq DEF Depth, IsWhole
<1>8. \A q : ~IsOpen(s, last, q)
  <2>1. \A m \in 1 .. 0 : FALSE
    OBVIOUS
  <2> QED
    BY <1>7, <2>1 DEF IsOpen
<1>9. ASSUME NEW q \in 1 .. last, IsItem(s, q), Depth(s, q - 1) # 0
      PROVE  Stored(s, W, q)
  <2>1. Placed(s, W, places, vals, last, q)
    BY <1>6, <1>8, <1>9 DEF DomReads
  <2>2. q \in 1 .. Len(s)
    BY <1>4
  <2>3. Depth(s, q - 1) \in Nat
    BY <1>3, <2>2, HostFacts
  <2>4. ~HostOpen(s, last, q)
    BY <1>7, <1>9, <2>3 DEF HostOpen
  <2> QED
    BY <1>9, <2>1, <2>4 DEF Placed
<1>10. Head(values) = W[FirstEvent(s)]
  <2>1. PICK first : first = FirstEvent(s)
    OBVIOUS
  <2>2. PICK r : r = Run(s)
    OBVIOUS
  <2>3. /\ first \in 1 .. last /\ r[first - 1] = Outset
        /\ ScalarRead(r, s, first) \/ BracketRead(r, s, first)
    BY <1>3, <1>4, <2>1, <2>2, FirstIs
  <2>4. IsItem(s, first)
    BY <2>2, <2>3 DEF IsItem
  <2>5. Depth(s, first - 1) = 0
    BY <2>2, <2>3, EmptySeq DEF Depth, Outset
  <2>6. Placed(s, W, places, vals, last, first)
    BY <1>6, <1>8, <2>3, <2>4 DEF DomReads
  <2>7. vals[1] = W[first]
    BY <2>5, <2>6 DEF Placed
  <2>8. Head(values) = values[1]
    BY <1>2, <1>5, <1>1 DEF ReaderFits, ReaderTypes
  <2> QED
    BY <1>2, <2>1, <2>7, <2>8
<1>11. \A q \in 1 .. last : BracketRead(Run(s), s, q) =>
         W[q].kind \in Container /\ s[q] = Opener[W[q].kind]
  BY <1>3, <1>4, <1>6, BracketsKind
<1>12. DomIs(s, last, W, Head(values))
  BY <1>3, <1>4, <1>6, <1>9, <1>10, <1>11 DEF DomIs, DomReads
<1> QED
  BY <1>2, <1>12

-----------------------------------------------------------------------------
(***************************************************************************)
(* The walk. A helper for every container that is open, on the element     *)
(* that was read; below another it has shown that element.                 *)
(***************************************************************************)

\* The helper of the container m of a state of reading.
HelperIs(helper, W, st, m) ==
  /\ helper.value = W[st.open[m].at] /\ helper.at = st.open[m].index
  /\ helper = [value |-> helper.value, at |-> helper.at,
               begin |-> helper.begin, is_key |-> helper.is_key]
  /\ IF m = Len(st.open) /\ st.expects = "first"
       THEN helper.begin = TRUE /\ helper.is_key = (helper.value.kind = "object")
       ELSE /\ helper.begin = FALSE
            /\ helper.is_key = (m = Len(st.open) /\ st.expects = "colon")
HelpersAre(helpers, W, st) ==
  /\ \E S : helpers \in Seq(S)
  /\ Len(helpers) = Len(st.open)
  /\ \A m \in 1 .. Len(st.open) : HelperIs(helpers[m], W, st, m)

ShownAt(type, s, W, q) ==
  /\ ScalarRead(Run(s), s, q) => type = TypeOf(W[q])
  /\ BracketRead(Run(s), s, q) => type = W[q].kind
  /\ KeyRead(Run(s), s, q) => type = "key"
  /\ CloserRead(Run(s), s, q) => type = "end_of_container"

OnlyScalar(s, q) == s[q] \in ScalarKind /\ IsWhole(Run(s)[q])

WalkReads(s, last, W, q) ==
  IF q = 0
    THEN /\ current_type = "end_of_document"
         /\ \/ container_stack = <<>>
            \/ \E helper : container_stack = <<helper>> /\ helper.value.kind \in ScalarKind
    ELSE /\ q \in 1 .. last /\ IsEvent(s, q)
         /\ ShownAt(current_type, s, W, q)
         /\ IF OnlyScalar(s, q) THEN container_stack = <<Helper(W[q])>>
                                ELSE HelpersAre(container_stack, W, Run(s)[q])

\* What the helper on top does.
CallDoes(top) ==
  /\ top.value.kind = "object" =>
       /\ AtEnd(top) /\ top.begin => Leave
       /\ ~AtEnd(top) /\ top.begin => Show([top EXCEPT !.begin = FALSE], "key")
       /\ ~AtEnd(top) /\ ~top.begin /\ top.is_key =>
            Show([top EXCEPT !.is_key = FALSE], TypeOf(Element(top)))
       /\ ~AtEnd(top) /\ ~top.begin /\ ~top.is_key =>
            IF AtEnd(NextMember(top)) THEN Leave ELSE Show(NextMember(top), "key")
  /\ top.value.kind = "array" =>
       IF AtEnd(NextElement(top)) THEN Leave
       ELSE Show(NextElement(top), TypeOf(Element(NextElement(top))))
  /\ top.value.kind \in ScalarKind => Show(top, "end_of_document")

LEMMA CallsTop ==
  ASSUME CallNext, container_stack # <<>>
  PROVE  CallDoes(Top)
<1>1. "object" \notin ScalarKind /\ "array" \notin ScalarKind
  BY TokenNames
<1> QED
  BY <1>1 DEF CallNext, CallDoes, TopIs, LeaveEmptyObject, FirstKey, MemberValue,
              NextKey, ArrayNext, SingleValueNext, DocumentEnded

LEMMA CallsNothing ==
  ASSUME CallNext, container_stack = <<>>
  PROVE  current_type' = "end_of_document" /\ container_stack' = container_stack
BY DEF CallNext, TopIs, LeaveEmptyObject, FirstKey, MemberValue,
       NextKey, ArrayNext, SingleValueNext, DocumentEnded

\* The helper on top moves on.
LEMMA TopMoves ==
  ASSUME NEW helpers, NEW W, NEW st, HelpersAre(helpers, W, st),
         Len(st.open) \in Nat \ {0},
         NEW later, SameOpen(st, later), later.expects # "first",
         NEW helper, HelperIs(helper, W, later, Len(later.open))
  PROVE  HelpersAre(Append(Front(helpers), helper), W, later)
<1>1. PICK S : helpers \in Seq(S)
  BY DEF HelpersAre
<1>2. PICK T : T = S \cup {helper}
  OBVIOUS
<1>3. helpers \in Seq(T) /\ helper \in T
  BY <1>1, <1>2
<1>4. PICK depth \in Nat \ {0} : depth = Len(st.open)
  OBVIOUS
<1>5. Len(helpers) = depth /\ helpers # <<>>
  BY <1>4, EmptySeq DEF HelpersAre
<1>6. PICK new : new = Append(Front(helpers), helper)
  OBVIOUS
<1>7. /\ new \in Seq(T) /\ Len(new) = depth /\ new[depth] = helper
      /\ \A m \in 1 .. depth - 1 : new[m] = helpers[m]
  <2>1. /\ Append(Front(helpers), helper) \in Seq(T)
        /\ Len(Append(Front(helpers), helper)) = Len(helpers)
        /\ \A m \in 1 .. Len(helpers) - 1 : Append(Front(helpers), helper)[m] = helpers[m]
        /\ Append(Front(helpers), helper)[Len(helpers)] = helper
    BY <1>3, <1>5, ReplaceTop
  <2> QED
    BY <1>5, <1>6, <2>1
<1>8. Len(later.open) = depth
  BY <1>4 DEF SameOpen
<1>9. ASSUME NEW m \in 1 .. depth
      PROVE  HelperIs(new[m], W, later, m)
  <2>1. CASE m = depth
    BY <1>7, <1>8, <2>1
  <2>2. CASE m # depth
    <3>1. m \in 1 .. depth - 1
      BY <1>4, <2>2
    <3>2. later.open[m] = st.open[m] /\ new[m] = helpers[m]
      BY <1>4, <1>7, <3>1 DEF SameOpen
    <3>3. HelperIs(helpers[m], W, st, m)
      BY <1>4, <3>1 DEF HelpersAre
    <3> QED
      BY <1>4, <1>8, <2>2, <3>2, <3>3 DEF HelperIs
  <2> QED
    BY <2>1, <2>2
<1> QED
  BY <1>6, <1>7, <1>8, <1>9 DEF HelpersAre

\* The container it is on gets a helper of its own.
LEMMA ContainerShown ==
  ASSUME NEW helpers, NEW W, NEW st, HelpersAre(helpers, W, st),
         Len(st.open) \in Nat \ {0},
         NEW mid, SameOpen(st, mid), mid.expects # "first", mid.expects # "colon",
         NEW helper, HelperIs(helper, W, mid, Len(mid.open)),
         NEW later, later.expects = "first", Len(later.open) = Len(mid.open) + 1,
         \A m \in 1 .. Len(mid.open) : later.open[m] = mid.open[m],
         NEW inner, HelperIs(inner, W, later, Len(later.open))
  PROVE  HelpersAre(Front(helpers) \o <<helper, inner>>, W, later)
<1>1. PICK S : helpers \in Seq(S)
  BY DEF HelpersAre
<1>2. PICK T : T = S \cup {helper, inner}
  OBVIOUS
<1>3. helpers \in Seq(T) /\ helper \in T /\ inner \in T
  BY <1>1, <1>2
<1>4. PICK depth \in Nat \ {0} : depth = Len(st.open)
  OBVIOUS
<1>5. Len(helpers) = depth /\ helpers # <<>>
  BY <1>4, EmptySeq DEF HelpersAre
<1>6. PICK new : new = Front(helpers) \o <<helper, inner>>
  OBVIOUS
<1>7. /\ new \in Seq(T) /\ Len(new) = depth + 1
      /\ new[depth] = helper /\ new[depth + 1] = inner
      /\ \A m \in 1 .. depth - 1 : new[m] = helpers[m]
  <2>1. LET t == Front(helpers) \o <<helper, inner>>
        IN  /\ t \in Seq(T)
            /\ Len(t) = Len(helpers) + 1
            /\ \A m \in 1 .. Len(helpers) - 1 : t[m] = helpers[m]
            /\ t[Len(helpers)] = helper
            /\ t[Len(helpers) + 1] = inner
    <3>1. helpers \in Seq(T) /\ helpers # <<>> /\ helper \in T /\ inner \in T
      BY <1>3, <1>5
    <3> QED
      BY <3>1, ReplaceAndPush
  <2> QED
    BY <1>5, <1>6, <2>1
<1>8. Len(mid.open) = depth /\ Len(later.open) = depth + 1
  BY <1>4 DEF SameOpen
<1>9. ASSUME NEW m \in 1 .. depth + 1
      PROVE  HelperIs(new[m], W, later, m)
  <2>1. CASE m = depth + 1
    BY <1>7, <1>8, <2>1
  <2>2. CASE m = depth
    <3>1. later.open[depth] = mid.open[depth] /\ depth # depth + 1
      BY <1>4, <1>8
    <3>2. HelperIs(helper, W, mid, depth)
      BY <1>8
    <3> QED
      BY <1>7, <1>8, <2>2, <3>1, <3>2 DEF HelperIs
  <2>3. CASE m # depth + 1 /\ m # depth
    <3>1. m \in 1 .. depth - 1 /\ m \in 1 .. depth
      BY <1>4, <2>3
    <3>2. later.open[m] = st.open[m] /\ new[m] = helpers[m]
      BY <1>4, <1>7, <1>8, <3>1 DEF SameOpen
    <3>3. HelperIs(helpers[m], W, st, m)
      BY <1>4, <3>1 DEF HelpersAre
    <3> QED
      BY <1>4, <1>8, <2>3, <3>2, <3>3 DEF HelperIs
  <2> QED
    BY <2>1, <2>2, <2>3
<1> QED
  BY <1>6, <1>7, <1>8, <1>9 DEF HelpersAre

\* It leaves.
LEMMA TopLeaves ==
  ASSUME NEW helpers, NEW W, NEW st, HelpersAre(helpers, W, st),
         Len(st.open) \in Nat \ {0},
         NEW later, later.expects = "separator", Len(later.open) = Len(st.open) - 1,
         \A m \in 1 .. Len(st.open) - 1 : later.open[m] = st.open[m]
  PROVE  HelpersAre(Front(helpers), W, later)
<1>1. PICK S : helpers \in Seq(S)
  BY DEF HelpersAre
<1>2. PICK depth \in Nat \ {0} : depth = Len(st.open)
  OBVIOUS
<1>3. Len(helpers) = depth /\ helpers # <<>>
  BY <1>2, EmptySeq DEF HelpersAre
<1>4. /\ Front(helpers) \in Seq(S) /\ Len(Front(helpers)) = depth - 1
      /\ \A m \in 1 .. depth - 1 : Front(helpers)[m] = helpers[m]
  <2>1. /\ Front(helpers) \in Seq(S) /\ Len(Front(helpers)) = Len(helpers) - 1
        /\ \A m \in 1 .. Len(helpers) - 1 : Front(helpers)[m] = helpers[m]
    BY <1>1, <1>3, FrontFacts
  <2> QED
    BY <1>3, <2>1
<1>5. ASSUME NEW m \in 1 .. depth - 1
      PROVE  HelperIs(Front(helpers)[m], W, later, m)
  <2>1. m \in 1 .. depth /\ m # depth
    BY <1>2
  <2>2. HelperIs(helpers[m], W, st, m)
    BY <1>2, <2>1 DEF HelpersAre
  <2>3. later.open[m] = st.open[m] /\ Front(helpers)[m] = helpers[m]
    BY <1>2, <1>4
  <2> QED
    BY <1>2, <2>1, <2>2, <2>3 DEF HelperIs
<1> QED
  BY <1>2, <1>4, <1>5 DEF HelpersAre

\* What an item is shown as, and where it is found.
LEMMA ShownTypes ==
  /\ \A kind \in ScalarKind : \A payload : TypeOf(Scalar(kind, payload)) \notin Container
  /\ \A v : v.kind \in Container => TypeOf(v) = v.kind
  /\ "key" \notin Container /\ "end_of_document" \notin Container
<1>1. ASSUME NEW kind \in ScalarKind, NEW payload
      PROVE  TypeOf(Scalar(kind, payload)) \notin Container
  <2>1. Scalar(kind, payload).kind = kind
    BY DEF Scalar, Dom
  <2> QED
    BY <2>1 DEF TypeOf, ScalarKind, AtomKind, NumberKind, NumberType, CommonType,
                Container
<1>2. ASSUME NEW v, v.kind \in Container
      PROVE  TypeOf(v) = v.kind
  BY <1>2 DEF TypeOf, NumberKind, CommonType, Container
<1> QED
  BY <1>1, <1>2 DEF Container

LEMMA ItemThere ==
  ASSUME NEW s, NEW last, NEW W, NEW doc, DomIs(s, last, W, doc),
         NEW q \in 1 .. last, IsItem(s, q), Run(s)[q - 1].open # <<>>,
         NEW helper, helper.value = W[Host(s, q).at], helper.at = Host(s, q).index
  PROVE  /\ ~AtEnd(helper)
         /\ ~KeyRead(Run(s), s, q) => Element(helper) = W[q]
         /\ KeyRead(Run(s), s, q) => helper.value.keys[helper.at + 1] = W[q].payload
<1>1. Len(s) \in Nat /\ last \in 0 .. Len(s)
  BY DEF DomIs
<1>2. q \in 1 .. Len(s) /\ q - 1 \in 0 .. Len(s)
  BY <1>1
<1>3. Depth(s, q - 1) # 0
  <2>1. IsState(Run(s)[q - 1])
    BY <1>1, <1>2, RunStates
  <2> QED
    BY <2>1, EmptySeq DEF Depth, IsState
<1>4. Stored(s, W, q)
  BY <1>3 DEF DomIs
<1>5. PICK index \in Nat : index = Host(s, q).index
  BY <1>1, <1>2, <1>3, HostFacts
<1>6. PICK size : size = Len(helper.value.elements)
  OBVIOUS
<1>7. index < size
  BY <1>4, <1>5, <1>6 DEF Stored
<1>8. index # size
  BY <1>5, <1>7
<1> QED
  BY <1>4, <1>5, <1>6, <1>8 DEF Stored, AtEnd, Element

\* The helper on top, on what was just read.
LEMMA HelperMoved ==
  ASSUME NEW W, NEW before, NEW later, NEW depth \in Nat \ {0},
         depth = Len(before.open), later.open = before.open,
         Inner(before) = before.open[depth],
         NEW key \in BOOLEAN, later.expects = IF key THEN "colon" ELSE "separator",
         NEW helper,
         helper = [value |-> W[Inner(before).at], at |-> Inner(before).index,
                   begin |-> FALSE, is_key |-> key]
  PROVE  HelperIs(helper, W, later, depth)
<1>1. /\ helper.value = W[Inner(before).at] /\ helper.at = Inner(before).index
      /\ helper.begin = FALSE /\ helper.is_key = key
      /\ helper = [value |-> helper.value, at |-> helper.at,
                   begin |-> helper.begin, is_key |-> helper.is_key]
  OBVIOUS
<1>2. later.expects # "first" /\ key = (later.expects = "colon")
  OBVIOUS
<1> QED
  BY <1>1, <1>2 DEF HelperIs

\* next() shows the item at q.
LEMMA ItemShown ==
  ASSUME NEW s, NEW last, NEW W, NEW doc, DomIs(s, last, W, doc),
         NEW st, HelpersAre(container_stack, W, st), Len(st.open) \in Nat \ {0},
         NEW q \in 1 .. last, IsItem(s, q),
         NEW before, before = Run(s)[q - 1], SameOpen(st, before),
         NEW helper,
         helper = [value |-> W[Inner(before).at], at |-> Inner(before).index,
                   begin |-> FALSE, is_key |-> KeyRead(Run(s), s, q)],
         Show(helper, IF KeyRead(Run(s), s, q) THEN "key" ELSE TypeOf(Element(helper)))
  PROVE  WalkReads(s, last, W, q)'
<1>1. Len(s) \in Nat /\ last \in 0 .. Len(s)
  BY DEF DomIs
<1>2. q \in 1 .. Len(s) /\ q - 1 \in 0 .. Len(s) /\ q # 0
  BY <1>1
<1>3. PICK r : r = Run(s)
  OBVIOUS
<1>4. PICK depth \in Nat \ {0} : depth = Len(st.open)
  OBVIOUS
<1>5. /\ IsState(before) /\ Len(before.open) = depth /\ before.open # <<>>
  <2>1. IsState(before)
    BY <1>1, <1>2, RunStates
  <2> QED
    BY <1>4, <2>1, EmptySeq DEF SameOpen
<1>6. Inner(before) = before.open[depth] /\ Host(s, q) = before.open[depth]
  BY <1>5, InnerFacts DEF Host
<1>7. /\ ~KeyRead(r, s, q) => Element(helper) = W[q]
      /\ helper.value = W[Host(s, q).at] /\ helper.at = Host(s, q).index
  <2>1. helper.value = W[Host(s, q).at] /\ helper.at = Host(s, q).index
    BY <1>6
  <2> QED
    BY <1>3, <1>5, <2>1, ItemThere
<1>8. PICK type : type = IF KeyRead(r, s, q) THEN "key" ELSE TypeOf(W[q])
  OBVIOUS
<1>9. Show(helper, type)
  BY <1>3, <1>7, <1>8
<1>10. /\ current_type' = type
       /\ container_stack' =
            IF type \in Container
              THEN Front(container_stack) \o <<helper, Helper(Element(helper))>>
              ELSE Append(Front(container_stack), helper)
  BY <1>9 DEF Show, Waiting
<1>11. IsEvent(s, q)
  BY <1>1, <1>2, ReadOnce
<1>12. ASSUME NEW later, later = r[q], later.open = before.open,
              later.expects = IF KeyRead(r, s, q) THEN "colon" ELSE "separator"
       PROVE  /\ HelpersAre(Append(Front(container_stack), helper), W, r[q])
              /\ ~IsWhole(r[q])
  <2>1. SameOpen(st, later) /\ later.expects # "first" /\ Len(later.open) = depth
    BY <1>5, <1>12 DEF SameOpen
  <2>2. HelperIs(helper, W, later, depth)
    <3>1. PICK key \in BOOLEAN : key = KeyRead(r, s, q)
      BY DEF KeyRead
    <3>2. /\ helper = [value |-> W[Inner(before).at], at |-> Inner(before).index,
                       begin |-> FALSE, is_key |-> key]
          /\ later.expects = IF key THEN "colon" ELSE "separator"
      BY <1>3, <1>12, <3>1
    <3>3. depth = Len(before.open) /\ Inner(before) = before.open[depth]
      BY <1>5, <1>6
    <3> QED
      BY <1>12, <3>2, <3>3, HelperMoved
  <2>3. HelpersAre(Append(Front(container_stack), helper), W, later)
    BY <2>1, <2>2, TopMoves
  <2> QED
    BY <1>5, <1>12, <2>3 DEF IsWhole
<1>13. CASE ScalarRead(r, s, q)
  <2>1. /\ ~KeyRead(r, s, q) /\ ~BracketRead(r, s, q) /\ ~CloserRead(r, s, q)
    BY <1>1, <1>2, <1>3, <1>13, ReadOnce
  <2>2. W[q] = Scalar(s[q], Payload(s[q], q)) /\ s[q] \in ScalarKind
    BY <1>3, <1>13 DEF DomIs, ScalarRead
  <2>3. type = TypeOf(W[q]) /\ type \notin Container
    BY <1>8, <2>1, <2>2, ShownTypes
  <2>4. r[q].open = before.open /\ r[q].expects = "separator"
    <3>1. r[q] = Expecting(before, "separator")
      BY <1>3, <1>13 DEF ScalarRead
    <3> QED
      BY <1>5, <3>1, ExpectingState DEF Expectation
  <2>5. HelpersAre(container_stack', W, Run(s)[q]) /\ ~OnlyScalar(s, q)
    BY <1>3, <1>10, <1>12, <2>1, <2>3, <2>4 DEF OnlyScalar
  <2>6. ShownAt(current_type', s, W, q)
    BY <1>3, <1>10, <2>1, <2>3 DEF ShownAt
  <2> QED
    BY <1>2, <1>11, <2>5, <2>6 DEF WalkReads
<1>14. CASE KeyRead(r, s, q)
  <2>1. /\ ~ScalarRead(r, s, q) /\ ~BracketRead(r, s, q) /\ ~CloserRead(r, s, q)
    BY <1>1, <1>2, <1>3, <1>14, ReadOnce
  <2>2. type = "key" /\ type \notin Container
    BY <1>8, <1>14, ShownTypes
  <2>3. r[q].open = before.open /\ r[q].expects = "colon"
    <3>1. r[q] = Expecting(before, "colon") /\ KeyNext(before)
      BY <1>3, <1>14 DEF KeyRead
    <3>2. Inner(before).kind = "object"
      BY <1>5, <3>1 DEF IsState, KeyNext
    <3> QED
      BY <1>5, <3>1, <3>2, ExpectingState DEF Expectation
  <2>4. HelpersAre(container_stack', W, Run(s)[q]) /\ ~OnlyScalar(s, q)
    BY <1>3, <1>10, <1>12, <1>14, <2>2, <2>3 DEF OnlyScalar
  <2>5. ShownAt(current_type', s, W, q)
    BY <1>3, <1>10, <2>1, <2>2 DEF ShownAt
  <2> QED
    BY <1>2, <1>11, <2>4, <2>5 DEF WalkReads
<1>15. CASE BracketRead(r, s, q)
  <2>1. /\ ~ScalarRead(r, s, q) /\ ~KeyRead(r, s, q) /\ ~CloserRead(r, s, q)
    BY <1>1, <1>2, <1>3, <1>15, ReadOnce
  <2>2. W[q].kind \in Container
    BY <1>3, <1>15 DEF DomIs
  <2>3. type = W[q].kind /\ type \in Container
    BY <1>8, <2>1, <2>2, ShownTypes
  <2>4. PICK kind \in Container : r[q] = Deeper(before, kind, q) /\ s[q] = Opener[kind]
    BY <1>3, <1>15 DEF BracketRead
  <2>5. PICK later : later = r[q]
    OBVIOUS
  <2>6. /\ later.expects = "first" /\ Len(later.open) = depth + 1
        /\ \A m \in 1 .. depth : later.open[m] = before.open[m]
        /\ later.open[depth + 1] = [at |-> q, kind |-> kind, index |-> 0]
    <3>1. q \in Nat \ {0}
      BY <1>2
    <3>0. IsState(before)
      BY <1>5
    <3>2. /\ Deeper(before, kind, q).expects = "first"
          /\ Len(Deeper(before, kind, q).open) = Len(before.open) + 1
          /\ \A m \in 1 .. Len(before.open) :
               Deeper(before, kind, q).open[m] = before.open[m]
          /\ Deeper(before, kind, q).open[Len(before.open) + 1] =
               [at |-> q, kind |-> kind, index |-> 0]
      BY <3>0, <3>1, DeeperState
    <3> QED
      BY <1>5, <2>4, <2>5, <3>2
  <2>7. PICK mid : mid = Expecting(before, "separator")
    OBVIOUS
  <2>8. mid.open = before.open /\ mid.expects = "separator"
    BY <1>5, <2>7, ExpectingState DEF Expectation
  <2>9. SameOpen(st, mid) /\ Len(mid.open) = depth
    BY <1>5, <2>8 DEF SameOpen
  <2>10. HelperIs(helper, W, mid, depth)
    <3>1. PICK key \in BOOLEAN : key = KeyRead(r, s, q)
      BY DEF KeyRead
    <3>2. ~key
      BY <2>1, <3>1
    <3>3. /\ helper = [value |-> W[Inner(before).at], at |-> Inner(before).index,
                       begin |-> FALSE, is_key |-> key]
          /\ mid.expects = IF key THEN "colon" ELSE "separator"
      BY <1>3, <2>8, <3>1, <3>2
    <3>4. /\ depth = Len(before.open) /\ Inner(before) = before.open[depth]
          /\ mid.open = before.open
      BY <1>5, <1>6, <2>8
    <3> QED
      BY <3>3, <3>4, HelperMoved
  <2>11. PICK inner : inner = Helper(W[q])
    OBVIOUS
  <2>12. HelperIs(inner, W, later, depth + 1)
    BY <2>6, <2>11 DEF HelperIs, Helper
  <2>13. HelpersAre(Front(container_stack) \o <<helper, inner>>, W, later)
    <3>1. \A m \in 1 .. Len(mid.open) : later.open[m] = mid.open[m]
      BY <2>6, <2>8, <2>9
    <3>2. Len(later.open) = Len(mid.open) + 1
      BY <2>6, <2>9
    <3>3. HelperIs(inner, W, later, Len(later.open)) /\ HelperIs(helper, W, mid, Len(mid.open))
      BY <2>6, <2>9, <2>10, <2>12
    <3>4. HelpersAre(container_stack, W, st) /\ Len(st.open) \in Nat \ {0}
      OBVIOUS
    <3>5. /\ mid.expects # "first" /\ mid.expects # "colon"
          /\ later.expects = "first" /\ SameOpen(st, mid)
      BY <2>6, <2>8, <2>9
    <3> QED
      BY <3>1, <3>2, <3>3, <3>4, <3>5, ContainerShown
  <2>14. container_stack' = Front(container_stack) \o <<helper, inner>>
    BY <1>7, <1>10, <2>1, <2>3, <2>11
  <2>15. HelpersAre(container_stack', W, Run(s)[q]) /\ ~OnlyScalar(s, q)
    BY <1>3, <2>5, <2>6, <2>13, <2>14 DEF OnlyScalar, IsWhole
  <2>16. ShownAt(current_type', s, W, q)
    BY <1>3, <1>10, <2>1, <2>3 DEF ShownAt
  <2> QED
    BY <1>2, <1>11, <2>15, <2>16 DEF WalkReads
<1> QED
  BY <1>3, <1>13, <1>14, <1>15 DEF IsItem

\* next() shows the end of the container on top.
LEMMA CloserShown ==
  ASSUME NEW s, NEW last, NEW W, NEW doc, DomIs(s, last, W, doc),
         NEW q \in 1 .. last, CloserRead(Run(s), s, q),
         HelpersAre(container_stack, W, Run(s)[q - 1]), Leave
  PROVE  WalkReads(s, last, W, q)'
<1>1. Len(s) \in Nat /\ last \in 0 .. Len(s)
  BY DEF DomIs
<1>2. q \in 1 .. Len(s) /\ q - 1 \in 0 .. Len(s) /\ q # 0
  BY <1>1
<1>3. PICK st, later : st = Run(s)[q - 1] /\ later = Run(s)[q]
  OBVIOUS
<1>4. IsState(st) /\ st.open # <<>> /\ later = Shallower(st)
  BY <1>1, <1>2, <1>3, RunStates DEF CloserRead, CloserNext
<1>5. Len(st.open) \in Nat \ {0}
  BY <1>4, InnerFacts
<1>6. /\ later.expects = "separator" /\ Len(later.open) = Len(st.open) - 1
      /\ \A m \in 1 .. Len(st.open) - 1 : later.open[m] = st.open[m]
  BY <1>4, ShallowerState
<1>7. /\ current_type' = "end_of_container"
      /\ container_stack' = Front(container_stack)
  BY DEF Leave
<1>8. HelpersAre(container_stack', W, Run(s)[q])
  BY <1>3, <1>5, <1>6, <1>7, TopLeaves
<1>9. /\ IsEvent(s, q) /\ ~ScalarRead(Run(s), s, q)
      /\ ~BracketRead(Run(s), s, q) /\ ~KeyRead(Run(s), s, q)
  BY <1>1, <1>2, ReadOnce
<1>10. ShownAt(current_type', s, W, q)
  BY <1>7, <1>9 DEF ShownAt
<1>11. ~OnlyScalar(s, q)
  <2>1. s[q] \in Closing
    BY <1>3, <1>4, InnerFacts, TokenNames DEF CloserRead, CloserNext
  <2> QED
    BY <2>1, TokenNames DEF OnlyScalar
<1> QED
  BY <1>2, <1>8, <1>9, <1>10, <1>11 DEF WalkReads

\* The kind of the container that is read.
LEMMA ScopeKind ==
  ASSUME NEW s, NEW last, NEW W, NEW doc, DomIs(s, last, W, doc),
         NEW n \in 0 .. last, NEW st, st = Run(s)[n], st.open # <<>>
  PROVE  /\ W[Inner(st).at].kind = Inner(st).kind
         /\ Inner(st).kind \in Container /\ Inner(st).index \in Nat
         /\ IsState(st) /\ Len(st.open) \in Nat \ {0}
         /\ Inner(st) = st.open[Len(st.open)]
<1>1. Len(s) \in Nat /\ last \in 0 .. Len(s)
  BY DEF DomIs
<1>2. n \in 0 .. Len(s)
  BY <1>1
<1>3. PICK r : r = Run(s)
  OBVIOUS
<1>4. IsState(st)
  BY <1>1, <1>2, RunStates
<1>5. /\ Len(st.open) \in Nat \ {0} /\ Inner(st) = st.open[Len(st.open)]
      /\ Inner(st).kind \in Container /\ Inner(st).index \in Nat
  BY <1>4, InnerFacts
<1>6. PICK o, kind, depth :
        o = Inner(st).at /\ kind = Inner(st).kind /\ depth = Len(st.open)
  OBVIOUS
<1>7. WasOpened(r, s, n, depth, o)
  <2>1. depth \in 1 .. Len(r[n].open) /\ o = r[n].open[depth].at
    BY <1>3, <1>5, <1>6
  <2> QED
    BY <1>1, <1>2, <1>3, <2>1, ScopesOpened
<1>8. o \in 1 .. n /\ s[o] = Opener[kind] /\ ValueNext(r[o - 1])
  BY <1>3, <1>5, <1>6, <1>7 DEF WasOpened
<1>9. o \in 1 .. last /\ o \in 1 .. Len(s)
  BY <1>1, <1>8
<1>10. kind \in Container
  BY <1>5, <1>6
<1>11. Run(s)[o] = Deeper(Run(s)[o - 1], kind, o)
  <2>1. TokenReads(Run(s)[o - 1], Deeper(Run(s)[o - 1], kind, o), s[o], o)
    BY <1>3, <1>8, <1>10 DEF TokenReads
  <2> QED
    BY <1>1, <1>9, <2>1, TokenRead
<1>12. BracketRead(Run(s), s, o)
  BY <1>3, <1>8, <1>10, <1>11 DEF BracketRead
<1>13. W[o].kind \in Container /\ s[o] = Opener[W[o].kind]
  BY <1>9, <1>12 DEF DomIs
<1>14. W[o].kind = kind
  BY <1>8, <1>10, <1>13, TokenNames
<1> QED
  BY <1>4, <1>5, <1>6, <1>14

\* The helper on top.
TopAs(st, value, index) ==
  [value |-> value, at |-> index, begin |-> (st.expects = "first"),
   is_key |-> IF st.expects = "first" THEN value.kind = "object"
                                      ELSE st.expects = "colon"]

LEMMA TopNow ==
  ASSUME NEW s, NEW last, NEW W, NEW doc, DomIs(s, last, W, doc),
         NEW n \in 0 .. last, NEW st, st = Run(s)[n], st.open # <<>>,
         HelpersAre(container_stack, W, st)
  PROVE  /\ container_stack # <<>>
         /\ Top = TopAs(st, W[Inner(st).at], Inner(st).index)
<1>1. Len(st.open) \in Nat \ {0} /\ Inner(st) = st.open[Len(st.open)]
  BY ScopeKind
<1>2. PICK depth \in Nat \ {0} : depth = Len(st.open)
  BY <1>1
<1>3. Len(container_stack) = depth /\ HelperIs(container_stack[depth], W, st, depth)
  BY <1>2 DEF HelpersAre
<1>4. container_stack # <<>>
  BY <1>2, <1>3, EmptySeq
<1>5. Top = container_stack[depth]
  BY <1>3 DEF Top, Last
<1>6. PICK top : top = Top
  OBVIOUS
<1>7. HelperIs(top, W, st, depth)
  BY <1>3, <1>5, <1>6
<1>8. PICK value, index : value = W[Inner(st).at] /\ index = Inner(st).index
  OBVIOUS
<1>9. top.value = value /\ top.at = index
  BY <1>1, <1>2, <1>7, <1>8 DEF HelperIs
<1>10. top = [value |-> top.value, at |-> top.at, begin |-> top.begin, is_key |-> top.is_key]
  BY <1>7 DEF HelperIs
<1>11. /\ top.begin = (st.expects = "first")
       /\ top.is_key = IF st.expects = "first" THEN top.value.kind = "object"
                                               ELSE st.expects = "colon"
  BY <1>2, <1>7 DEF HelperIs
<1>12. top = TopAs(st, value, index)
  BY <1>9, <1>10, <1>11 DEF TopAs
<1> QED
  BY <1>4, <1>6, <1>8, <1>12

\* What next() does with it: it stays on an element that was not shown, and
\* goes on to the next one if it was.
Standing(value, index, is_key) ==
  [value |-> value, at |-> index, begin |-> FALSE, is_key |-> is_key]

LEMMA TopDoes ==
  ASSUME NEW st, NEW value, value.kind \in Container, NEW index \in Nat,
         NEW size, size = Len(value.elements),
         CallDoes(TopAs(st, value, index))
  PROVE  /\ st.expects = "first" =>
              IF index = size THEN Leave
              ELSE IF value.kind = "object" THEN Show(Standing(value, index, TRUE), "key")
              ELSE Show(Standing(value, index, FALSE),
                        TypeOf(Element(Standing(value, index, FALSE))))
         /\ st.expects = "colon" /\ value.kind = "object" /\ index # size =>
              Show(Standing(value, index, FALSE),
                   TypeOf(Element(Standing(value, index, FALSE))))
         /\ st.expects = "separator" /\ (value.kind = "object" => index # size) =>
              IF index + 1 = size THEN Leave
              ELSE IF value.kind = "object" THEN Show(Standing(value, index + 1, TRUE), "key")
              ELSE Show(Standing(value, index + 1, FALSE),
                        TypeOf(Element(Standing(value, index + 1, FALSE))))
<1>0. PICK yes, no : yes = TRUE /\ no = FALSE
  OBVIOUS
<1>1. PICK top : top = TopAs(st, value, index)
  OBVIOUS
<1>2. PICK begin : begin = (st.expects = "first")
  OBVIOUS
<1>3. PICK is_key :
        is_key = IF begin THEN value.kind = "object" ELSE st.expects = "colon"
  OBVIOUS
<1>4. top = [value |-> value, at |-> index, begin |-> begin, is_key |-> is_key]
  BY <1>1, <1>2, <1>3 DEF TopAs
<1>5. /\ top.value = value /\ top.at = index /\ top.begin = begin /\ top.is_key = is_key
      /\ AtEnd(top) <=> index = size
  BY <1>4 DEF AtEnd
<1>6. CallDoes(top)
  BY <1>1
<1>7. CASE value.kind = "object"
  <2>1. [top EXCEPT !.begin = FALSE] =
          [value |-> value, at |-> index, begin |-> FALSE, is_key |-> is_key]
    <3>1. [top EXCEPT !.begin = no] =
            [value |-> value, at |-> index, begin |-> no, is_key |-> is_key]
      BY <1>4
    <3> QED
      BY <1>0, <3>1, Zenon
  <2>2. [top EXCEPT !.is_key = FALSE] =
          [value |-> value, at |-> index, begin |-> begin, is_key |-> FALSE]
    <3>1. [top EXCEPT !.is_key = no] =
            [value |-> value, at |-> index, begin |-> begin, is_key |-> no]
      BY <1>4
    <3> QED
      BY <1>0, <3>1, Zenon
  <2>3. NextMember(top) =
          [value |-> value, at |-> index + 1, begin |-> begin, is_key |-> TRUE]
    <3>1. PICK mid : mid = [top EXCEPT !.at = index + 1]
      OBVIOUS
    <3>2. mid = [value |-> value, at |-> index + 1, begin |-> begin, is_key |-> is_key]
      BY <1>4, <3>1
    <3>3. [mid EXCEPT !.is_key = yes] =
            [value |-> value, at |-> index + 1, begin |-> begin, is_key |-> yes]
      BY <3>2
    <3>4. NextMember(top) = [mid EXCEPT !.is_key = TRUE]
      BY <1>5, <3>1, Zenon DEF NextMember
    <3> QED
      BY <1>0, <3>3, <3>4, Zenon
  <2>4. AtEnd(NextMember(top)) <=> index + 1 = size
    BY <2>3 DEF AtEnd
  <2>5. /\ AtEnd(top) /\ top.begin => Leave
        /\ ~AtEnd(top) /\ top.begin => Show([top EXCEPT !.begin = FALSE], "key")
        /\ ~AtEnd(top) /\ ~top.begin /\ top.is_key =>
             Show([top EXCEPT !.is_key = FALSE], TypeOf(Element(top)))
        /\ ~AtEnd(top) /\ ~top.begin /\ ~top.is_key =>
             IF AtEnd(NextMember(top)) THEN Leave ELSE Show(NextMember(top), "key")
    BY <1>5, <1>6, <1>7 DEF CallDoes
  <2>6. ASSUME begin
        PROVE  /\ index = size => Leave
               /\ index # size => Show(Standing(value, index, TRUE), "key")
    <3>1. is_key = TRUE
      BY <1>3, <1>7, <2>6
    <3>2. [top EXCEPT !.begin = FALSE] = Standing(value, index, TRUE)
      BY <2>1, <3>1 DEF Standing
    <3> QED
      BY <1>5, <2>5, <2>6, <3>2
  <2>7. ASSUME st.expects = "colon", index # size
        PROVE  Show(Standing(value, index, FALSE),
                    TypeOf(Element(Standing(value, index, FALSE))))
    <3>1. begin = FALSE /\ is_key = TRUE
      BY <1>2, <1>3, <2>7
    <3>2. [top EXCEPT !.is_key = FALSE] = Standing(value, index, FALSE)
      BY <2>2, <3>1 DEF Standing
    <3>3. Element(top) = Element(Standing(value, index, FALSE))
      BY <1>5 DEF Element, Standing
    <3> QED
      BY <1>5, <2>5, <2>7, <3>1, <3>2, <3>3
  <2>8. ASSUME st.expects = "separator", index # size
        PROVE  IF index + 1 = size THEN Leave
               ELSE Show(Standing(value, index + 1, TRUE), "key")
    <3>1. begin = FALSE /\ is_key = FALSE
      BY <1>2, <1>3, <2>8
    <3>2. NextMember(top) = Standing(value, index + 1, TRUE)
      BY <2>3, <3>1 DEF Standing
    <3> QED
      BY <1>5, <2>4, <2>5, <2>8, <3>1, <3>2
  <2> QED
    BY <1>2, <1>7, <2>6, <2>7, <2>8
<1>8. CASE value.kind = "array"
  <2>1. NextElement(top) = [value |-> value, at |-> IF begin THEN index ELSE index + 1,
                            begin |-> FALSE, is_key |-> is_key]
    <3>1. PICK next : next = IF begin THEN index ELSE index + 1
      OBVIOUS
    <3>2. PICK mid : mid = [top EXCEPT !.begin = no]
      OBVIOUS
    <3>3. mid = [value |-> value, at |-> index, begin |-> no, is_key |-> is_key]
      BY <1>4, <3>2
    <3>4. [mid EXCEPT !.at = next] =
            [value |-> value, at |-> next, begin |-> no, is_key |-> is_key]
      BY <3>3
    <3>5. NextElement(top) = [mid EXCEPT !.at = next]
      <4>1. NextElement(top) = [[top EXCEPT !.begin = FALSE] EXCEPT
                                  !.at = IF top.begin THEN top.at ELSE top.at + 1]
        BY Zenon DEF NextElement
      <4>2. mid = [top EXCEPT !.begin = FALSE]
        BY <1>0, <3>2, Zenon
      <4>3. next = IF top.begin THEN top.at ELSE top.at + 1
        BY <1>5, <3>1
      <4> QED
        BY <4>1, <4>2, <4>3, Zenon
    <3> QED
      BY <1>0, <3>1, <3>4, <3>5, Zenon
  <2>2. IF AtEnd(NextElement(top)) THEN Leave
        ELSE Show(NextElement(top), TypeOf(Element(NextElement(top))))
    BY <1>5, <1>6, <1>8 DEF CallDoes
  <2>3. ASSUME begin
        PROVE  IF index = size THEN Leave
               ELSE Show(Standing(value, index, FALSE),
                         TypeOf(Element(Standing(value, index, FALSE))))
    <3>1. is_key = FALSE
      BY <1>3, <1>8, <2>3
    <3>2. NextElement(top) = Standing(value, index, FALSE)
      BY <2>1, <2>3, <3>1 DEF Standing
    <3>3. AtEnd(NextElement(top)) <=> index = size
      BY <3>2 DEF AtEnd, Standing
    <3> QED
      BY <2>2, <3>2, <3>3
  <2>4. ASSUME st.expects = "separator"
        PROVE  IF index + 1 = size THEN Leave
               ELSE Show(Standing(value, index + 1, FALSE),
                         TypeOf(Element(Standing(value, index + 1, FALSE))))
    <3>1. begin = FALSE /\ is_key = FALSE
      BY <1>2, <1>3, <2>4
    <3>2. NextElement(top) = Standing(value, index + 1, FALSE)
      BY <2>1, <3>1 DEF Standing
    <3>3. AtEnd(NextElement(top)) <=> index + 1 = size
      BY <3>2 DEF AtEnd, Standing
    <3> QED
      BY <2>2, <3>2, <3>3
  <2> QED
    BY <1>2, <1>8, <2>3, <2>4
<1> QED
  BY <1>7, <1>8, TokenNames

LEMMA ItemStands ==
  ASSUME NEW s, NEW last, NEW W, NEW doc, DomIs(s, last, W, doc),
         NEW st, HelpersAre(container_stack, W, st), Len(st.open) \in Nat \ {0},
         NEW q \in 1 .. last, IsItem(s, q),
         NEW before, before = Run(s)[q - 1], SameOpen(st, before),
         NEW value, value = W[Inner(before).at], NEW index, index = Inner(before).index,
         NEW is_key, is_key <=> KeyRead(Run(s), s, q),
         IF is_key THEN Show(Standing(value, index, TRUE), "key")
         ELSE Show(Standing(value, index, FALSE),
                   TypeOf(Element(Standing(value, index, FALSE))))
  PROVE  WalkReads(s, last, W, q)'
<1>1. PICK helper :
        helper = [value |-> W[Inner(before).at], at |-> Inner(before).index,
                  begin |-> FALSE, is_key |-> KeyRead(Run(s), s, q)]
  OBVIOUS
<1>2. CASE KeyRead(Run(s), s, q)
  <2>1. KeyRead(Run(s), s, q) = TRUE
    BY <1>2 DEF KeyRead
  <2>2. helper = Standing(value, index, TRUE)
    BY <1>1, <2>1 DEF Standing
  <2>3. Show(helper, IF KeyRead(Run(s), s, q) THEN "key" ELSE TypeOf(Element(helper)))
    BY <1>2, <2>2
  <2> QED
    BY <1>1, <2>3, ItemShown
<1>3. CASE ~KeyRead(Run(s), s, q)
  <2>1. KeyRead(Run(s), s, q) = FALSE
    BY <1>3 DEF KeyRead
  <2>2. helper = Standing(value, index, FALSE)
    BY <1>1, <2>1 DEF Standing
  <2>3. Show(helper, IF KeyRead(Run(s), s, q) THEN "key" ELSE TypeOf(Element(helper)))
    BY <1>3, <2>2
  <2> QED
    BY <1>1, <2>3, ItemShown
<1> QED
  BY <1>2, <1>3

LEMMA ItemLeft ==
  ASSUME NEW s, NEW last, NEW W, NEW doc, DomIs(s, last, W, doc),
         NEW q \in 1 .. last, IsItem(s, q),
         NEW before, before = Run(s)[q - 1], before.open # <<>>
  PROVE  Inner(before).index # Len(W[Inner(before).at].elements)
<1>1. Len(s) \in Nat /\ last \in 0 .. Len(s)
  BY DEF DomIs
<1>2. q \in 1 .. Len(s) /\ q - 1 \in 0 .. Len(s)
  BY <1>1
<1>3. IsState(before) /\ Len(before.open) \in Nat \ {0} /\ Inner(before).index \in Nat
  BY <1>1, <1>2, RunStates, InnerFacts
<1>4. Depth(s, q - 1) # 0
  BY <1>3 DEF Depth
<1>5. Stored(s, W, q)
  BY <1>4 DEF DomIs
<1>6. Inner(before).index < Len(W[Inner(before).at].elements)
  BY <1>5 DEF Stored, Host
<1>7. PICK index \in Nat : index = Inner(before).index
  BY <1>3
<1>8. PICK size : size = Len(W[Inner(before).at].elements)
  OBVIOUS
<1>9. index < size => index # size
  OBVIOUS
<1> QED
  BY <1>6, <1>7, <1>8, <1>9

\* The first call inside a container.
LEMMA FirstCall ==
  ASSUME NEW s, NEW last, NEW W, NEW doc, DomIs(s, last, W, doc),
         NEW q \in 1 .. last, IsEvent(s, q), NEW st, st = Run(s)[q],
         st.expects = "first", HelpersAre(container_stack, W, st), CallNext
  PROVE  WalkReads(s, last, W, NextEvent(s, q))'
<1>1. Len(s) \in Nat /\ last \in 0 .. Len(s) /\ IsWhole(Run(s)[last])
  BY DEF DomIs
<1>2. q \in 1 .. Len(s) /\ q \in 0 .. last /\ q \in 0 .. Len(s) /\ q - 1 \in 0 .. Len(s)
  BY <1>1
<1>3. PICK r : r = Run(s)
  OBVIOUS
<1>4. IsState(st) /\ st.open # <<>>
  <2>1. IsState(st)
    BY <1>1, <1>2, RunStates
  <2> QED
    BY <2>1 DEF IsState
<1>5. PICK value, index : value = W[Inner(st).at] /\ index = Inner(st).index
  OBVIOUS
<1>6. /\ value.kind = Inner(st).kind /\ value.kind \in Container
      /\ index \in Nat /\ Len(st.open) \in Nat \ {0}
  BY <1>2, <1>4, <1>5, ScopeKind
<1>7. CallDoes(TopAs(st, value, index))
  <2>1. container_stack # <<>> /\ Top = TopAs(st, value, index)
    BY <1>2, <1>4, <1>5, TopNow
  <2> QED
    BY <2>1, CallsTop
<1>8. PICK size : size = Len(value.elements)
  OBVIOUS
<1>9. IF index = size THEN Leave
      ELSE IF value.kind = "object" THEN Show(Standing(value, index, TRUE), "key")
      ELSE Show(Standing(value, index, FALSE),
                TypeOf(Element(Standing(value, index, FALSE))))
  BY <1>6, <1>7, <1>8, TopDoes
<1>10. PICK e : e = q + 1
  OBVIOUS
<1>11. /\ e \in 1 .. last /\ NextEvent(s, q) = e
       /\ \/ ScalarRead(r, s, e) \/ BracketRead(r, s, e)
          \/ KeyRead(r, s, e) \/ CloserRead(r, s, e)
  <2>1. r[q].expects = "first"
    BY <1>3
  <2> QED
    BY <1>1, <1>3, <1>10, <2>1, AfterBracket
<1>12. e - 1 = q
  BY <1>10
<1>13. CASE CloserRead(r, s, e)
  <2>1. Len(W[Host(s, e).at].elements) = CountAt(Run(s)[e - 1])
    BY <1>3, <1>11, <1>13 DEF DomIs
  <2>2. size = 0
    BY <1>5, <1>8, <1>12, <2>1 DEF Host, CountAt
  <2>3. index = 0
    <3>1. ScalarRead(r, s, q) \/ BracketRead(r, s, q) \/ KeyRead(r, s, q)
            \/ CloserRead(r, s, q)
      BY <1>1, <1>3, EventIs
    <3>2. IsState(r[q - 1])
      BY <1>1, <1>2, <1>3, RunStates
    <3>3. ~ScalarRead(r, s, q) /\ ~KeyRead(r, s, q) /\ ~CloserRead(r, s, q)
      <4>1. PICK was : was = r[q - 1]
        OBVIOUS
      <4>2. was = [expects |-> was.expects, open |-> was.open]
        BY <3>2, <4>1 DEF IsState
      <4>3. /\ Expecting(was, "separator").expects = "separator"
            /\ Expecting(was, "colon").expects = "colon"
            /\ Shallower(was).expects = "separator"
        BY <4>2 DEF Expecting, Shallower
      <4> QED
        BY <1>3, <4>1, <4>3 DEF ScalarRead, KeyRead, CloserRead
    <3>4. PICK kind \in Container : st = Deeper(r[q - 1], kind, q)
      BY <1>3, <3>1, <3>3 DEF BracketRead
    <3>5. Inner(st) = [at |-> q, kind |-> kind, index |-> 0]
      <4>1. q \in Nat \ {0}
        BY <1>2
      <4>2. Inner(Deeper(r[q - 1], kind, q)) = [at |-> q, kind |-> kind, index |-> 0]
        BY <3>2, <4>1, DeeperState
      <4> QED
        BY <3>4, <4>2
    <3> QED
      BY <1>5, <3>5
  <2>4. Leave
    BY <1>9, <2>2, <2>3
  <2>5. CloserRead(Run(s), s, e) /\ HelpersAre(container_stack, W, Run(s)[e - 1])
    BY <1>3, <1>12, <1>13
  <2>6. WalkReads(s, last, W, e)'
    BY <1>11, <2>4, <2>5, CloserShown
  <2> QED
    BY <1>11, <2>6
<1>14. CASE ~CloserRead(r, s, e)
  <2>1. IsItem(s, e)
    BY <1>3, <1>11, <1>14 DEF IsItem
  <2>2. st = Run(s)[e - 1]
    BY <1>12
  <2>3. index # size
    <3>1. Inner(st).index # Len(W[Inner(st).at].elements)
      BY <1>4, <1>11, <2>1, <2>2, ItemLeft
    <3> QED
      BY <1>5, <1>8, <3>1
  <2>4. PICK is_key \in BOOLEAN : is_key <=> KeyRead(Run(s), s, e)
    BY DEF KeyRead
  <2>5. is_key <=> value.kind = "object"
    <3>1. ValueNext(st) <=> Inner(st).kind = "array"
      BY DEF ValueNext
    <3>2. KeyNext(st) <=> Inner(st).kind = "object"
      BY DEF KeyNext
    <3>3. /\ ScalarRead(r, s, e) \/ BracketRead(r, s, e) => ValueNext(st)
          /\ KeyRead(r, s, e) => KeyNext(st)
      BY <1>3, <2>2 DEF ScalarRead, BracketRead, KeyRead
    <3> QED
      BY <1>3, <1>6, <1>11, <1>14, <2>4, <3>1, <3>2, <3>3
  <2>6. IF is_key THEN Show(Standing(value, index, TRUE), "key")
        ELSE Show(Standing(value, index, FALSE),
                  TypeOf(Element(Standing(value, index, FALSE))))
    BY <1>9, <2>3, <2>5
  <2>7. SameOpen(st, st) /\ Len(st.open) \in Nat \ {0}
    BY <1>6, SameItself
  <2>8. WalkReads(s, last, W, e)'
    BY <1>5, <1>11, <2>1, <2>2, <2>4, <2>6, <2>7, ItemStands
  <2> QED
    BY <1>11, <2>8
<1> QED
  BY <1>13, <1>14

\* The call after a key.
LEMMA KeyCall ==
  ASSUME NEW s, NEW last, NEW W, NEW doc, DomIs(s, last, W, doc),
         NEW q \in 1 .. last, NEW st, st = Run(s)[q],
         st.expects = "colon", HelpersAre(container_stack, W, st), CallNext
  PROVE  WalkReads(s, last, W, NextEvent(s, q))'
<1>1. Len(s) \in Nat /\ last \in 0 .. Len(s) /\ IsWhole(Run(s)[last])
  BY DEF DomIs
<1>2. q \in 1 .. Len(s) /\ q \in 0 .. last /\ q \in 0 .. Len(s)
  BY <1>1
<1>3. PICK r : r = Run(s)
  OBVIOUS
<1>4. IsState(st) /\ st.open # <<>> /\ Inner(st).kind = "object"
  <2>1. IsState(st)
    BY <1>1, <1>2, RunStates
  <2> QED
    BY <2>1 DEF IsState
<1>5. PICK value, index : value = W[Inner(st).at] /\ index = Inner(st).index
  OBVIOUS
<1>6. /\ value.kind = "object" /\ value.kind \in Container
      /\ index \in Nat /\ Len(st.open) \in Nat \ {0}
  <2>1. /\ W[Inner(st).at].kind = Inner(st).kind /\ Inner(st).kind \in Container
        /\ Inner(st).index \in Nat /\ Len(st.open) \in Nat \ {0}
    BY <1>2, <1>4, ScopeKind
  <2> QED
    BY <1>4, <1>5, <2>1
<1>7. CallDoes(TopAs(st, value, index))
  <2>1. container_stack # <<>> /\ Top = TopAs(st, value, index)
    BY <1>2, <1>4, <1>5, TopNow
  <2> QED
    BY <2>1, CallsTop
<1>8. PICK size : size = Len(value.elements)
  OBVIOUS
<1>9. index # size =>
        Show(Standing(value, index, FALSE), TypeOf(Element(Standing(value, index, FALSE))))
  BY <1>6, <1>7, <1>8, TopDoes
<1>10. PICK e : e = q + 2
  OBVIOUS
<1>11. /\ e \in 1 .. last /\ NextEvent(s, q) = e
       /\ r[q + 1] = Expecting(st, "value")
       /\ ScalarRead(r, s, e) \/ BracketRead(r, s, e)
  <2>1. r[q].expects = "colon"
    BY <1>3
  <2> QED
    BY <1>1, <1>3, <1>10, <2>1, AfterKey
<1>12. PICK before : before = Run(s)[e - 1]
  OBVIOUS
<1>13. before = Expecting(st, "value")
  <2>1. e - 1 = q + 1
    BY <1>10
  <2> QED
    BY <1>3, <1>11, <1>12, <2>1
<1>14. before.open = st.open /\ Inner(before) = Inner(st)
  BY <1>4, <1>13, ExpectingState DEF Expectation
<1>15. SameOpen(st, before) /\ before.open # <<>>
  BY <1>4, <1>14 DEF SameOpen
<1>16. IsItem(s, e)
  BY <1>3, <1>11 DEF IsItem
<1>17. ~KeyRead(Run(s), s, e)
  <2>1. e \in 1 .. Len(s)
    BY <1>1, <1>11
  <2> QED
    BY <1>1, <1>3, <1>11, <2>1, ReadOnce
<1>18. index # size
  <2>1. Inner(before).index # Len(W[Inner(before).at].elements)
    BY <1>11, <1>12, <1>15, <1>16, ItemLeft
  <2> QED
    BY <1>5, <1>8, <1>14, <2>1
<1>19. value = W[Inner(before).at] /\ index = Inner(before).index
  BY <1>5, <1>14
<1>20. PICK is_key \in BOOLEAN : is_key = FALSE
  OBVIOUS
<1>21. is_key <=> KeyRead(Run(s), s, e)
  BY <1>17, <1>20
<1>22. IF is_key THEN Show(Standing(value, index, TRUE), "key")
       ELSE Show(Standing(value, index, FALSE),
                 TypeOf(Element(Standing(value, index, FALSE))))
  BY <1>9, <1>18, <1>20
<1>23. Len(st.open) \in Nat \ {0}
  BY <1>6
<1>24. WalkReads(s, last, W, e)'
  BY <1>11, <1>12, <1>15, <1>16, <1>19, <1>21, <1>22, <1>23, ItemStands
<1> QED
  BY <1>11, <1>24

\* The call after a value in a container, or after the end of one.
LEMMA SeparatorCall ==
  ASSUME NEW s, NEW last, NEW W, NEW doc, DomIs(s, last, W, doc),
         NEW q \in 1 .. last, NEW st, st = Run(s)[q],
         st.expects = "separator", ~IsWhole(st),
         HelpersAre(container_stack, W, st), CallNext
  PROVE  WalkReads(s, last, W, NextEvent(s, q))'
<1>1. Len(s) \in Nat /\ last \in 0 .. Len(s) /\ IsWhole(Run(s)[last])
  BY DEF DomIs
<1>2. q \in 1 .. Len(s) /\ q \in 0 .. last /\ q \in 0 .. Len(s)
  BY <1>1
<1>3. PICK r : r = Run(s)
  OBVIOUS
<1>4. IsState(st) /\ st.open # <<>>
  <2>1. IsState(st)
    BY <1>1, <1>2, RunStates
  <2> QED
    BY <2>1 DEF IsWhole
<1>5. PICK value, index : value = W[Inner(st).at] /\ index = Inner(st).index
  OBVIOUS
<1>6. /\ value.kind = Inner(st).kind /\ value.kind \in Container
      /\ index \in Nat /\ Len(st.open) \in Nat \ {0}
  BY <1>2, <1>4, <1>5, ScopeKind
<1>7. CallDoes(TopAs(st, value, index))
  <2>1. container_stack # <<>> /\ Top = TopAs(st, value, index)
    BY <1>2, <1>4, <1>5, TopNow
  <2> QED
    BY <2>1, CallsTop
<1>8. PICK size : size = Len(value.elements)
  OBVIOUS
<1>9. index # size =>
        IF index + 1 = size THEN Leave
        ELSE IF value.kind = "object" THEN Show(Standing(value, index + 1, TRUE), "key")
        ELSE Show(Standing(value, index + 1, FALSE),
                  TypeOf(Element(Standing(value, index + 1, FALSE))))
  BY <1>6, <1>7, <1>8, TopDoes
<1>10. \/ /\ q + 1 \in 1 .. last /\ NextEvent(s, q) = q + 1 /\ CloserRead(r, s, q + 1)
       \/ /\ q + 2 \in 1 .. last /\ NextEvent(s, q) = q + 2
          /\ r[q + 1] = Onward(st)
          /\ \/ ScalarRead(r, s, q + 2) \/ BracketRead(r, s, q + 2)
             \/ KeyRead(r, s, q + 2)
          /\ KeyRead(r, s, q + 2) <=> Inner(st).kind = "object"
  <2>1. r[q].expects = "separator" /\ ~IsWhole(r[q]) /\ r[q] = st
    BY <1>3
  <2> QED
    BY <1>1, <1>3, <2>1, AfterValue
<1>11. CASE /\ q + 1 \in 1 .. last /\ NextEvent(s, q) = q + 1
            /\ CloserRead(r, s, q + 1)
  <2>1. PICK e : e = q + 1
    OBVIOUS
  <2>2. e \in 1 .. last /\ NextEvent(s, q) = e /\ CloserRead(r, s, e) /\ e - 1 = q
    BY <1>11, <2>1
  <2>3. Len(W[Host(s, e).at].elements) = CountAt(Run(s)[e - 1])
    BY <1>3, <2>2 DEF DomIs
  <2>4. size = index + 1
    BY <1>5, <1>8, <2>2, <2>3 DEF Host, CountAt
  <2>5. index # size
    BY <1>6, <2>4
  <2>6. Leave
    BY <1>9, <2>4, <2>5
  <2>7. CloserRead(Run(s), s, e) /\ HelpersAre(container_stack, W, Run(s)[e - 1])
    BY <1>3, <2>2
  <2>8. WalkReads(s, last, W, e)'
    BY <2>2, <2>6, <2>7, CloserShown
  <2> QED
    BY <2>2, <2>8
<1>12. CASE /\ q + 2 \in 1 .. last /\ NextEvent(s, q) = q + 2
            /\ r[q + 1] = Onward(st)
            /\ \/ ScalarRead(r, s, q + 2) \/ BracketRead(r, s, q + 2)
               \/ KeyRead(r, s, q + 2)
            /\ KeyRead(r, s, q + 2) <=> Inner(st).kind = "object"
  <2>1. PICK e : e = q + 2
    OBVIOUS
  <2>2. /\ e \in 1 .. last /\ NextEvent(s, q) = e /\ e - 1 = q + 1
        /\ ScalarRead(r, s, e) \/ BracketRead(r, s, e) \/ KeyRead(r, s, e)
        /\ KeyRead(r, s, e) <=> Inner(st).kind = "object"
    BY <1>12, <2>1
  <2>3. PICK before : before = Run(s)[e - 1]
    OBVIOUS
  <2>4. before = Onward(st)
    BY <1>3, <1>12, <2>2, <2>3
  <2>5. /\ before.open # <<>> /\ Len(before.open) = Len(st.open)
        /\ \A m \in 1 .. Len(st.open) - 1 : before.open[m] = st.open[m]
        /\ Inner(before).at = Inner(st).at /\ Inner(before).kind = Inner(st).kind
        /\ Inner(before).index = index + 1
        /\ before.open[Len(st.open)] = Inner(before)
    BY <1>4, <1>5, <2>4, OnwardState
  <2>6. SameOpen(st, before)
    <3>1. Inner(st) = st.open[Len(st.open)]
      BY <1>2, <1>4, ScopeKind
    <3> QED
      BY <2>5, <3>1 DEF SameOpen
  <2>7. IsItem(s, e)
    BY <1>3, <2>2 DEF IsItem
  <2>8. index + 1 # size
    <3>1. Inner(before).index # Len(W[Inner(before).at].elements)
      BY <2>2, <2>3, <2>5, <2>7, ItemLeft
    <3> QED
      BY <1>5, <1>8, <2>5, <3>1
  <2>9. index # size
    <3>1. e \in 1 .. Len(s) /\ e - 1 \in 0 .. Len(s)
      BY <1>1, <2>2
    <3>2. Depth(s, e - 1) # 0
      BY <1>6, <2>3, <2>5 DEF Depth
    <3>3. Stored(s, W, e)
      BY <2>2, <2>7, <3>2 DEF DomIs
    <3>4. index + 1 < size
      BY <1>5, <1>8, <2>3, <2>5, <3>3 DEF Stored, Host
    <3>5. \A n \in Nat : n + 1 < size => n # size
      <4>1. ASSUME NEW n \in Nat, n + 1 < size, n = size
            PROVE  FALSE
        <5>1. n + 1 < n
          BY <4>1
        <5> QED
          BY <5>1
      <4> QED
        BY <4>1
    <3> QED
      BY <1>6, <3>4, <3>5
  <2>10. PICK next : next = index + 1
    OBVIOUS
  <2>11. value = W[Inner(before).at] /\ next = Inner(before).index
    BY <1>5, <2>5, <2>10
  <2>12. PICK is_key \in BOOLEAN : is_key <=> KeyRead(Run(s), s, e)
    BY DEF KeyRead
  <2>13. is_key <=> value.kind = "object"
    BY <1>3, <1>6, <2>2, <2>12
  <2>14. IF is_key THEN Show(Standing(value, next, TRUE), "key")
         ELSE Show(Standing(value, next, FALSE),
                   TypeOf(Element(Standing(value, next, FALSE))))
    BY <1>9, <2>8, <2>9, <2>10, <2>13
  <2>15. Len(st.open) \in Nat \ {0}
    BY <1>6
  <2>16. WalkReads(s, last, W, e)'
    BY <2>2, <2>3, <2>6, <2>7, <2>11, <2>12, <2>14, <2>15, ItemStands
  <2> QED
    BY <2>2, <2>16
<1> QED
  BY <1>10, <1>11, <1>12

\* A call of next() shows the next event of the text.
LEMMA CallShows ==
  ASSUME NEW s, NEW last, NEW W, NEW doc, DomIs(s, last, W, doc),
         NEW q, WalkReads(s, last, W, q), CallNext
  PROVE  WalkReads(s, last, W, NextEvent(s, q))'
<1>1. Len(s) \in Nat /\ last \in 0 .. Len(s) /\ last \in Nat /\ IsWhole(Run(s)[last])
  BY DEF DomIs
<1>2. ASSUME NEW helper, container_stack = <<helper>>, helper.value.kind \in ScalarKind
      PROVE  WalkReads(s, last, W, 0)'
  <2>1. container_stack # <<>> /\ Top = helper
    <3>1. Len(container_stack) = 1 /\ container_stack[1] = helper
      BY <1>2
    <3> QED
      BY <1>2, <3>1 DEF Top, Last
  <2>2. CallDoes(helper)
    BY <2>1, CallsTop
  <2>3. Show(helper, "end_of_document")
    BY <1>2, <2>2 DEF CallDoes
  <2>4. "end_of_document" \notin Container
    BY ShownTypes
  <2>5. /\ current_type' = "end_of_document"
        /\ container_stack' = Append(Front(container_stack), helper)
    BY <2>3, <2>4 DEF Show
  <2>6. container_stack' = <<helper>>
    <3>1. Append(Front(<<helper>>), helper) = <<helper>>
      <4>1. Front(<<helper>>) = <<>>
        BY DEF Front
      <4> QED
        BY <4>1
    <3> QED
      BY <1>2, <2>5, <3>1
  <2> QED
    BY <1>2, <2>5, <2>6 DEF WalkReads
<1>3. ASSUME container_stack = <<>>
      PROVE  WalkReads(s, last, W, 0)'
  BY <1>3, CallsNothing DEF WalkReads
<1>4. CASE q = 0
  <2>1. NextEvent(s, q) = 0
    BY <1>4 DEF NextEvent
  <2> QED
    BY <1>2, <1>3, <1>4, <2>1 DEF WalkReads
<1>5. CASE q # 0
  <2>1. PICK st : st = Run(s)[q]
    OBVIOUS
  <2>2. /\ q \in 1 .. last /\ IsEvent(s, q)
        /\ IF OnlyScalar(s, q) THEN container_stack = <<Helper(W[q])>>
                               ELSE HelpersAre(container_stack, W, st)
    BY <1>5, <2>1 DEF WalkReads
  <2>3. q \in 1 .. Len(s) /\ q \in 0 .. Len(s) /\ q - 1 \in 0 .. Len(s)
    BY <1>1, <2>2
  <2>4. PICK r : r = Run(s)
    OBVIOUS
  <2>5. ScalarRead(r, s, q) \/ BracketRead(r, s, q) \/ KeyRead(r, s, q)
          \/ CloserRead(r, s, q)
    BY <1>1, <2>2, <2>4, EventIs
  <2>6. CASE IsWhole(st)
    <3>1. NextEvent(s, q) = 0
      BY <2>1, <2>6 DEF NextEvent
    <3>2. CASE OnlyScalar(s, q)
      <4>1. ~BracketRead(r, s, q) /\ ~CloserRead(r, s, q)
        <5>1. s[q] \in ScalarKind
          BY <3>2 DEF OnlyScalar
        <5>2. IsState(r[q - 1])
          BY <1>1, <2>3, <2>4, RunStates
        <5>3. BracketRead(r, s, q) => s[q] \in Opening
          BY TokenNames DEF BracketRead
        <5>4. CloserRead(r, s, q) => s[q] \in Closing
          BY <5>2, InnerFacts, TokenNames DEF CloserRead, CloserNext
        <5> QED
          BY <5>1, <5>3, <5>4, TokenNames
      <4>2. W[q] = Scalar(s[q], Payload(s[q], q)) /\ s[q] \in ScalarKind
        <5>1. ScalarRead(Run(s), s, q) \/ KeyRead(Run(s), s, q)
          BY <2>4, <2>5, <4>1
        <5> QED
          BY <2>2, <3>2, <5>1 DEF DomIs, OnlyScalar
      <4>3. Helper(W[q]).value.kind \in ScalarKind
        BY <4>2 DEF Helper, Scalar, Dom
      <4>4. container_stack = <<Helper(W[q])>>
        BY <2>2, <3>2
      <4> QED
        BY <1>2, <3>1, <4>3, <4>4
    <3>3. CASE ~OnlyScalar(s, q)
      <4>1. Len(container_stack) = 0 /\ \E S : container_stack \in Seq(S)
        BY <2>2, <2>6, <3>3, EmptySeq DEF HelpersAre, IsWhole
      <4>2. container_stack = <<>>
        BY <4>1, EmptySeq
      <4> QED
        BY <1>3, <3>1, <4>2
    <3> QED
      BY <3>2, <3>3
  <2>7. CASE ~IsWhole(st)
    <3>1. HelpersAre(container_stack, W, st)
      BY <2>1, <2>2, <2>7 DEF OnlyScalar
    <3>2. IsState(r[q - 1])
      BY <1>1, <2>3, <2>4, RunStates
    <3>3. st.expects \in {"first", "colon", "separator"}
      <4>1. PICK was : was = r[q - 1]
        OBVIOUS
      <4>2. was = [expects |-> was.expects, open |-> was.open]
        BY <3>2, <4>1 DEF IsState
      <4>3. /\ Expecting(was, "separator").expects = "separator"
            /\ Expecting(was, "colon").expects = "colon"
            /\ Shallower(was).expects = "separator"
            /\ \A kind \in Container : Deeper(was, kind, q).expects = "first"
        BY <4>2 DEF Expecting, Shallower, Deeper
      <4> QED
        BY <2>1, <2>4, <2>5, <4>1, <4>3
           DEF ScalarRead, BracketRead, KeyRead, CloserRead
    <3>4. CASE st.expects = "first"
      BY <2>1, <2>2, <3>1, <3>4, FirstCall
    <3>5. CASE st.expects = "colon"
      BY <2>1, <2>2, <3>1, <3>5, KeyCall
    <3>6. CASE st.expects = "separator"
      BY <2>1, <2>2, <2>7, <3>1, <3>6, SeparatorCall
    <3> QED
      BY <3>3, <3>4, <3>5, <3>6
  <2> QED
    BY <2>6, <2>7
<1> QED
  BY <1>4, <1>5

\* The constructor of the traverser shows the first event.
LEMMA ConstructShows ==
  ASSUME NEW s, NEW last, NEW W, DomIs(s, last, W, document), Construct
  PROVE  WalkReads(s, last, W, FirstEvent(s))'
<1>1. Len(s) \in Nat /\ last \in 0 .. Len(s) /\ IsWhole(Run(s)[last])
  BY DEF DomIs
<1>2. PICK r, e : r = Run(s) /\ e = FirstEvent(s)
  OBVIOUS
<1>3. /\ e \in 1 .. last /\ IsEvent(s, e) /\ r[e - 1] = Outset
      /\ ScalarRead(r, s, e) \/ BracketRead(r, s, e)
  BY <1>1, <1>2, FirstIs
<1>4. e \in 1 .. Len(s) /\ e # 0 /\ e \in Nat \ {0}
  BY <1>1, <1>3
<1>5. current_type' = TypeOf(W[e]) /\ container_stack' = <<Helper(W[e])>>
  BY <1>2 DEF Construct, DomIs
<1>6. IsState(Outset)
  <2>1. e - 1 \in 0 .. Len(s)
    BY <1>4
  <2>2. IsState(Run(s)[e - 1])
    BY <1>1, <2>1, RunStates
  <2> QED
    BY <1>2, <1>3, <2>2
<1>7. CASE ScalarRead(r, s, e)
  <2>1. /\ ~KeyRead(r, s, e) /\ ~BracketRead(r, s, e) /\ ~CloserRead(r, s, e)
    BY <1>1, <1>2, <1>4, <1>7, ReadOnce
  <2>2. ShownAt(current_type', s, W, e)
    BY <1>2, <1>5, <2>1 DEF ShownAt
  <2>3. OnlyScalar(s, e)
    <3>1. s[e] \in ScalarKind /\ r[e] = Expecting(Outset, "separator")
      BY <1>3, <1>7 DEF ScalarRead
    <3>2. IsWhole(Expecting(Outset, "separator"))
      BY DEF Expecting, Outset, IsWhole
    <3> QED
      BY <1>2, <3>1, <3>2 DEF OnlyScalar
  <2> QED
    BY <1>2, <1>3, <1>4, <1>5, <2>2, <2>3 DEF WalkReads
<1>8. CASE BracketRead(r, s, e)
  <2>1. /\ ~ScalarRead(r, s, e) /\ ~KeyRead(r, s, e) /\ ~CloserRead(r, s, e)
    BY <1>1, <1>2, <1>4, <1>8, ReadOnce
  <2>2. W[e].kind \in Container
    BY <1>2, <1>3, <1>8 DEF DomIs
  <2>3. TypeOf(W[e]) = W[e].kind
    BY <2>2, ShownTypes
  <2>4. ShownAt(current_type', s, W, e)
    BY <1>2, <1>5, <2>1, <2>3 DEF ShownAt
  <2>5. PICK kind \in Container : r[e] = Deeper(Outset, kind, e)
    BY <1>3, <1>8 DEF BracketRead
  <2>6. PICK st : st = Run(s)[e]
    OBVIOUS
  <2>7. /\ st.expects = "first" /\ Len(st.open) = 1
        /\ st.open[1] = [at |-> e, kind |-> kind, index |-> 0]
    <3>1. /\ Deeper(Outset, kind, e).expects = "first"
          /\ Len(Deeper(Outset, kind, e).open) = Len(Outset.open) + 1
          /\ Deeper(Outset, kind, e).open[Len(Outset.open) + 1] =
               [at |-> e, kind |-> kind, index |-> 0]
      BY <1>4, <1>6, DeeperState
    <3>2. Len(Outset.open) = 0
      BY DEF Outset
    <3> QED
      BY <1>2, <2>5, <2>6, <3>1, <3>2
  <2>8. PICK helper : helper = Helper(W[e])
    OBVIOUS
  <2>9. HelperIs(helper, W, st, 1)
    BY <2>7, <2>8 DEF HelperIs, Helper
  <2>10. HelpersAre(<<helper>>, W, st)
    <3>1. PICK helpers : helpers = <<helper>>
      OBVIOUS
    <3>2. helpers \in Seq({helper}) /\ Len(helpers) = 1 /\ helpers[1] = helper
      BY <3>1
    <3>3. \A m \in 1 .. 1 : m = 1
      OBVIOUS
    <3>4. HelpersAre(helpers, W, st)
      BY <2>7, <2>9, <3>2, <3>3 DEF HelpersAre
    <3> QED
      BY <3>1, <3>4
  <2>11. ~OnlyScalar(s, e)
    BY <2>6, <2>7 DEF OnlyScalar, IsWhole
  <2> QED
    BY <1>2, <1>3, <1>4, <1>5, <2>4, <2>6, <2>8, <2>10, <2>11 DEF WalkReads
<1> QED
  BY <1>3, <1>7, <1>8

-----------------------------------------------------------------------------
(***************************************************************************)
(* What is shown, and what the getters return.                             *)
(***************************************************************************)

ShownAs ==
  [kind \in ScalarKind |-> IF kind \in NumberKind THEN NumberType[kind]
                                                  ELSE CommonType[kind]]

LEMMA ShownScalar ==
  ASSUME NEW kind \in ScalarKind, NEW payload
  PROVE  /\ Scalar(kind, payload).payload = payload
         /\ Scalar(kind, payload).kind = kind
         /\ TypeOf(Scalar(kind, payload)) = ShownAs[kind]
         /\ ShownAs[kind] \in WithGetter \/ kind = "null"
         /\ kind = "null" => ShownAs[kind] = "null"
<1>1. Scalar(kind, payload).kind = kind /\ Scalar(kind, payload).payload = payload
  BY DEF Scalar, Dom
<1>2. TypeOf(Scalar(kind, payload)) = ShownAs[kind]
  BY <1>1 DEF TypeOf, ShownAs
<1>3. ShownAs[kind] \in WithGetter \/ kind = "null"
  BY TokenNames DEF ShownAs, NumberKind, NumberType, CommonType, WithGetter
<1>4. kind = "null" => ShownAs[kind] = "null"
  BY TokenNames DEF ShownAs, NumberKind, CommonType
<1> QED
  BY <1>1, <1>2, <1>3, <1>4

LEMMA NoGetter ==
  /\ "end_of_document" \notin WithGetter /\ "end_of_container" \notin WithGetter
  /\ "null" \notin WithGetter /\ "key" \in WithGetter
  /\ \A kind \in Container : kind \notin WithGetter
  /\ "object" \notin ScalarKind /\ "array" \notin ScalarKind
  /\ \A kind \in ScalarKind : kind \notin Container
BY TokenNames DEF WithGetter

LEMMA EventIsShown ==
  ASSUME NEW s, NEW last, NEW W, NEW doc, DomIs(s, last, W, doc),
         NEW q, WalkReads(s, last, W, q)
  PROVE  Shown = EventAt(s, q, ShownAs)
<1>1. Len(s) \in Nat /\ last \in 0 .. Len(s) /\ last \in Nat /\ IsWhole(Run(s)[last])
  BY DEF DomIs
<1>2. PICK top : top = Top
  OBVIOUS
<1>3. PICK getter : getter = Getter
  OBVIOUS
<1>4. Shown = Value(current_type, IF current_type \in WithGetter THEN getter ELSE NoPayload)
  BY <1>3 DEF Shown
<1>5. /\ top.value.kind = "object" /\ top.is_key => getter = top.value.keys[top.at + 1]
      /\ top.value.kind = "object" /\ ~top.is_key => getter = Element(top).payload
      /\ top.value.kind = "array" => getter = Element(top).payload
      /\ top.value.kind \in ScalarKind => getter = top.value.payload
  BY <1>2, <1>3, NoGetter, TokenNames DEF Getter
<1>6. CASE q = 0
  <2>1. current_type = "end_of_document"
    BY <1>6 DEF WalkReads
  <2>2. EventAt(s, q, ShownAs) = Value("end_of_document", NoPayload)
    BY <1>6 DEF EventAt
  <2> QED
    BY <1>4, <2>1, <2>2, NoGetter
<1>7. CASE q # 0
  <2>1. PICK r, st : r = Run(s) /\ st = Run(s)[q]
    OBVIOUS
  <2>2. /\ q \in 1 .. last /\ IsEvent(s, q) /\ ShownAt(current_type, s, W, q)
        /\ IF OnlyScalar(s, q) THEN container_stack = <<Helper(W[q])>>
                               ELSE HelpersAre(container_stack, W, st)
    BY <1>7, <2>1 DEF WalkReads
  <2>3. q \in 1 .. Len(s) /\ q - 1 \in 0 .. Len(s) /\ q \in 0 .. last
    BY <1>1, <2>2
  <2>4. ScalarRead(r, s, q) \/ BracketRead(r, s, q) \/ KeyRead(r, s, q)
          \/ CloserRead(r, s, q)
    BY <1>1, <2>1, <2>2, EventIs
  <2>5. PICK before : before = Run(s)[q - 1]
    OBVIOUS
  <2>6. IsState(before)
    BY <1>1, <2>3, <2>5, RunStates
  \* The helper on top stands on an item that was just read.
  <2>7. ASSUME IsItem(s, q), before.open # <<>>, st.open = before.open,
               st.expects = IF KeyRead(r, s, q) THEN "colon" ELSE "separator",
               ~OnlyScalar(s, q)
        PROVE  /\ top.value.kind \in Container
               /\ KeyRead(r, s, q) =>
                    top.is_key /\ top.value.keys[top.at + 1] = W[q].payload
               /\ ~KeyRead(r, s, q) => ~top.is_key /\ Element(top) = W[q]
    <3>1. Inner(st) = Inner(before) /\ st.open # <<>>
      BY <2>7 DEF Inner
    <3>2. HelpersAre(container_stack, W, st)
      BY <2>2, <2>7
    <3>3. top = TopAs(st, W[Inner(st).at], Inner(st).index)
      BY <1>2, <2>1, <2>3, <3>1, <3>2, TopNow
    <3>4. W[Inner(st).at].kind \in Container
      <4>1. W[Inner(st).at].kind = Inner(st).kind /\ Inner(st).kind \in Container
        BY <2>1, <2>3, <3>1, ScopeKind
      <4> QED
        BY <4>1
    <3>5. top.value = W[Host(s, q).at] /\ top.at = Host(s, q).index
      BY <2>5, <3>1, <3>3 DEF TopAs, Host
    <3>6. top.is_key <=> KeyRead(r, s, q)
      BY <2>7, <3>3 DEF TopAs
    <3>7. /\ ~KeyRead(r, s, q) => Element(top) = W[q]
          /\ KeyRead(r, s, q) => top.value.keys[top.at + 1] = W[q].payload
      BY <2>1, <2>2, <2>5, <2>7, <3>5, ItemThere
    <3>8. top.value = W[Inner(st).at]
      BY <3>3 DEF TopAs
    <3> QED
      BY <3>4, <3>6, <3>7, <3>8
  <2>8. CASE ScalarRead(r, s, q)
    <3>1. /\ ~BracketRead(r, s, q) /\ ~KeyRead(r, s, q) /\ ~CloserRead(r, s, q)
      BY <1>1, <2>1, <2>3, <2>8, ReadOnce
    <3>2. /\ s[q] \in ScalarKind /\ st = Expecting(before, "separator")
          /\ W[q] = Scalar(s[q], Payload(s[q], q))
      BY <2>1, <2>2, <2>5, <2>8 DEF ScalarRead, DomIs
    <3>3. st.expects = "separator" /\ st.open = before.open
      BY <2>6, <3>2, ExpectingState DEF Expectation
    <3>4. /\ W[q].payload = Payload(s[q], q) /\ W[q].kind = s[q]
          /\ TypeOf(W[q]) = ShownAs[s[q]]
          /\ ShownAs[s[q]] \in WithGetter \/ s[q] = "null"
          /\ s[q] = "null" => ShownAs[s[q]] = "null"
      BY <3>2, ShownScalar
    <3>5. current_type = ShownAs[s[q]]
      BY <2>1, <2>2, <2>8, <3>4 DEF ShownAt
    <3>6. getter = Payload(s[q], q)
      <4>1. CASE OnlyScalar(s, q)
        <5>1. container_stack = <<Helper(W[q])>>
          BY <2>2, <4>1
        <5>2. Top = Helper(W[q])
          <6>1. Len(container_stack) = 1 /\ container_stack[1] = Helper(W[q])
            BY <5>1
          <6> QED
            BY <6>1 DEF Top, Last
        <5>3. top.value = W[q]
          BY <1>2, <5>2 DEF Helper
        <5> QED
          BY <1>5, <3>2, <3>4, <5>3
      <4>2. CASE ~OnlyScalar(s, q)
        <5>1. before.open # <<>>
          <6>1. ~IsWhole(st)
            BY <2>1, <3>2, <4>2 DEF OnlyScalar
          <6> QED
            BY <3>3, <6>1 DEF IsWhole
        <5>2. IsItem(s, q)
          BY <2>1, <2>8 DEF IsItem
        <5>3. top.value.kind \in Container /\ ~top.is_key /\ Element(top) = W[q]
          BY <2>7, <3>1, <3>3, <4>2, <5>1, <5>2
        <5> QED
          BY <1>5, <3>4, <5>3, TokenNames
      <4> QED
        BY <4>1, <4>2
    <3>7. s[q] = "null" => Payload(s[q], q) = NoPayload
      BY DEF Payload
    <3>8. EventAt(s, q, ShownAs) = Value(ShownAs[s[q]], Payload(s[q], q))
      <4>1. s[q] \notin {"begin_object", "begin_array"} \cup Closing
        BY <3>2, TokenNames
      <4>2. Run(s)[q].expects # "colon"
        BY <2>1, <3>3
      <4> QED
        BY <1>7, <3>2, <4>1, <4>2 DEF EventAt
    <3>9. Shown = Value(ShownAs[s[q]], Payload(s[q], q))
      BY <1>4, <3>4, <3>5, <3>6, <3>7
    <3> QED
      BY <3>8, <3>9
  <2>9. CASE KeyRead(r, s, q)
    <3>1. /\ s[q] = "string" /\ st = Expecting(before, "colon") /\ KeyNext(before)
          /\ W[q] = Scalar(s[q], Payload(s[q], q))
      BY <2>1, <2>2, <2>5, <2>9 DEF KeyRead, DomIs
    <3>2. before.open # <<>> /\ Inner(before).kind = "object"
      BY <2>6, <3>1 DEF IsState, KeyNext
    <3>3. st.expects = "colon" /\ st.open = before.open
      BY <2>6, <3>1, <3>2, ExpectingState DEF Expectation
    <3>4. ~OnlyScalar(s, q) /\ IsItem(s, q)
      BY <2>1, <2>9, <3>3 DEF OnlyScalar, IsWhole, IsItem
    <3>5. /\ top.value.kind \in Container /\ top.is_key
          /\ top.value.keys[top.at + 1] = W[q].payload
      BY <2>7, <2>9, <3>2, <3>3, <3>4
    <3>6. W[q].payload = Payload("string", q) /\ s[q] \in ScalarKind
      BY <3>1, ShownScalar, TokenNames
    <3>7. top.value.kind = "object"
      <4>1. HelpersAre(container_stack, W, st) /\ st.open # <<>>
        BY <2>2, <3>2, <3>3, <3>4
      <4>2. top = TopAs(st, W[Inner(st).at], Inner(st).index)
        BY <1>2, <2>1, <2>3, <4>1, TopNow
      <4>3. W[Inner(st).at].kind = Inner(st).kind
        BY <2>1, <2>3, <4>1, ScopeKind
      <4>4. Inner(st).kind = "object"
        BY <3>2, <3>3 DEF Inner
      <4> QED
        BY <4>2, <4>3, <4>4 DEF TopAs
    <3>8. getter = Payload("string", q)
      BY <1>5, <3>5, <3>6, <3>7
    <3>9. EventAt(s, q, ShownAs) = Value("key", Payload("string", q))
      <4>1. Run(s)[q].expects = "colon"
        BY <2>1, <3>3
      <4> QED
        BY <1>7, <3>1, <3>6, <4>1, TokenNames DEF EventAt
    <3>10. current_type = "key"
      BY <2>1, <2>2, <2>9 DEF ShownAt
    <3> QED
      BY <1>4, <3>8, <3>9, <3>10, NoGetter
  <2>10. CASE BracketRead(r, s, q)
    <3>1. W[q].kind \in Container /\ s[q] = Opener[W[q].kind]
      BY <2>1, <2>2, <2>10 DEF DomIs
    <3>2. current_type = W[q].kind
      BY <2>1, <2>2, <2>10 DEF ShownAt
    <3>3. EventAt(s, q, ShownAs) = Value(W[q].kind, NoPayload)
      BY <1>7, <3>1, TokenNames DEF EventAt
    <3> QED
      BY <1>4, <3>1, <3>2, <3>3, NoGetter
  <2>11. CASE CloserRead(r, s, q)
    <3>1. s[q] \in Closing
      BY <2>1, <2>5, <2>6, <2>11, InnerFacts, TokenNames DEF CloserRead, CloserNext
    <3>2. EventAt(s, q, ShownAs) = Value("end_of_container", NoPayload)
      BY <1>7, <3>1, TokenNames DEF EventAt
    <3>3. current_type = "end_of_container"
      BY <2>1, <2>2, <2>11 DEF ShownAt
    <3> QED
      BY <1>4, <3>2, <3>3, NoGetter
  <2> QED
    BY <2>4, <2>8, <2>9, <2>10, <2>11
<1> QED
  BY <1>6, <1>7

-----------------------------------------------------------------------------
(***************************************************************************)
(* The verdict. A text is accepted if and only if it is one whole value up *)
(* to its end, or to a null byte.                                          *)
(***************************************************************************)

IsTaken(s, n) ==
  /\ n \in 0 .. Len(s) /\ IsWhole(Run(s)[n])
  /\ n = Len(s) \/ s[n + 1] = "NUL"

\* A container that could be closed was, before a value or a key is read.
VerdictInv ==
  /\ state \in {"value", "key"} =>
       /\ ~CloserNext(Run(text)[at - 1], Reader!Peek)
       /\ ~(at = 1 /\ Reader!Peek = "EF")
  /\ state = "accepted" => \E n : IsTaken(text, n)
  /\ state = "rejected" => ~\E n : IsTaken(text, n)

\* Where the reader is.
Stood(s, n, st) ==
  /\ s = text /\ Len(s) \in Nat /\ n \in Nat /\ n \in 0 .. Len(s) /\ at = n + 1
  /\ n = at - 1 /\ st = Run(s)[n] /\ IsState(st) /\ ReadsOn(state, st)
  /\ frames = <<>> <=> st.open = <<>>
  /\ frames # <<>> => Reader!Frame.kind = Inner(st).kind

LEMMA StoodThere ==
  ASSUME ReaderInv, FollowInv, state \in {"value", "first", "key", "return"}
  PROVE  \E s, n, st : Stood(s, n, st)
<1>1. PICK s, n, st, calls, vals, places, W : Here(s, n, st, calls, vals, places, W)
  BY StandsHere
<1>2. /\ s = text /\ Len(s) \in Nat /\ n \in Nat /\ n \in 0 .. Len(s) /\ at = n + 1
      /\ n = at - 1 /\ st = Run(s)[n] /\ IsState(st) /\ ReadsOn(state, st)
  BY <1>1 DEF Here
<1>3. /\ calls = frames /\ calls \in Seq(Calls) /\ Len(calls) \in Nat
      /\ Len(st.open) = Len(calls)
      /\ \A m \in 1 .. Len(calls) : calls[m].kind = st.open[m].kind
  BY <1>1 DEF Here
<1>4. st.open \in Seq(Scopes)
  BY <1>2 DEF IsState
<1>5. frames = <<>> <=> st.open = <<>>
  BY <1>3, <1>4, EmptySeq
<1>6. ASSUME frames # <<>>
      PROVE  Reader!Frame.kind = Inner(st).kind
  <2>1. Len(calls) # 0 /\ Len(calls) \in 1 .. Len(calls)
    BY <1>3, <1>6, EmptySeq
  <2>2. Inner(st) = st.open[Len(calls)]
    BY <1>2, <1>3, <1>5, <1>6, InnerFacts
  <2>3. Reader!Frame = calls[Len(calls)]
    BY <1>3, SameWords DEF Reader!Frame, Last
  <2> QED
    BY <1>3, <2>1, <2>2, <2>3
<1> QED
  BY <1>2, <1>5, <1>6 DEF Stood

\* A token that is not the end of the text is in it.
LEMMA TokenHere ==
  ASSUME NEW s, NEW n, NEW st, Stood(s, n, st)
  PROVE  /\ n < Len(s) => Reader!Peek = s[n + 1]
         /\ n = Len(s) => Reader!Peek = "NUL"
BY DEF Stood, Reader!Peek, Reader!TokenAt

\* Before the last token of a value there is something to read, and after it
\* nothing.
LEMMA TakenAhead ==
  ASSUME NEW s, NEW n, NEW st, Stood(s, n, st), st.expects # "nothing",
         NEW last, IsTaken(s, last), ~(at = 1 /\ Reader!Peek = "EF")
  PROVE  \/ IsWhole(st) /\ Reader!Peek = "NUL"
         \/ /\ ~IsWhole(st) /\ n + 1 \in 1 .. Len(s) /\ n < last
            /\ Reader!Peek = s[n + 1]
            /\ TokenReads(st, Run(s)[n + 1], Reader!Peek, n + 1)
            /\ ~(n + 1 = 1 /\ Reader!Peek = "EF")
<1>1. /\ Len(s) \in Nat /\ n \in Nat /\ n \in 0 .. Len(s) /\ at = n + 1 /\ st = Run(s)[n]
  BY DEF Stood
<1>2. /\ last \in 0 .. Len(s) /\ IsWhole(Run(s)[last])
      /\ last = Len(s) \/ s[last + 1] = "NUL"
  BY DEF IsTaken
<1>3. CASE n = last /\ IsWhole(st)
  BY <1>1, <1>2, <1>3, TokenHere
<1>4. CASE /\ n < last /\ ~IsWhole(st) /\ n + 1 \in 1 .. Len(s)
           /\ TokenReads(st, Run(s)[n + 1], s[n + 1], n + 1)
  <2>1. Reader!Peek = s[n + 1]
    BY <1>1, <1>2, <1>4, TokenHere
  <2> QED
    BY <1>1, <1>4, <2>1
<1> QED
  BY <1>1, <1>2, <1>3, <1>4, WholeAhead

LEMMA BeginVerdict ==
  ASSUME FollowInv, Reader!Begin
  PROVE  VerdictInv'
<1>1. /\ state = "begin" /\ at = 1 /\ text' = text /\ Len(text) \in Nat
      /\ at' = IF Reader!TokenAt(1) = "EF" THEN 2 ELSE 1
      /\ state' = IF Reader!TokenAt(at') = "NUL" THEN "rejected" ELSE "value"
  BY DEF FollowInv, Reader!Begin, Reader!Peek
<1>2. PICK s, size : s = text /\ size = Len(s) /\ size \in Nat
  BY <1>1
<1>3. PICK first : first = FirstEvent(s)
  OBVIOUS
<1>4. \/ /\ at' = 1 /\ Reader!TokenAt(1) # "EF"
         /\ size = 0 \/ (first = 1 /\ s[1] # "EF")
      \/ at' = 2 /\ size # 0 /\ s[1] = "EF" /\ first = 2
  BY <1>1, <1>2, <1>3 DEF Reader!TokenAt, FirstEvent
<1>5. Reader!Peek' = Reader!TokenAt(at')
  BY <1>1 DEF Reader!Peek, Reader!TokenAt
<1>6. CASE state' = "rejected"
  <2>1. Reader!TokenAt(at') = "NUL"
    BY <1>1, <1>6
  <2>2. ASSUME NEW last, IsTaken(s, last)
        PROVE  FALSE
    <3>1. last \in 0 .. size /\ IsWhole(Run(s)[last])
      BY <1>2, <2>2 DEF IsTaken
    <3>2. /\ first \in 1 .. last
          /\ ScalarRead(Run(s), s, first) \/ BracketRead(Run(s), s, first)
      BY <1>2, <1>3, <3>1, FirstIs
    <3>3. s[first] \in ScalarKind \cup Opening
      BY <3>2, TokenNames DEF ScalarRead, BracketRead
    <3>4. first <= size /\ first = at'
      BY <1>2, <1>4, <3>1, <3>2
    <3>5. Reader!TokenAt(at') = s[first]
      BY <1>2, <1>4, <3>4 DEF Reader!TokenAt
    <3> QED
      BY <2>1, <3>3, <3>5, TokenNames
  <2> QED
    BY <1>1, <1>2, <1>6, <2>2 DEF VerdictInv
<1>7. CASE state' = "value"
  <2>1. Run(s)[at' - 1] = Outset
    <3>1. Run(s)[0] = Outset
      BY <1>2, RunSteps
    <3>2. CASE at' = 1
      BY <3>1, <3>2
    <3>3. CASE at' = 2 /\ size # 0 /\ s[1] = "EF"
      <4>1. Run(s)[1] = Advance(Run(s)[0], s[1], 1)
        BY <1>2, <3>3, RunSteps
      <4>2. IsState(Outset)
        BY <1>2, <3>1, RunStates
      <4>3. TokenReads(Outset, Outset, s[1], 1)
        BY <3>3 DEF TokenReads
      <4> QED
        BY <3>1, <3>3, <4>1, <4>2, <4>3, AdvanceIs
    <3> QED
      BY <1>4, <3>2, <3>3
  <2>2. ~CloserNext(Outset, Reader!Peek')
    BY DEF CloserNext, Outset
  <2>3. ~(at' = 1 /\ Reader!Peek' = "EF")
    BY <1>4, <1>5
  <2> QED
    BY <1>1, <1>2, <1>7, <2>1, <2>2, <2>3 DEF VerdictInv
<1> QED
  BY <1>1, <1>6, <1>7

\* From where a value or a key may follow.
LEMMA OnwardVerdict ==
  ASSUME state' \in {"value", "first", "key", "return"}, at' # 1,
         state' \in {"value", "key"} => ~CloserNext(Run(text)[at - 1], Reader!Peek)'
  PROVE  VerdictInv'
BY DEF VerdictInv

LEMMA FirstVerdict ==
  ASSUME ReaderInv, FollowInv, Reader!First
  PROVE  VerdictInv'
<1>1. /\ state = "first" /\ Reader!Peek # Closer[Reader!Frame.kind]
      /\ state' \in {"value", "key"} /\ text' = text /\ at' = at
  BY DEF Reader!First, Reader!NextPart, Reader!Closer, Closer
<1>2. PICK s, n, st : Stood(s, n, st)
  BY <1>1, StoodThere
<1>3. /\ s = text /\ n \in Nat /\ at = n + 1 /\ st = Run(s)[n] /\ n = at - 1 /\ IsState(st)
      /\ st.expects = "first" /\ (frames # <<>> => Reader!Frame.kind = Inner(st).kind)
      /\ (frames = <<>> <=> st.open = <<>>) /\ Len(s) \in Nat
  BY <1>1, <1>2 DEF Stood, ReadsOn
<1>4. st.open # <<>>
  BY <1>3 DEF IsState
<1>5. Reader!Peek' = Reader!Peek
  BY <1>1 DEF Reader!Peek, Reader!TokenAt
<1>6. ~CloserNext(st, Reader!Peek)
  BY <1>1, <1>3, <1>4 DEF CloserNext
<1>7. n # 0
  BY <1>3, RunSteps DEF Outset
<1> QED
  BY <1>1, <1>3, <1>5, <1>6, <1>7, OnwardVerdict

LEMMA CommaVerdict ==
  ASSUME ReaderInv, FollowInv, Reader!Comma
  PROVE  VerdictInv'
<1>1. /\ state = "return" /\ frames # <<>> /\ Reader!Peek = "comma"
      /\ state' \in {"value", "key"} /\ text' = text /\ at' = at + 1
  BY DEF Reader!Comma, Reader!NextPart
<1>2. PICK s, n, st : Stood(s, n, st)
  BY <1>1, StoodThere
<1>3. /\ s = text /\ n \in Nat /\ at = n + 1 /\ st = Run(s)[n] /\ IsState(st)
      /\ st.expects = "separator" /\ st.open # <<>> /\ Len(s) \in Nat /\ n \in 0 .. Len(s)
  BY <1>1, <1>2 DEF Stood, ReadsOn
<1>4. n < Len(s) /\ s[n + 1] = "comma"
  BY <1>1, <1>2, <1>3, TokenHere
<1>5. Comes(s, n, n + 1, st)
  BY <1>3, <1>4 DEF Comes
<1>6. Run(s)[n + 1].expects \in {"key", "value"}
  BY <1>3, <1>4, <1>5, CommaComes
<1>7. at' # 1 /\ at' - 1 = n + 1
  BY <1>1, <1>3
<1>8. ~CloserNext(Run(s)[n + 1], Reader!Peek')
  BY <1>6 DEF CloserNext
<1> QED
  BY <1>1, <1>3, <1>7, <1>8, OnwardVerdict

LEMMA KeyVerdict ==
  ASSUME ReaderInv, FollowInv, Reader!Key
  PROVE  VerdictInv'
<1>1. /\ state = "key" /\ Reader!Peek = "string" /\ Reader!TokenAt(at + 1) = "colon"
      /\ state' = "value" /\ text' = text /\ at' = at + 2
  BY DEF Reader!Key
<1>2. PICK s, n, st : Stood(s, n, st)
  BY <1>1, StoodThere
<1>3. /\ s = text /\ n \in Nat /\ at = n + 1 /\ st = Run(s)[n] /\ IsState(st)
      /\ KeyNext(st) /\ Len(s) \in Nat /\ n \in 0 .. Len(s)
  BY <1>1, <1>2 DEF Stood, ReadsOn
<1>4. n < Len(s) /\ s[n + 1] = "string"
  BY <1>1, <1>2, <1>3, TokenHere
<1>5. n + 2 <= Len(s) /\ s[n + 2] = "colon"
  BY <1>1, <1>3 DEF Reader!TokenAt
<1>6. PICK q, more : q = n + 1 /\ more = q + 1
  OBVIOUS
<1>7. Comes(s, n, q, st)
  BY <1>3, <1>4, <1>6 DEF Comes
<1>8. more \in 1 .. Len(s) /\ s[more] = "colon" /\ s[q] = "string"
  BY <1>3, <1>4, <1>5, <1>6
<1>9. Run(s)[more].expects = "value"
  BY <1>3, <1>6, <1>7, <1>8, KeyComes
<1>10. at' # 1 /\ at' - 1 = more
  BY <1>1, <1>3, <1>6
<1>11. ~CloserNext(Run(s)[more], Reader!Peek')
  BY <1>9 DEF CloserNext
<1> QED
  BY <1>1, <1>3, <1>10, <1>11, OnwardVerdict

\* What makes the reader stop: what is read next fits nothing.
LEMMA RefusedVerdict ==
  ASSUME ReaderInv, FollowInv, VerdictInv,
         Reader!NoValue \/ Reader!NoKey \/ Reader!NoSeparator
  PROVE  VerdictInv'
<1>1. /\ state \in {"value", "key", "return"} /\ state' = "rejected" /\ text' = text
      /\ at' = at
  BY DEF Reader!NoValue, Reader!NoKey, Reader!NoSeparator, Reader!Reject
<1>2. PICK s, n, st : Stood(s, n, st)
  BY <1>1, StoodThere
<1>3. /\ s = text /\ n \in Nat /\ at = n + 1 /\ st = Run(s)[n] /\ n = at - 1 /\ IsState(st)
      /\ Len(s) \in Nat /\ n \in 0 .. Len(s)
      /\ state = "value" => ValueNext(st)
      /\ state = "key" => KeyNext(st)
      /\ state = "return" => st.expects = "separator"
      /\ frames = <<>> <=> st.open = <<>>
      /\ frames # <<>> => Reader!Frame.kind = Inner(st).kind
  BY <1>2 DEF Stood, ReadsOn
<1>4. st.expects # "nothing" /\ (IsWhole(st) => state = "return" /\ frames = <<>>)
  BY <1>1, <1>3 DEF ValueNext, KeyNext, IsWhole, IsState
<1>5. state \in {"value", "key"} =>
        ~CloserNext(st, Reader!Peek) /\ ~(at = 1 /\ Reader!Peek = "EF")
  BY <1>3 DEF VerdictInv
<1>6. ~(at = 1 /\ Reader!Peek = "EF")
  <2>1. CASE state = "return" /\ at = 1
    <3>1. st = Outset
      BY <1>3, <2>1, RunSteps
    <3> QED
      BY <1>3, <2>1, <3>1 DEF Outset
  <2> QED
    BY <1>1, <1>5, <2>1
<1>7. ASSUME NEW last, IsTaken(s, last)
      PROVE  FALSE
  <2>1. \/ IsWhole(st)
        \/ /\ n + 1 \in 1 .. Len(s) /\ n < last /\ Reader!Peek = s[n + 1]
           /\ TokenReads(st, Run(s)[n + 1], Reader!Peek, n + 1)
           /\ ~(n + 1 = 1 /\ Reader!Peek = "EF")
    BY <1>2, <1>4, <1>6, <1>7, TakenAhead
  <2>2. CASE Reader!NoValue
    <3>1. state = "value" /\ Reader!Peek \notin ScalarKind \cup Opening
      BY <2>2, SameWords DEF Reader!NoValue, Reader!Opening, Opening
    <3> QED
      BY <1>3, <1>4, <1>5, <2>1, <3>1, NextToken
  <2>3. CASE Reader!NoKey
    <3>1. state = "key" /\ (Reader!Peek # "string" \/ Reader!TokenAt(at + 1) # "colon")
      BY <2>3 DEF Reader!NoKey
    <3>2. /\ n + 1 \in 1 .. Len(s) /\ n < last /\ Reader!Peek = s[n + 1]
          /\ TokenReads(st, Run(s)[n + 1], Reader!Peek, n + 1)
          /\ ~(n + 1 = 1 /\ Reader!Peek = "EF")
      BY <1>4, <2>1, <3>1
    <3>3. s[n + 1] = "string"
      BY <1>3, <1>5, <3>1, <3>2, NextToken
    <3>4. PICK q, more : q = n + 1 /\ more = q + 1
      OBVIOUS
    <3>5. Run(s)[q] = Expecting(st, "colon")
      BY <1>3, <3>1, <3>2, <3>3, <3>4, StringReads
    <3>6. Run(s)[q].expects = "colon"
      BY <1>3, <3>5 DEF Expecting, IsState
    <3>7. q \in 0 .. Len(s) /\ last \in 0 .. Len(s) /\ IsWhole(Run(s)[last])
      BY <1>3, <1>7, <3>2, <3>4 DEF IsTaken
    <3>8. /\ more \in 1 .. Len(s) /\ more # 1
          /\ TokenReads(Run(s)[q], Run(s)[more], s[more], more)
      BY <1>3, <3>2, <3>4, <3>6, <3>7, WholeAhead DEF IsWhole
    <3>9. s[more] = "colon"
      BY <3>6, <3>8, NextToken
    <3>10. Reader!TokenAt(at + 1) = "colon"
      BY <1>3, <3>4, <3>8, <3>9 DEF Reader!TokenAt
    <3> QED
      BY <3>1, <3>2, <3>3, <3>10
  <2>4. CASE Reader!NoSeparator
    <3>1. /\ state = "return" /\ frames # <<>> /\ Reader!Peek # "comma"
          /\ Reader!Peek # Closer[Reader!Frame.kind]
      BY <2>4 DEF Reader!NoSeparator, Reader!Closer, Closer
    <3>2. ~CloserNext(st, Reader!Peek)
      BY <1>3, <3>1 DEF CloserNext
    <3> QED
      BY <1>3, <1>4, <2>1, <3>1, <3>2, NextToken
  <2> QED
    BY <2>2, <2>3, <2>4
<1> QED
  BY <1>1, <1>3, <1>7 DEF VerdictInv

LEMMA FinishVerdict ==
  ASSUME ReaderInv, FollowInv, Reader!Finish
  PROVE  VerdictInv'
<1>1. /\ state = "return" /\ frames = <<>> /\ text' = text /\ at' = at
      /\ state' = IF Reader!Peek = "NUL" THEN "accepted" ELSE "rejected"
  BY DEF Reader!Finish, Reader!NothingFollows
<1>2. PICK s, n, st : Stood(s, n, st)
  BY <1>1, StoodThere
<1>3. /\ s = text /\ n \in Nat /\ at = n + 1 /\ st = Run(s)[n] /\ n = at - 1 /\ IsState(st)
      /\ Len(s) \in Nat /\ n \in 0 .. Len(s) /\ IsWhole(st)
  BY <1>1, <1>2 DEF Stood, ReadsOn, IsWhole
<1>4. n < Len(s) \/ n = Len(s)
  BY <1>3
<1>5. IsTaken(s, n) <=> Reader!Peek = "NUL"
  <2>1. n < Len(s) => Reader!Peek = s[n + 1]
    BY <1>2, TokenHere
  <2>2. n = Len(s) => Reader!Peek = "NUL"
    BY <1>2, TokenHere
  <2> QED
    BY <1>3, <1>4, <2>1, <2>2 DEF IsTaken
<1>6. \A last : IsTaken(s, last) => last = n
  <2>1. SUFFICES ASSUME NEW last, IsTaken(s, last)
                 PROVE  last = n
    OBVIOUS
  <2>2. last \in 0 .. Len(s) /\ IsWhole(Run(s)[last])
    BY <2>1 DEF IsTaken
  <2>3. st.expects # "nothing"
    BY <1>3 DEF IsWhole
  <2> QED
    BY <1>3, <2>2, <2>3, WholeAhead
<1> QED
  BY <1>1, <1>3, <1>5, <1>6 DEF VerdictInv

LEMMA VerdictStarts ==
  ASSUME Reader!Init
  PROVE  VerdictInv
BY DEF Reader!Init, VerdictInv

LEMMA VerdictKeeps == ReaderInv /\ FollowInv /\ VerdictInv /\ Reader!Parse => VerdictInv'
<1> SUFFICES ASSUME ReaderInv, FollowInv, VerdictInv, Reader!Parse
             PROVE  VerdictInv'
  OBVIOUS
<1>1. at \in Nat \ {0}
  BY DEF FollowInv
<1>2. CASE \/ Reader!ParseScalar \/ Reader!EndContainer
           \/ \E kind \in Reader!Container : Reader!StartContainer(kind)
  <2>1. state' \in {"first", "return"} /\ at' = at + 1
    BY <1>2 DEF Reader!ParseScalar, Reader!EndContainer, Reader!StartContainer
  <2> QED
    BY <1>1, <2>1, OnwardVerdict
<1> QED
  BY <1>2, BeginVerdict, FirstVerdict, KeyVerdict, CommaVerdict, RefusedVerdict,
     FinishVerdict DEF Reader!Parse
=============================================================================
