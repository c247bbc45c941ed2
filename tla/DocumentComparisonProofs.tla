---------------------- MODULE DocumentComparisonProofs ----------------------
(***************************************************************************)
(* Proofs about DocumentComparison, for any texts, sessions and limits:    *)
(* what holds of each parser and of each traverser holds of them together, *)
(* because the traverser of a parser is built on what that very parser has *)
(* accepted, and that does not change any more. What is on the heap        *)
(* follows from what the parsers have said and from the label of the one   *)
(* at work (HeapInv). Where simdjson may die is no JSON: JSON is balanced  *)
(* (JsonIsBalanced), and the machine stops where the text is (HeightInv).  *)
(*                                                                         *)
(* The lemmas about a parser and about its traverser are those of          *)
(* RapidjsonProofs, SajsonProofs and SimdjsonProofs, about the variables   *)
(* of this module. An instance repeats the definitions of what it          *)
(* instantiates: that both repetitions say the same is a lemma of its own  *)
(* (Same...).                                                              *)
(***************************************************************************)
EXTENDS DocumentComparison, StackLemmas

RapidjsonFacts == INSTANCE RapidjsonProofs
  WITH Document <- {}, document <- Head(values),
       current_type <- rj_type, container_stack <- rj_stack

-----------------------------------------------------------------------------
(***************************************************************************)
(* rapidjson.                                                              *)
(***************************************************************************)

\* The traverser is not there, or walks a document that does not change.
RapidjsonInv ==
  /\ RapidjsonFacts!ReaderInv
  /\ \/ rj_type = "none" /\ rj_stack = <<>>
     \/ /\ state = "accepted"
        /\ \E V : RapidjsonFacts!IsDom(V) /\ RapidjsonFacts!IInv(V)

LEMMA SameReader ==
  /\ Rapidjson!Init => RapidjsonFacts!Reader!Init
  /\ Rapidjson!Parse => RapidjsonFacts!Reader!Parse
<1>1. Rapidjson!Init => RapidjsonFacts!Reader!Init
  BY DEF Rapidjson!Init, RapidjsonFacts!Reader!Init
<1>2. Rapidjson!Parse => RapidjsonFacts!Reader!Parse
  BY DEF
    Rapidjson!Parse, RapidjsonFacts!Reader!Parse,
    Rapidjson!Begin, RapidjsonFacts!Reader!Begin,
    Rapidjson!ParseScalar, RapidjsonFacts!Reader!ParseScalar,
    Rapidjson!StartContainer, RapidjsonFacts!Reader!StartContainer,
    Rapidjson!NoValue, RapidjsonFacts!Reader!NoValue,
    Rapidjson!First, RapidjsonFacts!Reader!First,
    Rapidjson!Key, RapidjsonFacts!Reader!Key,
    Rapidjson!NoKey, RapidjsonFacts!Reader!NoKey,
    Rapidjson!Comma, RapidjsonFacts!Reader!Comma,
    Rapidjson!EndContainer, RapidjsonFacts!Reader!EndContainer,
    Rapidjson!NoSeparator, RapidjsonFacts!Reader!NoSeparator,
    Rapidjson!Finish, RapidjsonFacts!Reader!Finish,
    Rapidjson!NothingFollows, RapidjsonFacts!Reader!NothingFollows,
    Rapidjson!Reject, RapidjsonFacts!Reader!Reject,
    Rapidjson!Counted, RapidjsonFacts!Reader!Counted,
    Rapidjson!Frame, RapidjsonFacts!Reader!Frame,
    Rapidjson!NextPart, RapidjsonFacts!Reader!NextPart,
    Rapidjson!Peek, RapidjsonFacts!Reader!Peek,
    Rapidjson!TokenAt, RapidjsonFacts!Reader!TokenAt,
    Rapidjson!Last, RapidjsonFacts!Reader!Last,
    Rapidjson!Front, RapidjsonFacts!Reader!Front,
    Rapidjson!Scalar, RapidjsonFacts!Reader!Scalar,
    Rapidjson!Filled, RapidjsonFacts!Reader!Filled,
    Rapidjson!Empty, RapidjsonFacts!Reader!Empty,
    Rapidjson!Dom, RapidjsonFacts!Reader!Dom,
    Rapidjson!Payload, RapidjsonFacts!Reader!Payload,
    Rapidjson!NoPayload, RapidjsonFacts!Reader!NoPayload,
    Rapidjson!ScalarKind, RapidjsonFacts!Reader!ScalarKind,
    Rapidjson!AtomKind, RapidjsonFacts!Reader!AtomKind,
    Rapidjson!NumberKind, RapidjsonFacts!Reader!NumberKind,
    Rapidjson!Container, RapidjsonFacts!Reader!Container,
    Rapidjson!Opener, RapidjsonFacts!Reader!Opener,
    Rapidjson!Closer, RapidjsonFacts!Reader!Closer,
    Rapidjson!Opening, RapidjsonFacts!Reader!Opening
<1> QED
  BY <1>1, <1>2

LEMMA SameCounts == RapidjsonFacts!Reader!CountsMatchStack => CountsMatchStack
<1>1. \A kind : Rapidjson!Empty(kind) = RapidjsonFacts!Reader!Empty(kind)
  BY DEF Rapidjson!Empty, RapidjsonFacts!Reader!Empty,
         Rapidjson!Filled, RapidjsonFacts!Reader!Filled,
         Rapidjson!Dom, RapidjsonFacts!Reader!Dom,
         Rapidjson!NoPayload, RapidjsonFacts!Reader!NoPayload
<1>2. Rapidjson!Below = RapidjsonFacts!Reader!Below
  BY DEF Rapidjson!Below, RapidjsonFacts!Reader!Below,
         Rapidjson!WordsOf, RapidjsonFacts!Reader!WordsOf
<1> QED
  BY <1>1, <1>2 DEF CountsMatchStack, Rapidjson!CountsMatchStack,
                    RapidjsonFacts!Reader!CountsMatchStack

LEMMA SameRapidjsonWalk ==
  /\ RapidjsonWalk!Construct => RapidjsonFacts!Construct
  /\ RapidjsonWalk!CallNext => RapidjsonFacts!CallNext
<1>1. RapidjsonWalk!Construct => RapidjsonFacts!Construct
  BY DEF RapidjsonWalk!Construct, RapidjsonFacts!Construct,
         RapidjsonWalk!TypeOf, RapidjsonFacts!TypeOf,
         RapidjsonWalk!NumberType, RapidjsonFacts!NumberType,
         RapidjsonWalk!CommonType, RapidjsonFacts!CommonType,
         RapidjsonWalk!NumberKind, RapidjsonFacts!NumberKind,
         RapidjsonWalk!Helper, RapidjsonFacts!Helper
<1>2. RapidjsonWalk!CallNext => RapidjsonFacts!CallNext
  BY DEF
    RapidjsonWalk!CallNext, RapidjsonFacts!CallNext,
    RapidjsonWalk!LeaveEmptyObject, RapidjsonFacts!LeaveEmptyObject,
    RapidjsonWalk!FirstKey, RapidjsonFacts!FirstKey,
    RapidjsonWalk!MemberValue, RapidjsonFacts!MemberValue,
    RapidjsonWalk!NextKey, RapidjsonFacts!NextKey,
    RapidjsonWalk!ArrayNext, RapidjsonFacts!ArrayNext,
    RapidjsonWalk!SingleValueNext, RapidjsonFacts!SingleValueNext,
    RapidjsonWalk!DocumentEnded, RapidjsonFacts!DocumentEnded,
    RapidjsonWalk!Top, RapidjsonFacts!Top,
    RapidjsonWalk!TopIs, RapidjsonFacts!TopIs,
    RapidjsonWalk!AtEnd, RapidjsonFacts!AtEnd,
    RapidjsonWalk!Element, RapidjsonFacts!Element,
    RapidjsonWalk!Show, RapidjsonFacts!Show,
    RapidjsonWalk!Waiting, RapidjsonFacts!Waiting,
    RapidjsonWalk!Leave, RapidjsonFacts!Leave,
    RapidjsonWalk!NextMember, RapidjsonFacts!NextMember,
    RapidjsonWalk!NextElement, RapidjsonFacts!NextElement,
    RapidjsonWalk!TypeOf, RapidjsonFacts!TypeOf,
    RapidjsonWalk!NumberType, RapidjsonFacts!NumberType,
    RapidjsonWalk!CommonType, RapidjsonFacts!CommonType,
    RapidjsonWalk!Helper, RapidjsonFacts!Helper,
    RapidjsonWalk!ScalarKind, RapidjsonFacts!ScalarKind,
    RapidjsonWalk!AtomKind, RapidjsonFacts!AtomKind,
    RapidjsonWalk!NumberKind, RapidjsonFacts!NumberKind,
    RapidjsonWalk!Container, RapidjsonFacts!Container,
    RapidjsonWalk!Last, RapidjsonFacts!Last,
    RapidjsonWalk!Front, RapidjsonFacts!Front
<1> QED
  BY <1>1, <1>2

LEMMA SameRapidjsonProperties ==
  /\ RapidjsonFacts!IteratorsNest => IteratorsNest
  /\ RapidjsonFacts!GettersAnswer => GettersAnswer
BY DEF IteratorsNest, GettersAnswer,
       RapidjsonWalk!IteratorsNest, RapidjsonFacts!IteratorsNest,
       RapidjsonWalk!GettersAnswer, RapidjsonFacts!GettersAnswer,
       RapidjsonWalk!WithGetter, RapidjsonFacts!WithGetter,
       RapidjsonWalk!Container, RapidjsonFacts!Container,
       RapidjsonWalk!Top, RapidjsonFacts!Top,
       RapidjsonWalk!Last, RapidjsonFacts!Last,
       RapidjsonWalk!AtEnd, RapidjsonFacts!AtEnd,
       RapidjsonWalk!Element, RapidjsonFacts!Element

\* What is accepted is one value, that of a DOM.
LEMMA RapidjsonConstructs ==
  ASSUME RapidjsonInv, state = "accepted", RapidjsonWalk!Construct,
         UNCHANGED rapidjson
  PROVE  \E V : RapidjsonFacts!IsDom(V) /\ RapidjsonFacts!IInv(V)'
<1>1. PICK V, places : RapidjsonFacts!ReaderFits(V, places)
  BY DEF RapidjsonInv, RapidjsonFacts!ReaderInv
<1>2. RapidjsonFacts!IsDom(V) /\ values \in Seq(V) /\ Len(values) = 1
  BY <1>1 DEF RapidjsonFacts!ReaderFits, RapidjsonFacts!ReaderTypes,
              RapidjsonFacts!HeightFits
<1>3. Head(values) \in V
  BY <1>2
<1>4. RapidjsonFacts!Construct
  BY SameRapidjsonWalk
<1>5. CASE rj_stack = <<>>
  <2>1. rj_type = "none"
    BY <1>4 DEF RapidjsonFacts!Construct
  <2>2. <<>> \in Seq(RapidjsonFacts!HelperOf(V)) /\ Len(<<>>) = 0
    BY EmptySeq
  <2>3. RapidjsonFacts!IInv(V)
    BY <1>3, <1>5, <2>1, <2>2
      DEF RapidjsonFacts!IInv, RapidjsonFacts!GettersAnswer,
          RapidjsonFacts!WithGetter
  <2>4. UNCHANGED Head(values)
    BY DEF rapidjson
  <2>5. RapidjsonFacts!IInv(V)'
    BY <1>2, <1>4, <2>3, <2>4, RapidjsonFacts!ConstructKeeps
  <2> QED
    BY <1>2, <2>5
<1>6. CASE rj_stack # <<>>
  <2>1. PICK W : RapidjsonFacts!IsDom(W) /\ RapidjsonFacts!IInv(W)
    BY <1>6 DEF RapidjsonInv
  <2>2. UNCHANGED Head(values)
    BY DEF rapidjson
  <2>3. RapidjsonFacts!IInv(W)'
    BY <1>4, <2>1, <2>2, RapidjsonFacts!ConstructKeeps
  <2> QED
    BY <2>1, <2>3
<1> QED
  BY <1>5, <1>6

LEMMA RapidjsonRests ==
  ASSUME RapidjsonInv, UNCHANGED <<rapidjson, rapidjson_traverser>>
  PROVE  RapidjsonInv'
<1>1. RapidjsonFacts!ReaderInv'
  BY RapidjsonFacts!NothingRead DEF RapidjsonInv, rapidjson
<1>2. \A V : RapidjsonFacts!IInv(V) => RapidjsonFacts!IInv(V)'
  BY DEF rapidjson, rapidjson_traverser, RapidjsonFacts!IInv,
    RapidjsonFacts!GettersAnswer, RapidjsonFacts!Top, RapidjsonFacts!AtEnd,
    RapidjsonFacts!Stands, RapidjsonFacts!WaitsFor, RapidjsonFacts!Element
<1> QED
  BY <1>1, <1>2 DEF RapidjsonInv, rapidjson, rapidjson_traverser

LEMMA RapidjsonNext ==
  ASSUME RapidjsonInv, Next
  PROVE  RapidjsonInv'
<1>1. CASE UNCHANGED <<rapidjson, rapidjson_traverser>>
  BY <1>1, RapidjsonRests
<1>2. CASE RapidjsonParses
  <2>1. RapidjsonFacts!Reader!Parse
    BY <1>2, SameReader DEF RapidjsonParses
  <2>2. RapidjsonFacts!ReaderInv'
    BY <2>1, RapidjsonFacts!ReaderStepKeeps DEF RapidjsonInv
  <2>3. state # "accepted"
    BY <1>2 DEF RapidjsonParses, Rapidjson!Parse, Rapidjson!Begin,
      Rapidjson!ParseScalar, Rapidjson!StartContainer, Rapidjson!NoValue,
      Rapidjson!First, Rapidjson!Key, Rapidjson!NoKey, Rapidjson!Comma,
      Rapidjson!EndContainer, Rapidjson!NoSeparator, Rapidjson!Finish
  <2>4. UNCHANGED <<rj_type, rj_stack>>
    BY <1>2 DEF RapidjsonParses, traversers, rapidjson_traverser
  <2> QED
    BY <2>2, <2>3, <2>4 DEF RapidjsonInv
<1>3. CASE RapidjsonAccepts
  <2>1. /\ state = "accepted" /\ RapidjsonWalk!Construct
        /\ UNCHANGED rapidjson
    BY <1>3 DEF RapidjsonAccepts, Return, all_parsers
  <2>2. \E V : RapidjsonFacts!IsDom(V) /\ RapidjsonFacts!IInv(V)'
    BY <2>1, RapidjsonConstructs
  <2>3. RapidjsonFacts!ReaderInv'
    BY <2>1, RapidjsonFacts!NothingRead DEF RapidjsonInv, rapidjson
  <2> QED
    BY <2>1, <2>2, <2>3 DEF RapidjsonInv, rapidjson
<1>4. CASE Walk /\ "rapidjson" \in Added
  <2>1. RapidjsonFacts!CallNext /\ UNCHANGED rapidjson
    BY <1>4, SameRapidjsonWalk DEF Walk, all_parsers
  <2>2. ~(rj_type = "none" /\ rj_stack = <<>>)
    BY <2>1 DEF RapidjsonFacts!CallNext, RapidjsonFacts!DocumentEnded,
      RapidjsonFacts!LeaveEmptyObject, RapidjsonFacts!FirstKey,
      RapidjsonFacts!MemberValue, RapidjsonFacts!NextKey,
      RapidjsonFacts!ArrayNext, RapidjsonFacts!SingleValueNext,
      RapidjsonFacts!TopIs
  <2>3. PICK V : RapidjsonFacts!IsDom(V) /\ RapidjsonFacts!IInv(V)
    BY <2>2 DEF RapidjsonInv
  <2>4. UNCHANGED Head(values)
    BY <2>1 DEF rapidjson
  <2>5. RapidjsonFacts!IInv(V)'
    BY <2>1, <2>3, <2>4, RapidjsonFacts!NextKeeps
  <2>6. RapidjsonFacts!ReaderInv'
    BY <2>1, RapidjsonFacts!NothingRead DEF RapidjsonInv, rapidjson
  <2>7. state = "accepted" /\ state' = state
    BY <2>1, <2>2 DEF RapidjsonInv, rapidjson
  <2> QED
    BY <2>3, <2>5, <2>6, <2>7 DEF RapidjsonInv
<1>5. CASE Walk /\ "rapidjson" \notin Added
  BY <1>1, <1>5 DEF Walk, all_parsers
<1>6. CASE \/ SimdjsonParses \/ SimdjsonAccepts \/ SimdjsonRefuses \/ NoMemory
           \/ RapidjsonRefuses \/ SajsonParses \/ SajsonAccepts \/ SajsonRefuses
           \/ DeleteTraversers \/ Over
  <2>1. UNCHANGED <<rapidjson, rapidjson_traverser>>
    BY <1>6
      DEF SimdjsonParses, SimdjsonAccepts, SimdjsonRefuses, NoMemory,
          RapidjsonRefuses, SajsonParses, SajsonAccepts, SajsonRefuses,
          DeleteTraversers, Over, Return, traversers, all_parsers, vars
  <2> QED
    BY <1>1, <2>1
<1> QED
  BY <1>2, <1>3, <1>4, <1>5, <1>6 DEF Next

LEMMA RapidjsonInvariant == Spec => []RapidjsonInv
<1>1. Init => RapidjsonInv
  BY SameReader, RapidjsonFacts!ReaderBegins DEF Init, RapidjsonInv
<1>2. RapidjsonInv /\ [Next]_vars => RapidjsonInv'
  <2>1. UNCHANGED vars => UNCHANGED <<rapidjson, rapidjson_traverser>>
    BY DEF vars, all_parsers, traversers
  <2> QED
    BY <2>1, RapidjsonNext, RapidjsonRests
<1> QED
  BY <1>1, <1>2, PTL DEF Spec

\* What ParseObject and ParseArray of rapidjson count is what its document has
\* stacked, in every session and for texts of any length and depth.
THEOREM CountsMatchStackAlways == Spec => []CountsMatchStack
<1>1. RapidjsonInv => CountsMatchStack
  BY RapidjsonFacts!ReaderInvSuffices, SameCounts DEF RapidjsonInv
<1> QED
  BY <1>1, RapidjsonInvariant, PTL

\* The iterators of the traverser nest on whatever DOM the reader has built.
THEOREM IteratorsNestAlways == Spec => []IteratorsNest
<1>1. RapidjsonInv => IteratorsNest
  <2>1. CASE rj_stack = <<>>
    BY <2>1, EmptySeq DEF IteratorsNest, RapidjsonWalk!IteratorsNest
  <2>2. ASSUME NEW V, RapidjsonFacts!IsDom(V), RapidjsonFacts!IInv(V)
        PROVE  IteratorsNest
    BY <2>2, RapidjsonFacts!HelpersNest, SameRapidjsonProperties
  <2> QED
    BY <2>1, <2>2 DEF RapidjsonInv
<1> QED
  BY <1>1, RapidjsonInvariant, PTL

\* The getters compare_parsing calls have a helper that answers, whatever DOM
\* the reader has built and whatever the other parsers of the session are.
THEOREM GettersAnswerAlways == Spec => []GettersAnswer
<1>1. RapidjsonInv => GettersAnswer
  <2>1. CASE rj_type = "none"
    BY <2>1 DEF GettersAnswer, RapidjsonWalk!GettersAnswer,
                RapidjsonWalk!WithGetter
  <2>2. ASSUME NEW V, RapidjsonFacts!IInv(V)
        PROVE  GettersAnswer
    BY <2>2, SameRapidjsonProperties DEF RapidjsonFacts!IInv
  <2> QED
    BY <2>1, <2>2 DEF RapidjsonInv
<1> QED
  BY <1>1, RapidjsonInvariant, PTL

-----------------------------------------------------------------------------
(***************************************************************************)
(* sajson.                                                                 *)
(***************************************************************************)

SajsonFacts == INSTANCE SajsonProofs
  WITH Ast <- {}, root_type <- current_structure_type,
       current_type <- sa_type, container_stack <- sa_stack, label <- sa_label

\* The traverser is not there, or walks an AST that does not change.
SajsonInv ==
  /\ SajsonFacts!ParserInv
  /\ \/ sa_type = "none" /\ sa_stack = <<>>
     \/ /\ sa_label = "accepted"
        /\ \E V : SajsonFacts!IInv(V)

LEMMA SameSajson ==
  /\ Sajson!Init => SajsonFacts!Parser!Init
  /\ Sajson!Parse => SajsonFacts!Parser!Parse
<1>1. Sajson!Init => SajsonFacts!Parser!Init
  BY DEF Sajson!Init, SajsonFacts!Parser!Init
<1>2. Sajson!Parse => SajsonFacts!Parser!Parse
  BY DEF
    Sajson!Parse, SajsonFacts!Parser!Parse,
    Sajson!Begin, SajsonFacts!Parser!Begin,
    Sajson!AtomElement, SajsonFacts!Parser!AtomElement,
    Sajson!NumberElement, SajsonFacts!Parser!NumberElement,
    Sajson!StringElement, SajsonFacts!Parser!StringElement,
    Sajson!OpenElement, SajsonFacts!Parser!OpenElement,
    Sajson!NoElement, SajsonFacts!Parser!NoElement,
    Sajson!First, SajsonFacts!Parser!First,
    Sajson!Comma, SajsonFacts!Parser!Comma,
    Sajson!NoSeparator, SajsonFacts!Parser!NoSeparator,
    Sajson!ObjectKey, SajsonFacts!Parser!ObjectKey,
    Sajson!Close, SajsonFacts!Parser!Close,
    Sajson!Here, SajsonFacts!Parser!Here,
    Sajson!Reject, SajsonFacts!Parser!Reject,
    Sajson!Open, SajsonFacts!Parser!Open,
    Sajson!RootMarker, SajsonFacts!Parser!RootMarker,
    Sajson!NumberType, SajsonFacts!Parser!NumberType,
    Sajson!NextElement, SajsonFacts!Parser!NextElement,
    Sajson!Push, SajsonFacts!Parser!Push,
    Sajson!ScalarElement, SajsonFacts!Parser!ScalarElement,
    Sajson!Held, SajsonFacts!Parser!Held,
    Sajson!AfterSeparator, SajsonFacts!Parser!AfterSeparator,
    Sajson!IsElement, SajsonFacts!Parser!IsElement,
    Sajson!NewBase, SajsonFacts!Parser!NewBase,
    Sajson!Installed, SajsonFacts!Parser!Installed,
    Sajson!StackAround, SajsonFacts!Parser!StackAround,
    Sajson!Word, SajsonFacts!Parser!Word,
    Sajson!Payload, SajsonFacts!Parser!Payload,
    Sajson!NoPayload, SajsonFacts!Parser!NoPayload,
    Sajson!ScalarKind, SajsonFacts!Parser!ScalarKind,
    Sajson!AtomKind, SajsonFacts!Parser!AtomKind,
    Sajson!NumberKind, SajsonFacts!Parser!NumberKind,
    Sajson!Container, SajsonFacts!Parser!Container,
    Sajson!Opener, SajsonFacts!Parser!Opener,
    Sajson!Closer, SajsonFacts!Parser!Closer,
    Sajson!Opening, SajsonFacts!Parser!Opening
<1> QED
  BY <1>1, <1>2

LEMMA SameStackFits == SajsonFacts!Parser!StackFits => StackFits
<1>1. Sajson!Part = SajsonFacts!Parser!Part
  BY DEF Sajson!Part, SajsonFacts!Parser!Part,
         Sajson!RootMarker, SajsonFacts!Parser!RootMarker
<1>2. \A part : Sajson!PartFits(part) <=> SajsonFacts!Parser!PartFits(part)
  BY DEF Sajson!PartFits, SajsonFacts!Parser!PartFits,
         Sajson!RootMarker, SajsonFacts!Parser!RootMarker
<1> QED
  BY <1>1, <1>2 DEF StackFits, Sajson!StackFits, SajsonFacts!Parser!StackFits

LEMMA SameSajsonWalk ==
  /\ SajsonWalk!Construct => SajsonFacts!Construct
  /\ SajsonWalk!CallNext => SajsonFacts!CallNext
  /\ SajsonFacts!IndicesNest => IndicesNest
<1>1. SajsonWalk!Construct => SajsonFacts!Construct
  BY DEF SajsonWalk!Construct, SajsonFacts!Construct,
         SajsonWalk!TypeOf, SajsonFacts!TypeOf,
         SajsonWalk!CommonType, SajsonFacts!CommonType,
         SajsonWalk!Root, SajsonFacts!Root,
         SajsonWalk!Helper, SajsonFacts!Helper
<1>2. SajsonWalk!Top = SajsonFacts!Top
  BY DEF SajsonWalk!Top, SajsonFacts!Top, SajsonWalk!Last, SajsonFacts!Last
<1>3. /\ \A v : SajsonWalk!TypeOf(v) = SajsonFacts!TypeOf(v)
      /\ \A type : SajsonWalk!TopIs(type) <=> SajsonFacts!TopIs(type)
      /\ \A index : SajsonWalk!Ended(index) <=> SajsonFacts!Ended(index)
      /\ \A helper : SajsonWalk!Element(helper) = SajsonFacts!Element(helper)
  BY <1>2
     DEF SajsonWalk!TypeOf, SajsonFacts!TypeOf,
         SajsonWalk!CommonType, SajsonFacts!CommonType,
         SajsonWalk!TopIs, SajsonFacts!TopIs,
         SajsonWalk!Ended, SajsonFacts!Ended,
         SajsonWalk!LengthOf, SajsonFacts!LengthOf,
         SajsonWalk!Element, SajsonFacts!Element,
         SajsonWalk!ElementOf, SajsonFacts!ElementOf
<1>4. \A index, type : SajsonWalk!Show(index, type) => SajsonFacts!Show(index, type)
  BY <1>2, <1>3
     DEF SajsonWalk!Show, SajsonFacts!Show,
         SajsonWalk!Moved, SajsonFacts!Moved,
         SajsonWalk!Helper, SajsonFacts!Helper,
         SajsonWalk!Container, SajsonFacts!Container,
         SajsonWalk!Front, SajsonFacts!Front
<1>5. SajsonWalk!ObjectNext => SajsonFacts!ObjectNext
  BY <1>2, <1>3, <1>4
     DEF SajsonWalk!ObjectNext, SajsonFacts!ObjectNext,
         SajsonWalk!NextMember, SajsonFacts!NextMember
<1>6. SajsonWalk!ArrayNext => SajsonFacts!ArrayNext
  BY <1>2, <1>3, <1>4 DEF SajsonWalk!ArrayNext, SajsonFacts!ArrayNext
<1>7. SajsonWalk!CallNext => SajsonFacts!CallNext
  BY <1>5, <1>6
     DEF SajsonWalk!CallNext, SajsonFacts!CallNext,
         SajsonWalk!DocumentEnded, SajsonFacts!DocumentEnded
<1>8. SajsonFacts!IndicesNest => IndicesNest
  BY DEF IndicesNest, SajsonWalk!IndicesNest, SajsonFacts!IndicesNest,
         SajsonWalk!Element, SajsonFacts!Element,
         SajsonWalk!ElementOf, SajsonFacts!ElementOf,
         SajsonWalk!LengthOf, SajsonFacts!LengthOf
<1> QED
  BY <1>1, <1>7, <1>8

\* What is accepted is a container that can be walked.
LEMMA SajsonConstructs ==
  ASSUME SajsonInv, sa_label = "accepted", SajsonWalk!Construct,
         UNCHANGED sajson
  PROVE  \E V : SajsonFacts!IInv(V)'
<1>1. SajsonFacts!Construct /\ UNCHANGED <<ast, current_structure_type>>
  BY SameSajsonWalk DEF sajson
<1>2. \E V : SajsonFacts!IInv(V)
  <2>1. CASE sa_type = "none" /\ sa_stack = <<>>
    <3>1. PICK V : SajsonFacts!IsValuesOf(V, ast, SajsonFacts!Root)
      BY SajsonFacts!AcceptedIsWalked DEF SajsonInv
    <3>2. current_structure_type \in SajsonFacts!Container
      BY SajsonFacts!AcceptedIsWalked DEF SajsonInv
    <3>3. <<>> \in Seq(SajsonFacts!HelperOf(V)) /\ Len(<<>>) = 0
      BY EmptySeq
    <3>4. SajsonFacts!IInv(V)
      BY <2>1, <3>1, <3>2, <3>3 DEF SajsonFacts!IInv
    <3> QED
      BY <3>4
  <2> QED
    BY <2>1 DEF SajsonInv
<1> QED
  BY <1>1, <1>2, SajsonFacts!ConstructKeeps

LEMMA SajsonWalked ==
  ASSUME SajsonInv, SajsonWalk!CallNext, UNCHANGED sajson
  PROVE  sa_label = "accepted" /\ \E V : SajsonFacts!IInv(V)'
<1>1. SajsonFacts!CallNext /\ UNCHANGED <<ast, current_structure_type>>
  BY SameSajsonWalk DEF sajson
<1>2. ~(sa_type = "none" /\ sa_stack = <<>>)
  BY <1>1 DEF SajsonFacts!CallNext, SajsonFacts!DocumentEnded,
    SajsonFacts!ObjectNext, SajsonFacts!ArrayNext, SajsonFacts!TopIs
<1>3. PICK V : SajsonFacts!IInv(V)
  BY <1>2 DEF SajsonInv
<1>4. ASSUME SajsonFacts!ObjectNext
      PROVE  SajsonFacts!IInv(V)'
  BY <1>1, <1>3, <1>4, SajsonFacts!ObjectKeeps
<1>5. ASSUME SajsonFacts!ArrayNext
      PROVE  SajsonFacts!IInv(V)'
  BY <1>1, <1>3, <1>5, SajsonFacts!ArrayKeeps
<1>6. ASSUME SajsonFacts!DocumentEnded
      PROVE  SajsonFacts!IInv(V)'
  BY <1>1, <1>3, <1>6
    DEF SajsonFacts!DocumentEnded, SajsonFacts!IInv, SajsonFacts!Stands,
        SajsonFacts!WaitsFor, SajsonFacts!Element, SajsonFacts!Root
<1>7. \E W : SajsonFacts!IInv(W)'
  BY <1>1, <1>3, <1>4, <1>5, <1>6 DEF SajsonFacts!CallNext
<1> QED
  BY <1>2, <1>7 DEF SajsonInv

LEMMA SajsonStill ==
  ASSUME SajsonInv, UNCHANGED sajson
  PROVE  SajsonFacts!ParserInv'
BY DEF SajsonInv, sajson, SajsonFacts!ParserInv, SajsonFacts!ParserFits,
       SajsonFacts!LabelFits, SajsonFacts!Current

LEMMA SajsonRests ==
  ASSUME SajsonInv, UNCHANGED <<sajson, sajson_traverser>>
  PROVE  SajsonInv'
<1>1. SajsonFacts!ParserInv'
  BY SajsonStill
<1>2. \A V : SajsonFacts!IInv(V) => SajsonFacts!IInv(V)'
  BY DEF sajson, sajson_traverser, SajsonFacts!IInv, SajsonFacts!Stands,
    SajsonFacts!WaitsFor, SajsonFacts!Element, SajsonFacts!Root
<1> QED
  BY <1>1, <1>2 DEF SajsonInv, sajson, sajson_traverser

LEMMA SajsonNext ==
  ASSUME SajsonInv, Next
  PROVE  SajsonInv'
<1>1. CASE UNCHANGED <<sajson, sajson_traverser>>
  BY <1>1, SajsonRests
<1>2. CASE SajsonParses
  <2>1. SajsonFacts!Parser!Parse
    BY <1>2, SameSajson DEF SajsonParses
  <2>2. SajsonFacts!ParserInv'
    BY <2>1, SajsonFacts!ParserKeeps DEF SajsonInv
  <2>3. sa_label # "accepted"
    BY <1>2 DEF SajsonParses, Sajson!Parse, Sajson!Begin, Sajson!AtomElement,
      Sajson!NumberElement, Sajson!StringElement, Sajson!OpenElement,
      Sajson!NoElement, Sajson!NextElement, Sajson!First, Sajson!Comma,
      Sajson!NoSeparator, Sajson!ObjectKey, Sajson!Close
  <2>4. UNCHANGED <<sa_type, sa_stack>>
    BY <1>2 DEF SajsonParses, traversers, sajson_traverser
  <2> QED
    BY <2>2, <2>3, <2>4 DEF SajsonInv
<1>3. CASE SajsonAccepts
  <2>1. /\ sa_label = "accepted" /\ SajsonWalk!Construct
        /\ UNCHANGED sajson
    BY <1>3 DEF SajsonAccepts, Return, all_parsers
  <2>2. \E V : SajsonFacts!IInv(V)'
    BY <2>1, SajsonConstructs
  <2> QED
    BY <2>1, <2>2, SajsonStill DEF SajsonInv, sajson
<1>4. CASE Walk /\ "sajson" \in Added
  <2>1. SajsonWalk!CallNext /\ UNCHANGED sajson
    BY <1>4 DEF Walk, all_parsers
  <2>2. sa_label = "accepted" /\ \E V : SajsonFacts!IInv(V)'
    BY <2>1, SajsonWalked
  <2> QED
    BY <2>1, <2>2, SajsonStill DEF SajsonInv, sajson
<1>5. CASE Walk /\ "sajson" \notin Added
  BY <1>1, <1>5 DEF Walk, all_parsers
<1>6. CASE \/ SimdjsonParses \/ SimdjsonAccepts \/ SimdjsonRefuses \/ NoMemory
           \/ RapidjsonParses \/ RapidjsonAccepts \/ RapidjsonRefuses
           \/ SajsonRefuses \/ DeleteTraversers \/ Over
  <2>1. UNCHANGED <<sajson, sajson_traverser>>
    BY <1>6
      DEF SimdjsonParses, SimdjsonAccepts, SimdjsonRefuses, NoMemory,
          RapidjsonParses, RapidjsonAccepts, RapidjsonRefuses, SajsonRefuses,
          DeleteTraversers, Over, Return, traversers, all_parsers, vars
  <2> QED
    BY <1>1, <2>1
<1> QED
  BY <1>2, <1>3, <1>4, <1>5, <1>6 DEF Next

LEMMA SajsonInvariant == Spec => []SajsonInv
<1>1. Init => SajsonInv
  BY SameSajson, SajsonFacts!ParserBegins DEF Init, SajsonInv
<1>2. SajsonInv /\ [Next]_vars => SajsonInv'
  <2>1. UNCHANGED vars => UNCHANGED <<sajson, sajson_traverser>>
    BY DEF vars, all_parsers, traversers
  <2> QED
    BY <2>1, SajsonNext, SajsonRests
<1> QED
  BY <1>1, <1>2, PTL DEF Spec

\* The stack of sajson has a part for each open container, down to the root's,
\* with every element inside the AST, in every session and for texts of any
\* length and depth.
THEOREM StackFitsAlways == Spec => []StackFits
<1>1. SajsonInv => StackFits
  BY SajsonFacts!ParserInvSuffices, SameStackFits DEF SajsonInv
<1> QED
  BY <1>1, SajsonInvariant, PTL

\* A helper of the traverser that waits stands on the container above it,
\* whatever AST the parser has installed.
THEOREM IndicesNestAlways == Spec => []IndicesNest
<1>1. SajsonInv => IndicesNest
  <2>1. CASE sa_stack = <<>>
    BY <2>1, EmptySeq DEF IndicesNest, SajsonWalk!IndicesNest
  <2>2. ASSUME NEW V, SajsonFacts!IInv(V)
        PROVE  IndicesNest
    BY <2>2, SameSajsonWalk
      DEF SajsonFacts!IInv, SajsonFacts!WaitsFor, SajsonFacts!IndicesNest
  <2> QED
    BY <2>1, <2>2 DEF SajsonInv
<1> QED
  BY <1>1, SajsonInvariant, PTL

-----------------------------------------------------------------------------
(***************************************************************************)
(* What is on the heap, step by step: it follows from what the parsers     *)
(* have said so far and, of the one at work, from its label.               *)
(***************************************************************************)

SimdjsonFacts == INSTANCE SimdjsonProofs
  WITH current_type <- sj_type, container_stack <- sj_stack

Said == {"none", "ok", "error", "no memory"}

\* Each parser has its turn once.
TurnsFit ==
  /\ parsers \in Seq(ParserName)
  /\ \A m, n \in DOMAIN parsers : parsers[m] = parsers[n] => m = n
  /\ turn \in 1 .. Len(parsers) + 2
  /\ states \in [ParserName -> Said]
  /\ \A n \in DOMAIN parsers : states[parsers[n]] = "none" <=> turn <= n
  /\ \A name \in ParserName \ Added : states[name] = "none"

\* What is said is where the machine ended.
LabelsFit ==
  /\ label \notin {"stage_1", "failed"} => Simdjson!Stage1Accepts
  /\ states["simdjson"] = "ok" => label = "succeeded"
  /\ states["simdjson"] = "error" => label = "failed"
  /\ states["simdjson"] = "no memory" => label = "stage_1"
  /\ "simdjson" \notin Added => label = "stage_1"
  /\ "sajson" \notin Added => sa_label = "begin"

\* There is a traverser.
Live(name) == states[name] = "ok" /\ turn <= Len(parsers) + 1

HeapFits ==
  /\ heap \subseteq {"ParsedJson", "padded copy", "rapidjson document",
                     "sajson buffer", "sajson document"}
  /\ "ParsedJson" \in heap <=>
       \/ states["simdjson"] \in {"error", "no memory"}
       \/ Live("simdjson")
       \/ states["simdjson"] = "none" /\ label # "stage_1"
  /\ "padded copy" \in heap <=>
       /\ label \notin {"stage_1", "succeeded"}
       /\ label = "failed" => ~Simdjson!Stage1Accepts
  /\ "rapidjson document" \in heap <=> Live("rapidjson")
  /\ "sajson buffer" \in heap <=>
       Live("sajson") \/ (states["sajson"] = "none" /\ sa_label # "begin")
  /\ "sajson document" \in heap <=> Live("sajson")

HeapInv == SimdjsonFacts!IInv /\ TurnsFit /\ LabelsFit /\ HeapFits

LEMMA SimdjsonAssumed == SimdjsonFacts!SimdjsonAssumption
BY DocumentAssumption DEF SimdjsonFacts!SimdjsonAssumption, SimdjsonFacts!Token, Token,
  SimdjsonFacts!ScalarKind, ScalarKind, SimdjsonFacts!AtomKind, AtomKind,
  SimdjsonFacts!NumberKind, NumberKind, SimdjsonFacts!Punctuation, Punctuation,
  SimdjsonFacts!Opening, Opening, SimdjsonFacts!Closing, Closing

LEMMA SameSimdjson ==
  /\ Simdjson!Init => SimdjsonFacts!Init
  /\ Simdjson!Parse => SimdjsonFacts!Parse
  /\ Simdjson!Stage1Accepts <=> SimdjsonFacts!Stage1Accepts
<1>1. Simdjson!Init => SimdjsonFacts!Init
  BY DEF Simdjson!Init, SimdjsonFacts!Init
<1>2. Simdjson!Stage1Accepts <=> SimdjsonFacts!Stage1Accepts
  BY DEF Simdjson!Stage1Accepts, SimdjsonFacts!Stage1Accepts
<1>3. Simdjson!Parse => SimdjsonFacts!Parse
  BY DEF
    Simdjson!Parse, SimdjsonFacts!Parse,
    Simdjson!Stage1, SimdjsonFacts!Stage1,
    Simdjson!Stage1Accepts, SimdjsonFacts!Stage1Accepts,
    Simdjson!Start, SimdjsonFacts!Start,
    Simdjson!ObjectBegin, SimdjsonFacts!ObjectBegin,
    Simdjson!ObjectKey, SimdjsonFacts!ObjectKey,
    Simdjson!ObjectValue, SimdjsonFacts!ObjectValue,
    Simdjson!ObjectContinue, SimdjsonFacts!ObjectContinue,
    Simdjson!ObjectComma, SimdjsonFacts!ObjectComma,
    Simdjson!ArrayBegin, SimdjsonFacts!ArrayBegin,
    Simdjson!ArraySwitch, SimdjsonFacts!ArraySwitch,
    Simdjson!ArrayContinue, SimdjsonFacts!ArrayContinue,
    Simdjson!RunAway, SimdjsonFacts!RunAway,
    Simdjson!StartContinue, SimdjsonFacts!StartContinue,
    Simdjson!Succeed, SimdjsonFacts!Succeed,
    Simdjson!AtLabel, SimdjsonFacts!AtLabel,
    Simdjson!UpdateChar, SimdjsonFacts!UpdateChar,
    Simdjson!CharsAt, SimdjsonFacts!CharsAt,
    Simdjson!NumberOfIndexes, SimdjsonFacts!NumberOfIndexes,
    Simdjson!AllRead, SimdjsonFacts!AllRead,
    Simdjson!Reading, SimdjsonFacts!Reading,
    Simdjson!ReturnToObject, SimdjsonFacts!ReturnToObject,
    Simdjson!Goto, SimdjsonFacts!Goto,
    Simdjson!Fail, SimdjsonFacts!Fail,
    Simdjson!Write, SimdjsonFacts!Write,
    Simdjson!ReadValue, SimdjsonFacts!ReadValue,
    Simdjson!ReadKey, SimdjsonFacts!ReadKey,
    Simdjson!KeyWord, SimdjsonFacts!KeyWord,
    Simdjson!OpenScope, SimdjsonFacts!OpenScope,
    Simdjson!TooDeep, SimdjsonFacts!TooDeep,
    Simdjson!OpeningWords, SimdjsonFacts!OpeningWords,
    Simdjson!CloseScope, SimdjsonFacts!CloseScope,
    Simdjson!ScopesAround, SimdjsonFacts!ScopesAround,
    Simdjson!ScalarWords, SimdjsonFacts!ScalarWords,
    Simdjson!Number, SimdjsonFacts!Number,
    Simdjson!Word, SimdjsonFacts!Word,
    Simdjson!Payload, SimdjsonFacts!Payload,
    Simdjson!NoPayload, SimdjsonFacts!NoPayload,
    Simdjson!Token, SimdjsonFacts!Token,
    Simdjson!ScalarKind, SimdjsonFacts!ScalarKind,
    Simdjson!AtomKind, SimdjsonFacts!AtomKind,
    Simdjson!NumberKind, SimdjsonFacts!NumberKind,
    Simdjson!Opening, SimdjsonFacts!Opening,
    Simdjson!Last, SimdjsonFacts!Last,
    Simdjson!Front, SimdjsonFacts!Front,
    Simdjson!Punctuation, SimdjsonFacts!Punctuation,
    Simdjson!Closing, SimdjsonFacts!Closing
<1> QED
  BY <1>1, <1>2, <1>3

LEMMA RapidjsonKeepsText == RapidjsonParses => UNCHANGED text
BY DEF RapidjsonParses, Rapidjson!Parse, Rapidjson!Begin,
  Rapidjson!ParseScalar, Rapidjson!StartContainer, Rapidjson!NoValue,
  Rapidjson!First, Rapidjson!Key, Rapidjson!NoKey, Rapidjson!Comma,
  Rapidjson!EndContainer, Rapidjson!NoSeparator, Rapidjson!Finish,
  Rapidjson!Reject

LEMMA SajsonStepLabels ==
  ASSUME Sajson!Parse
  PROVE  UNCHANGED text /\ sa_label' # "begin"
<1>1. CASE Sajson!Begin
  BY <1>1 DEF Sajson!Begin, Sajson!Open, Sajson!Reject
<1>2. CASE \/ Sajson!AtomElement \/ Sajson!NumberElement
           \/ Sajson!StringElement \/ Sajson!OpenElement \/ Sajson!NoElement
  BY <1>2 DEF Sajson!AtomElement, Sajson!NumberElement, Sajson!StringElement,
              Sajson!OpenElement, Sajson!NoElement, Sajson!ScalarElement,
              Sajson!Open, Sajson!Reject
<1>3. CASE \/ Sajson!First \/ Sajson!Comma \/ Sajson!NoSeparator
           \/ Sajson!ObjectKey \/ Sajson!Close
  BY <1>3 DEF Sajson!First, Sajson!Comma, Sajson!NoSeparator, Sajson!ObjectKey,
              Sajson!Close, Sajson!AfterSeparator, Sajson!Reject
<1> QED
  BY <1>1, <1>2, <1>3 DEF Sajson!Parse

LEMMA AtTurn ==
  ASSUME TurnsFit, NEW name, Turn(name)
  PROVE  /\ name \in ParserName /\ name \in Added
         /\ turn \in 1 .. Len(parsers) /\ states[name] = "none"
<1>1. turn \in 1 .. Len(parsers) /\ parsers[turn] = name
  BY LenProperties DEF TurnsFit, Turn
<1>2. name \in ParserName
  BY <1>1, ElementOfSeq DEF TurnsFit
<1>3. turn \in DOMAIN parsers
  BY <1>1 DEF TurnsFit
<1>4. states[parsers[turn]] = "none"
  BY <1>1, <1>3 DEF TurnsFit
<1>5. name \in Added
  BY <1>1, <1>3 DEF Added, ToSet
<1> QED
  BY <1>1, <1>2, <1>4, <1>5

LEMMA ReturnKeeps ==
  ASSUME TurnsFit, NEW name, Turn(name),
         NEW verdict \in Said \ {"none"}, Return(name, verdict)
  PROVE  /\ TurnsFit'
         /\ states'[name] = verdict
         /\ \A other \in ParserName \ {name} :
              states'[other] = states[other] /\ Live(other)' = Live(other)
         /\ Live(name)' <=> verdict = "ok"
<1>1. /\ name \in ParserName /\ name \in Added /\ states[name] = "none"
      /\ turn \in 1 .. Len(parsers)
  BY AtTurn
<1>2. /\ parsers' = parsers /\ turn' = turn + 1
      /\ states' = [states EXCEPT ![name] = verdict]
  BY DEF Return
<1>3. /\ states' \in [ParserName -> Said] /\ states'[name] = verdict
      /\ \A other \in ParserName \ {name} : states'[other] = states[other]
  BY <1>1, <1>2 DEF TurnsFit
<1>4. /\ Len(parsers) \in Nat /\ DOMAIN parsers = 1 .. Len(parsers)
      /\ \A n \in DOMAIN parsers : parsers[n] \in ParserName
  BY LenProperties, ElementOfSeq DEF TurnsFit
<1>5. turn' \in 1 .. Len(parsers) + 2 /\ turn' <= Len(parsers) + 1
        /\ turn <= Len(parsers) + 1
  BY <1>1, <1>2, <1>4
<1>6. ASSUME NEW n \in DOMAIN parsers
      PROVE  states'[parsers[n]] = "none" <=> turn' <= n
  <2>1. CASE n = turn
    <3>1. states'[parsers[n]] = verdict
      BY <1>3, <2>1 DEF Turn
    <3> QED
      BY <1>1, <1>2, <1>4, <2>1, <3>1
  <2>2. CASE n # turn
    <3>1. parsers[n] # name
      BY <1>1, <1>4, <2>2 DEF Turn, TurnsFit
    <3>2. states'[parsers[n]] = states[parsers[n]]
      BY <1>3, <1>4, <3>1
    <3>3. turn + 1 <= n <=> turn <= n
      BY <1>1, <1>4, <2>2
    <3> QED
      BY <1>2, <3>2, <3>3 DEF TurnsFit
  <2> QED
    BY <2>1, <2>2
<1>7. \A other \in ParserName \ Added : states'[other] = "none"
  BY <1>1, <1>3 DEF TurnsFit
<1>8. TurnsFit'
  BY <1>2, <1>3, <1>5, <1>6, <1>7 DEF TurnsFit, Added
<1> QED
  BY <1>2, <1>3, <1>5, <1>8 DEF Live

LEMMA HeapRests ==
  ASSUME HeapInv,
         UNCHANGED <<parsers, turn, states, heap, text, simdjson, sa_label>>
  PROVE  HeapInv'
<1>1. SimdjsonFacts!IInv'
  BY DEF HeapInv, simdjson, SimdjsonFacts!IInv, SimdjsonFacts!TypeOK,
    SimdjsonFacts!Running, SimdjsonFacts!ScopesNest, SimdjsonFacts!LabelFits,
    SimdjsonFacts!Bracket, SimdjsonFacts!Ahead, SimdjsonFacts!Complete,
    SimdjsonFacts!InObject, SimdjsonFacts!InArray
<1>2. Simdjson!Stage1Accepts' <=> Simdjson!Stage1Accepts
  BY DEF Simdjson!Stage1Accepts
<1>3. Added' = Added /\ \A name : Live(name)' <=> Live(name)
  BY DEF Added, Live
<1>4. TurnsFit'
  BY <1>3 DEF HeapInv, TurnsFit
<1>5. LabelsFit' /\ HeapFits'
  BY <1>2, <1>3 DEF HeapInv, LabelsFit, HeapFits, simdjson
<1> QED
  BY <1>1, <1>4, <1>5 DEF HeapInv

\* The machine of simdjson rests but in its own steps.
LEMMA SimdjsonRests ==
  ASSUME HeapInv, UNCHANGED <<text, simdjson>>
  PROVE  SimdjsonFacts!IInv'
BY DEF HeapInv, simdjson, SimdjsonFacts!IInv, SimdjsonFacts!TypeOK,
  SimdjsonFacts!Running, SimdjsonFacts!ScopesNest, SimdjsonFacts!LabelFits,
  SimdjsonFacts!Bracket, SimdjsonFacts!Ahead, SimdjsonFacts!Complete,
  SimdjsonFacts!InObject, SimdjsonFacts!InArray

LEMMA SimdjsonParsesKeeps == HeapInv /\ SimdjsonParses => HeapInv'
<1> SUFFICES ASSUME HeapInv, SimdjsonParses PROVE HeapInv'
  OBVIOUS
<1>1. /\ states["simdjson"] = "none" /\ "simdjson" \in Added
      /\ Turn("simdjson") /\ Simdjson!Parse /\ heap' = Allocated
      /\ UNCHANGED <<parsers, turn, states, sajson>>
  BY AtTurn DEF HeapInv, SimdjsonParses
<1>2. /\ SimdjsonFacts!IInv' /\ UNCHANGED text /\ label' # "stage_1"
      /\ label \notin {"succeeded", "failed"}
      /\ label = "stage_1" => label' \in IF Simdjson!Stage1Accepts
           THEN {"start", "failed"} ELSE {"failed"}
  BY <1>1, SimdjsonAssumed, SameSimdjson,
     SimdjsonFacts!ParseKeeps, SimdjsonFacts!StepLabels
     DEF HeapInv, SimdjsonFacts!Verdict
<1>3. Simdjson!Stage1Accepts' <=> Simdjson!Stage1Accepts
  BY <1>2 DEF Simdjson!Stage1Accepts
<1>4. Added' = Added /\ \A name : Live(name)' <=> Live(name)
  BY <1>1 DEF Added, Live
<1>5. TurnsFit'
  BY <1>1, <1>4 DEF HeapInv, TurnsFit
<1>6. LabelsFit'
  BY <1>1, <1>2, <1>3, <1>4 DEF HeapInv, LabelsFit, sajson
<1>7. HeapFits'
  <2>1. heap' = (heap \cup IF label = "stage_1"
                             THEN {"ParsedJson", "padded copy"} ELSE {})
          \ (IF Simdjson!Stage1Accepts /\ label' \in {"succeeded", "failed"}
               THEN {"padded copy"} ELSE {})
    BY <1>1 DEF Allocated, Stage2Returns
  <2> QED
    BY <1>1, <1>2, <1>3, <1>4, <2>1 DEF HeapInv, LabelsFit, HeapFits, sajson
<1> QED
  BY <1>2, <1>5, <1>6, <1>7 DEF HeapInv

LEMMA SimdjsonReturnKeeps ==
  ASSUME HeapInv, SimdjsonAccepts \/ SimdjsonRefuses \/ NoMemory
  PROVE  HeapInv'
<1>1. PICK verdict \in Said \ {"none"} :
        /\ Return("simdjson", verdict)
        /\ Turn("simdjson")
        /\ \/ verdict = "ok" /\ label = "succeeded" /\ heap' = heap
           \/ verdict = "error" /\ label = "failed" /\ heap' = heap
           \/ /\ verdict = "no memory" /\ label = "stage_1"
              /\ heap' = heap \cup {"ParsedJson"}
  BY DEF SimdjsonAccepts, SimdjsonRefuses, NoMemory, Said
<1>2. "simdjson" \in Added /\ states["simdjson"] = "none"
  BY <1>1, AtTurn DEF HeapInv
<1>3. /\ TurnsFit' /\ states'["simdjson"] = verdict
      /\ states'["sajson"] = states["sajson"]
      /\ Live("sajson")' <=> Live("sajson")
      /\ Live("rapidjson")' <=> Live("rapidjson")
      /\ Live("simdjson")' <=> verdict = "ok"
  BY <1>1, ReturnKeeps DEF HeapInv, ParserName
<1>4. UNCHANGED <<parsers, text, simdjson, sa_label>>
  BY <1>1 DEF Return, all_parsers, sajson
<1>5. Simdjson!Stage1Accepts' <=> Simdjson!Stage1Accepts
  BY <1>4 DEF Simdjson!Stage1Accepts
<1>6. LabelsFit'
  BY <1>1, <1>2, <1>3, <1>4, <1>5 DEF HeapInv, LabelsFit, simdjson, Added
<1>7. ~Live("simdjson") /\ label' = label
  BY <1>2, <1>4 DEF Live, simdjson
<1>8. HeapFits'
  BY <1>1, <1>2, <1>3, <1>4, <1>5, <1>7 DEF HeapInv, HeapFits
<1> QED
  BY <1>3, <1>4, <1>6, <1>8, SimdjsonRests DEF HeapInv

LEMMA RapidjsonReturnKeeps ==
  ASSUME HeapInv, RapidjsonAccepts \/ RapidjsonRefuses
  PROVE  HeapInv'
<1>1. PICK verdict \in Said \ {"none"} :
        /\ Return("rapidjson", verdict)
        /\ Turn("rapidjson")
        /\ \/ verdict = "ok" /\ heap' = heap \cup {"rapidjson document"}
           \/ verdict = "error" /\ heap' = heap
  BY DEF RapidjsonAccepts, RapidjsonRefuses, Said
<1>2. "rapidjson" \in Added /\ states["rapidjson"] = "none"
  BY <1>1, AtTurn DEF HeapInv
<1>3. /\ TurnsFit'
      /\ states'["sajson"] = states["sajson"]
      /\ states'["simdjson"] = states["simdjson"]
      /\ Live("sajson")' <=> Live("sajson")
      /\ Live("simdjson")' <=> Live("simdjson")
      /\ Live("rapidjson")' <=> verdict = "ok"
  BY <1>1, ReturnKeeps DEF HeapInv, ParserName
<1>4. UNCHANGED <<parsers, text, simdjson, sa_label>>
  BY <1>1 DEF Return, all_parsers, sajson
<1>5. Simdjson!Stage1Accepts' <=> Simdjson!Stage1Accepts
  BY <1>4 DEF Simdjson!Stage1Accepts
<1>6. LabelsFit'
  BY <1>3, <1>4, <1>5 DEF HeapInv, LabelsFit, simdjson, Added
<1>7. ~Live("rapidjson") /\ label' = label
  BY <1>2, <1>4 DEF Live, simdjson
<1>8. HeapFits'
  BY <1>1, <1>3, <1>4, <1>5, <1>7 DEF HeapInv, HeapFits
<1> QED
  BY <1>3, <1>4, <1>6, <1>8, SimdjsonRests DEF HeapInv

LEMMA SajsonParsesKeeps == HeapInv /\ SajsonParses => HeapInv'
<1> SUFFICES ASSUME HeapInv, SajsonParses PROVE HeapInv'
  OBVIOUS
<1>1. /\ states["sajson"] = "none" /\ "sajson" \in Added
      /\ Sajson!Parse /\ heap' = heap \cup {"sajson buffer"}
      /\ UNCHANGED <<parsers, turn, states, simdjson>>
  BY AtTurn DEF HeapInv, SajsonParses
<1>2. UNCHANGED text /\ sa_label' # "begin" /\ label' = label
  BY <1>1, SajsonStepLabels DEF simdjson
<1>3. Simdjson!Stage1Accepts' <=> Simdjson!Stage1Accepts
  BY <1>2 DEF Simdjson!Stage1Accepts
<1>4. Added' = Added /\ \A name : Live(name)' <=> Live(name)
  BY <1>1 DEF Added, Live
<1>5. TurnsFit'
  BY <1>1, <1>4 DEF HeapInv, TurnsFit
<1>6. LabelsFit' /\ HeapFits'
  BY <1>1, <1>2, <1>3, <1>4 DEF HeapInv, LabelsFit, HeapFits
<1> QED
  BY <1>1, <1>2, <1>5, <1>6, SimdjsonRests DEF HeapInv

LEMMA SajsonReturnKeeps ==
  ASSUME HeapInv, SajsonAccepts \/ SajsonRefuses
  PROVE  HeapInv'
<1>1. PICK verdict \in Said \ {"none"} :
        /\ Return("sajson", verdict)
        /\ Turn("sajson")
        /\ sa_label # "begin"
        /\ \/ verdict = "ok" /\ heap' = heap \cup {"sajson document"}
           \/ verdict = "error" /\ heap' = heap \ {"sajson buffer"}
  BY DEF SajsonAccepts, SajsonRefuses, Said
<1>2. "sajson" \in Added /\ states["sajson"] = "none"
  BY <1>1, AtTurn DEF HeapInv
<1>3. /\ TurnsFit' /\ states'["sajson"] = verdict
      /\ states'["simdjson"] = states["simdjson"]
      /\ Live("rapidjson")' <=> Live("rapidjson")
      /\ Live("simdjson")' <=> Live("simdjson")
      /\ Live("sajson")' <=> verdict = "ok"
  BY <1>1, ReturnKeeps DEF HeapInv, ParserName
<1>4. UNCHANGED <<parsers, text, simdjson, sa_label>>
  BY <1>1 DEF Return, all_parsers, sajson
<1>5. Simdjson!Stage1Accepts' <=> Simdjson!Stage1Accepts
  BY <1>4 DEF Simdjson!Stage1Accepts
<1>6. LabelsFit'
  BY <1>3, <1>4, <1>5 DEF HeapInv, LabelsFit, simdjson, Added
<1>7. ~Live("sajson") /\ label' = label
  BY <1>2, <1>4 DEF Live, simdjson
<1>8. HeapFits'
  BY <1>1, <1>2, <1>3, <1>4, <1>5, <1>7 DEF HeapInv, HeapFits
<1> QED
  BY <1>3, <1>4, <1>6, <1>8, SimdjsonRests DEF HeapInv

LEMMA DeleteKeeps == HeapInv /\ DeleteTraversers => HeapInv'
<1> SUFFICES ASSUME HeapInv, DeleteTraversers PROVE HeapInv'
  OBVIOUS
<1> DEFINE alive == {name \in Added : states[name] = "ok"}
<1>1. /\ turn = Len(parsers) + 1 /\ turn' = turn + 1
      /\ heap' = heap \ UNION {Deleted(name) : name \in alive}
      /\ UNCHANGED <<parsers, text, states, all_parsers>>
  BY DEF DeleteTraversers, AllParsed
<1>2. Len(parsers) \in Nat /\ turn \in Nat
  BY LenProperties DEF HeapInv, TurnsFit
<1>3. Added' = Added /\ (\A name : ~Live(name)')
        /\ (\A name : Live(name) <=> states[name] = "ok")
  BY <1>1, <1>2 DEF Added, Live
<1>4. turn' \in 1 .. Len(parsers') + 2
        /\ \A n \in DOMAIN parsers : turn' <= n <=> turn <= n
  <2>1. DOMAIN parsers = 1 .. Len(parsers)
    BY DEF HeapInv, TurnsFit
  <2> QED
    BY <1>1, <1>2, <2>1
<1>5. TurnsFit'
  BY <1>1, <1>3, <1>4 DEF HeapInv, TurnsFit
<1>6. Simdjson!Stage1Accepts' <=> Simdjson!Stage1Accepts
  BY <1>1 DEF Simdjson!Stage1Accepts
<1>7. UNCHANGED <<label, sa_label, text, simdjson>>
  BY <1>1 DEF all_parsers, simdjson, sajson
<1>8. LabelsFit'
  BY <1>1, <1>3, <1>6, <1>7 DEF HeapInv, LabelsFit
<1>9. \A name \in ParserName : states[name] = "ok" => name \in alive
  BY DEF HeapInv, TurnsFit
<1>10. \A name \in ParserName : name \in alive <=> Live(name)
  BY <1>3, <1>9
<1>11. alive \subseteq ParserName
  <2>1. \A n \in DOMAIN parsers : parsers[n] \in ParserName
    BY ElementOfSeq DEF HeapInv, TurnsFit
  <2> QED
    BY <2>1 DEF Added, ToSet
<1> HIDE DEF alive
<1>12. \A item : item \in heap' <=>
         item \in heap /\ \A name \in alive : item \notin Deleted(name)
  BY <1>1
<1>13. /\ Deleted("simdjson") = {"ParsedJson"}
       /\ Deleted("rapidjson") = {"rapidjson document"}
       /\ Deleted("sajson") = {"sajson buffer", "sajson document"}
  BY DEF Deleted, Owned
<1>14. ParserName = {"simdjson", "rapidjson", "sajson"}
  BY DEF ParserName
<1>15. /\ "ParsedJson" \in heap' <=>
            "ParsedJson" \in heap /\ ~Live("simdjson")
       /\ "padded copy" \in heap' <=> "padded copy" \in heap
       /\ "rapidjson document" \in heap' <=>
            "rapidjson document" \in heap /\ ~Live("rapidjson")
       /\ "sajson buffer" \in heap' <=>
            "sajson buffer" \in heap /\ ~Live("sajson")
       /\ "sajson document" \in heap' <=>
            "sajson document" \in heap /\ ~Live("sajson")
  BY <1>10, <1>11, <1>12, <1>13, <1>14
<1>16. HeapFits'
  BY <1>1, <1>3, <1>6, <1>7, <1>12, <1>15 DEF HeapInv, HeapFits
<1> QED
  BY <1>5, <1>7, <1>8, <1>16, SimdjsonRests DEF HeapInv

LEMMA HeapInvariant == Spec => []HeapInv
<1>1. Init => HeapInv
  <2> SUFFICES ASSUME Init PROVE HeapInv
    OBVIOUS
  <2>1. /\ parsers \in Session /\ turn = 1 /\ heap = {}
        /\ states = [name \in ParserName |-> "none"]
        /\ Simdjson!Init /\ label = "stage_1" /\ sa_label = "begin"
    BY DEF Init, Simdjson!Init, Sajson!Init
  <2>2. SimdjsonFacts!IInv
    BY <2>1, SimdjsonAssumed, SameSimdjson, SimdjsonFacts!InitIInv
  <2>3. /\ parsers \in Seq(ParserName) /\ Len(parsers) \in Nat
        /\ \A m, n \in DOMAIN parsers : parsers[m] = parsers[n] => m = n
        /\ \A n \in DOMAIN parsers : parsers[n] \in ParserName /\ 1 <= n
    BY <2>1, DocumentAssumption, LenProperties, ElementOfSeq
  <2>4. TurnsFit
    BY <2>1, <2>3 DEF TurnsFit, Said
  <2>5. /\ states["simdjson"] = "none" /\ states["sajson"] = "none"
        /\ states["rapidjson"] = "none"
    BY <2>1 DEF ParserName
  <2> QED
    BY <2>1, <2>2, <2>4, <2>5 DEF HeapInv, LabelsFit, HeapFits, Live
<1>2. HeapInv /\ [Next]_vars => HeapInv'
  <2> SUFFICES ASSUME HeapInv, [Next]_vars PROVE HeapInv'
    OBVIOUS
  <2>1. CASE RapidjsonParses \/ Walk \/ Over \/ UNCHANGED vars
    <3>1. UNCHANGED <<parsers, turn, states, heap, text, simdjson, sa_label>>
      BY <2>1, RapidjsonKeepsText
         DEF RapidjsonParses, Walk, Over, vars, common, all_parsers, sajson
    <3> QED
      BY <3>1, HeapRests
  <2> QED
    BY <2>1, SimdjsonParsesKeeps, SimdjsonReturnKeeps, RapidjsonReturnKeeps,
       SajsonParsesKeeps, SajsonReturnKeeps, DeleteKeeps DEF Next
<1> QED
  BY <1>1, <1>2, PTL DEF Spec

\* When compare_parsing returns, in every session and for every text, nothing is
\* left but what simdjson kept of a text it refused (parse of each parser, and
\* the destructors of the traversers).
THEOREM AcceptedLeaveNothingAlways == Spec => []AcceptedLeaveNothing
<1>1. ASSUME HeapInv, turn = Len(parsers) + 2
      PROVE  /\ heap \cap {"rapidjson document", "sajson buffer", "sajson document"} = {}
             /\ "simdjson" \notin Added \/ states["simdjson"] = "ok" => heap = {}
  <2>1. Len(parsers) \in Nat /\ DOMAIN parsers = 1 .. Len(parsers)
    BY <1>1, LenProperties DEF HeapInv, TurnsFit
  <2>2. \A name : ~Live(name)
    BY <1>1, <2>1 DEF Live
  <2>3. \A name \in Added : states[name] # "none"
    BY <1>1, <2>1 DEF HeapInv, TurnsFit, Added, ToSet
  <2>4. "sajson" \notin Added => sa_label = "begin"
    BY <1>1 DEF HeapInv, LabelsFit
  <2>5. "rapidjson document" \notin heap /\ "sajson document" \notin heap
          /\ "sajson buffer" \notin heap
    BY <1>1, <2>2, <2>3, <2>4 DEF HeapInv, HeapFits
  <2>6. heap \subseteq {"ParsedJson", "padded copy"}
    BY <1>1, <2>5 DEF HeapInv, HeapFits
  <2>7. "simdjson" \notin Added =>
          states["simdjson"] = "none" /\ label = "stage_1"
    BY <1>1 DEF HeapInv, TurnsFit, LabelsFit, ParserName
  <2>8. CASE "simdjson" \notin Added \/ states["simdjson"] = "ok"
    <3>1. "ParsedJson" \notin heap
      BY <1>1, <2>2, <2>3, <2>7, <2>8 DEF HeapInv, HeapFits
    <3>2. "padded copy" \notin heap
      BY <1>1, <2>3, <2>7, <2>8 DEF HeapInv, HeapFits, LabelsFit, Said
    <3> QED
      BY <2>6, <3>1, <3>2
  <2> QED
    BY <2>5, <2>8
<1>2. HeapInv => AcceptedLeaveNothing
  BY <1>1 DEF AcceptedLeaveNothing
<1> QED
  BY <1>2, HeapInvariant, PTL

-----------------------------------------------------------------------------
(***************************************************************************)
(* simdjson.                                                               *)
(***************************************************************************)

\* The traverser is not there, or walks a tape that does not change.
SimdjsonInv ==
  /\ SimdjsonFacts!TreeInv
  /\ \/ /\ sj_type = "none" /\ sj_stack = <<>>
        /\ iterator = SimdjsonWalk!AtRoot
     \/ /\ label = "succeeded"
        /\ \E h : SimdjsonFacts!IsTape(h, tape) /\ SimdjsonFacts!WalkInv(h)

LEMMA SameSimdjsonWalk ==
  /\ SimdjsonWalk!AtRoot = SimdjsonFacts!Walker!AtRoot
  /\ SimdjsonWalk!Construct => SimdjsonFacts!Walker!Construct
  /\ SimdjsonWalk!CallNext => SimdjsonFacts!Walker!CallNext
<1>1. SimdjsonWalk!AtRoot = SimdjsonFacts!Walker!AtRoot
  BY DEF SimdjsonWalk!AtRoot, SimdjsonFacts!Walker!AtRoot
<1>2. SimdjsonWalk!Construct => SimdjsonFacts!Walker!Construct
  BY DEF
    SimdjsonWalk!Construct, SimdjsonFacts!Walker!Construct,
    SimdjsonWalk!AtRoot, SimdjsonFacts!Walker!AtRoot,
    SimdjsonWalk!TypeOf, SimdjsonFacts!Walker!TypeOf,
    SimdjsonWalk!At, SimdjsonFacts!Walker!At,
    SimdjsonWalk!WordAt, SimdjsonFacts!Walker!WordAt
<1>3. SimdjsonWalk!CallNext => SimdjsonFacts!Walker!CallNext
  BY DEF
    SimdjsonWalk!CallNext, SimdjsonFacts!Walker!CallNext,
    SimdjsonWalk!Enter, SimdjsonFacts!Walker!Enter,
    SimdjsonWalk!DocumentEnds, SimdjsonFacts!Walker!DocumentEnds,
    SimdjsonWalk!ContainerEnds, SimdjsonFacts!Walker!ContainerEnds,
    SimdjsonWalk!NextWord, SimdjsonFacts!Walker!NextWord,
    SimdjsonWalk!MoveOn, SimdjsonFacts!Walker!MoveOn,
    SimdjsonWalk!Outside, SimdjsonFacts!Walker!Outside,
    SimdjsonWalk!Around, SimdjsonFacts!Walker!Around,
    SimdjsonWalk!HasInside, SimdjsonFacts!Walker!HasInside,
    SimdjsonWalk!Down, SimdjsonFacts!Walker!Down,
    SimdjsonWalk!Up, SimdjsonFacts!Walker!Up,
    SimdjsonWalk!Depth, SimdjsonFacts!Walker!Depth,
    SimdjsonWalk!HasNext, SimdjsonFacts!Walker!HasNext,
    SimdjsonWalk!Following, SimdjsonFacts!Walker!Following,
    SimdjsonWalk!NextLocation, SimdjsonFacts!Walker!NextLocation,
    SimdjsonWalk!TapeLength, SimdjsonFacts!Walker!TapeLength,
    SimdjsonWalk!TypeOf, SimdjsonFacts!Walker!TypeOf,
    SimdjsonWalk!At, SimdjsonFacts!Walker!At,
    SimdjsonWalk!WordAt, SimdjsonFacts!Walker!WordAt,
    SimdjsonWalk!Container, SimdjsonFacts!Walker!Container,
    SimdjsonWalk!Opening, SimdjsonFacts!Walker!Opening,
    SimdjsonWalk!Last, SimdjsonFacts!Walker!Last,
    SimdjsonWalk!Front, SimdjsonFacts!Walker!Front
<1> QED
  BY <1>1, <1>2, <1>3

LEMMA SameSimdjsonProperties ==
  /\ SimdjsonFacts!Walker!DepthIsNesting => DepthIsNesting
  /\ SimdjsonFacts!Walker!InsideScopes => InsideScopes
<1>1. \A S : SimdjsonFacts!Walker!Cardinality(S) = SimdjsonWalk!Cardinality(S)
  BY DEF SimdjsonFacts!Walker!Cardinality, SimdjsonWalk!Cardinality
<1>2. SimdjsonFacts!Walker!DepthIsNesting => DepthIsNesting
  BY <1>1
     DEF DepthIsNesting,
       SimdjsonWalk!DepthIsNesting, SimdjsonFacts!Walker!DepthIsNesting,
       SimdjsonWalk!Depth, SimdjsonFacts!Walker!Depth
<1>3. SimdjsonFacts!Walker!InsideScopes => InsideScopes
  BY DEF InsideScopes,
       SimdjsonWalk!InsideScopes, SimdjsonFacts!Walker!InsideScopes,
       SimdjsonWalk!Depth, SimdjsonFacts!Walker!Depth,
       SimdjsonWalk!TypeOf, SimdjsonFacts!Walker!TypeOf,
       SimdjsonWalk!WordAt, SimdjsonFacts!Walker!WordAt
<1> QED
  BY <1>2, <1>3

LEMMA TreeRests ==
  ASSUME SimdjsonFacts!TreeInv, UNCHANGED simdjson
  PROVE  SimdjsonFacts!TreeInv'
BY DEF simdjson, SimdjsonFacts!TreeInv, SimdjsonFacts!TreeOf, SimdjsonFacts!Running

LEMMA SimdjsonStill ==
  ASSUME SimdjsonInv, UNCHANGED <<simdjson, simdjson_traverser>>
  PROVE  SimdjsonInv'
<1>1. SimdjsonFacts!TreeInv'
  BY TreeRests DEF SimdjsonInv
<1>2. \A h : SimdjsonFacts!WalkInv(h) => SimdjsonFacts!WalkInv(h)'
  BY DEF simdjson, simdjson_traverser, SimdjsonFacts!WalkInv,
    SimdjsonFacts!Entered, SimdjsonFacts!EmptyOnTop, SimdjsonFacts!TypeAt
<1> QED
  BY <1>1, <1>2 DEF SimdjsonInv, simdjson, simdjson_traverser

LEMMA SimdjsonNext ==
  ASSUME HeapInv, SimdjsonInv, Next
  PROVE  SimdjsonInv'
<1>1. CASE UNCHANGED <<simdjson, simdjson_traverser>>
  BY <1>1, SimdjsonStill
<1>2. CASE SimdjsonParses
  <2>1. SimdjsonFacts!IInv /\ SimdjsonFacts!TreeInv /\ SimdjsonFacts!Parse
    BY <1>2, SameSimdjson DEF SimdjsonParses, HeapInv, SimdjsonInv
  <2>2. SimdjsonFacts!TreeInv' /\ label # "succeeded"
    BY <2>1, SimdjsonAssumed, SimdjsonFacts!TreeKeeps, SimdjsonFacts!StepLabels
       DEF SimdjsonFacts!Verdict
  <2>3. UNCHANGED simdjson_traverser
    BY <1>2 DEF SimdjsonParses, traversers
  <2> QED
    BY <2>2, <2>3 DEF SimdjsonInv, simdjson_traverser
<1>3. CASE SimdjsonAccepts
  <2>1. /\ label = "succeeded" /\ SimdjsonFacts!Walker!Construct
        /\ UNCHANGED simdjson
    BY <1>3, SameSimdjsonWalk DEF SimdjsonAccepts, Return, all_parsers
  <2>2. PICK h : SimdjsonFacts!IsTape(h, tape)
    BY <2>1 DEF SimdjsonInv, SimdjsonFacts!TreeInv
  <2>3. sj_type = "none"
    BY <2>1 DEF SimdjsonFacts!Walker!Construct
  <2>4. sj_stack = <<>> /\ iterator = SimdjsonFacts!Walker!AtRoot
    BY <2>3, SameSimdjsonWalk DEF SimdjsonInv, SimdjsonFacts!WalkInv
  <2>5. tape' = tape /\ label' = label
    BY <2>1 DEF simdjson
  <2>6. SimdjsonFacts!WalkInv(h)'
    BY <2>1, <2>2, <2>4, <2>5, SimdjsonAssumed, SimdjsonFacts!ConstructKeeps
  <2>7. SimdjsonFacts!TreeInv'
    BY <2>1, TreeRests DEF SimdjsonInv
  <2> QED
    BY <2>1, <2>2, <2>5, <2>6, <2>7 DEF SimdjsonInv
<1>4. CASE Walk /\ "simdjson" \in Added
  <2>1. SimdjsonFacts!Walker!CallNext /\ UNCHANGED simdjson
    BY <1>4, SameSimdjsonWalk DEF Walk, all_parsers
  <2>2. sj_type # "none"
    BY <2>1 DEF SimdjsonFacts!Walker!CallNext, SimdjsonFacts!Walker!Enter,
      SimdjsonFacts!Walker!Container, SimdjsonFacts!Walker!DocumentEnds,
      SimdjsonFacts!Walker!ContainerEnds, SimdjsonFacts!Walker!NextWord,
      SimdjsonFacts!Walker!MoveOn
  <2>3. label = "succeeded"
    BY <2>2 DEF SimdjsonInv
  <2>4. PICK h : SimdjsonFacts!IsTape(h, tape) /\ SimdjsonFacts!WalkInv(h)
    BY <2>2 DEF SimdjsonInv
  <2>5. tape' = tape /\ label' = label
    BY <2>1 DEF simdjson
  <2>6. SimdjsonFacts!WalkInv(h)'
    BY <2>1, <2>4, <2>5, SimdjsonAssumed, SimdjsonFacts!CallKeeps
  <2>7. SimdjsonFacts!TreeInv'
    BY <2>1, TreeRests DEF SimdjsonInv
  <2> QED
    BY <2>3, <2>4, <2>5, <2>6, <2>7 DEF SimdjsonInv
<1>5. CASE Walk /\ "simdjson" \notin Added
  BY <1>1, <1>5 DEF Walk, all_parsers
<1>6. CASE \/ SimdjsonRefuses \/ NoMemory
           \/ RapidjsonParses \/ RapidjsonAccepts \/ RapidjsonRefuses
           \/ SajsonParses \/ SajsonAccepts \/ SajsonRefuses
           \/ DeleteTraversers \/ Over
  <2>1. UNCHANGED <<simdjson, simdjson_traverser>>
    BY <1>6
      DEF SimdjsonRefuses, NoMemory, RapidjsonParses, RapidjsonAccepts,
          RapidjsonRefuses, SajsonParses, SajsonAccepts, SajsonRefuses,
          DeleteTraversers, Over, Return, traversers, all_parsers, vars
  <2> QED
    BY <1>1, <2>1
<1> QED
  BY <1>2, <1>3, <1>4, <1>5, <1>6 DEF Next

LEMMA SimdjsonInvariant == Spec => []SimdjsonInv
<1>1. Init => SimdjsonInv
  BY DEF Init, SimdjsonInv, Simdjson!Init, SimdjsonFacts!TreeInv,
         SimdjsonFacts!Running, SimdjsonFacts!Verdict
<1>2. HeapInv /\ SimdjsonInv /\ [Next]_vars => SimdjsonInv'
  <2>1. UNCHANGED vars => UNCHANGED <<simdjson, simdjson_traverser>>
    BY DEF vars, all_parsers, traversers
  <2> QED
    BY <2>1, SimdjsonNext, SimdjsonStill
<1> QED
  BY <1>1, <1>2, HeapInvariant, PTL DEF Spec

\* The scopes of the iterator and the stack of SimdjsonTraverser, moved by
\* different calls of next(), stay in step on whatever tape the machine wrote.
THEOREM DepthIsNestingAlways == Spec => []DepthIsNesting
<1>1. SimdjsonInv => DepthIsNesting
  <2>1. CASE sj_stack = <<>> /\ iterator = SimdjsonWalk!AtRoot
    <3>1. Len(iterator.start_of_scope) = 1
      BY <2>1 DEF SimdjsonWalk!AtRoot
    <3>2. {n \in DOMAIN sj_stack : ~sj_stack[n].is_empty} = {}
      BY <2>1
    <3>3. SimdjsonWalk!Cardinality({}) = 0
      <4>1. \A S : SimdjsonWalk!Cardinality(S) = SimdjsonFacts!Cardinality(S)
        BY DEF SimdjsonWalk!Cardinality, SimdjsonFacts!Cardinality
      <4> QED
        BY <4>1, SimdjsonFacts!FS_EmptySet
    <3> QED
      BY <3>1, <3>2, <3>3
         DEF DepthIsNesting, SimdjsonWalk!DepthIsNesting, SimdjsonWalk!Depth
  <2>2. ASSUME NEW h, SimdjsonFacts!WalkInv(h)
        PROVE  DepthIsNesting
    BY <2>2, SimdjsonAssumed, SimdjsonFacts!DepthFollows, SameSimdjsonProperties
  <2> QED
    BY <2>1, <2>2 DEF SimdjsonInv
<1> QED
  BY <1>1, SimdjsonInvariant, PTL

\* The scopes of the iterator are those of the containers on the stack of the
\* traverser, one inside the other, and the iterator is inside them all.
THEOREM InsideScopesAlways == Spec => []InsideScopes
<1>1. SimdjsonInv => InsideScopes
  <2>1. CASE sj_stack = <<>> /\ iterator = SimdjsonWalk!AtRoot
    <3>1. SimdjsonWalk!Depth(iterator) = 1
      BY <2>1 DEF SimdjsonWalk!AtRoot, SimdjsonWalk!Depth
    <3>2. \A n \in 2 .. 1 : FALSE
      OBVIOUS
    <3> QED
      BY <3>1, <3>2 DEF InsideScopes, SimdjsonWalk!InsideScopes
  <2>2. ASSUME NEW h, SimdjsonFacts!IsTape(h, tape), SimdjsonFacts!WalkInv(h)
        PROVE  InsideScopes
    BY <2>2, SimdjsonAssumed, SimdjsonFacts!ScopesFollow, SameSimdjsonProperties
  <2> QED
    BY <2>1, <2>2 DEF SimdjsonInv
<1> QED
  BY <1>1, SimdjsonInvariant, PTL

-----------------------------------------------------------------------------
(***************************************************************************)
(* The grammar. A text that is JSON has as many brackets that close as     *)
(* brackets that open: each reduction takes one of each away.              *)
(***************************************************************************)

Balanced(tokens) ==
  \E h : SimdjsonFacts!Heights(tokens, Len(tokens), h) /\ h[Len(tokens)] = 0

\* What a reduction leaves of s: a scalar in place of a to b.
Replaced(s, a, b) == SubSeq(s, 1, a - 1) \o <<"null">> \o SubSeq(s, b + 1, Len(s))

LEMMA GreatestElement ==
  ASSUME NEW T \in SUBSET Nat, T # {}, NEW bound \in Nat, \A m \in T : m <= bound
  PROVE  \E m \in T : \A k \in T : m >= k
<1> DEFINE U == {bound - m : m \in T}
<1>1. U \in SUBSET Nat /\ U # {}
  <2>1. \A m \in T : bound - m \in Nat
    OBVIOUS
  <2> QED
    BY <2>1
<1>2. PICK d \in U : \A k \in U : d <= k
  BY <1>1, SmallestElement
<1>3. PICK m \in T : d = bound - m
  BY <1>2
<1>4. ASSUME NEW k \in T PROVE m >= k
  <2>1. bound - k \in U
    OBVIOUS
  <2> QED
    BY <1>2, <1>3, <2>1
<1> QED
  BY <1>3, <1>4

\* The container that is reduced has no other inside.
LEMMA InnermostFound ==
  ASSUME NEW s \in Seq(Token), ReduceInnermost(s) # s
  PROVE  \E a, b \in 1 .. Len(s) :
           /\ a < b /\ s[a] \in Opening /\ s[b] \in Closing
           /\ \A n \in a + 1 .. b - 1 : s[n] \notin Opening \cup Closing
           /\ ReduceInnermost(s) = Replaced(s, a, b)
<1>1. PICK size \in Nat : size = Len(s) /\ DOMAIN s = 1 .. size
  BY LenProperties
<1> DEFINE closing == {k \in DOMAIN s : s[k] \in Closing}
           end == Min(closing)
           opening == {k \in 1 .. end : s[k] \in Opening}
           start == Max(opening)
<1>2. /\ closing # {} /\ opening # {}
      /\ ReduceInnermost(s) = Replaced(s, start, end)
  BY DEF ReduceInnermost, Replaced
<1>3. /\ end \in closing /\ \A k \in closing : end <= k
  <2>1. closing \in SUBSET Nat
    BY <1>1
  <2>2. \E m \in closing : \A k \in closing : m <= k
    <3> HIDE DEF closing
    <3> QED
      BY <1>2, <2>1, SmallestElement
  <2> QED
    BY <2>2 DEF Min
<1>4. end \in 1 .. size
  BY <1>1, <1>3
<1>5. /\ start \in opening /\ \A k \in opening : start >= k
  <2>1. /\ opening \in SUBSET Nat /\ end \in Nat
        /\ \A k \in opening : k <= end
    BY <1>4
  <2>2. \E m \in opening : \A k \in opening : m >= k
    <3> HIDE DEF opening, end
    <3> QED
      BY <1>2, <1>4, <2>1, GreatestElement
  <2> QED
    BY <2>2 DEF Max
<1>6. PICK a \in 1 .. size, b \in 1 .. size : a = start /\ b = end
  <2>1. start \in 1 .. end
    BY <1>5
  <2> HIDE DEF start, end
  <2>2. start \in 1 .. size
    BY <1>4, <2>1
  <2> QED
    BY <1>4, <2>2
<1>7. s[a] \in Opening /\ s[b] \in Closing /\ a <= b
  BY <1>3, <1>5, <1>6
<1>8. a # b
  BY <1>7 DEF Opening, Closing
<1>9. ASSUME NEW n \in a + 1 .. b - 1
      PROVE  s[n] \notin Opening \cup Closing
  <2>1. n \in 1 .. size /\ n \in 1 .. b /\ ~(a >= n) /\ ~(b <= n)
    BY <1>6
  <2>2. s[n] \notin Closing
    BY <1>1, <1>3, <1>6, <2>1
  <2>3. s[n] \notin Opening
    BY <1>5, <1>6, <2>1
  <2> QED
    BY <2>2, <2>3
<1>10. ReduceInnermost(s) = Replaced(s, a, b) /\ a < b
  BY <1>2, <1>6, <1>7, <1>8
<1> HIDE DEF closing, end, opening, start
<1> QED
  BY <1>1, <1>7, <1>9, <1>10

LEMMA ReplacedElements ==
  ASSUME NEW s \in Seq(Token), NEW a \in Nat, NEW b \in Nat,
         1 <= a, a < b, b <= Len(s)
  PROVE  /\ Replaced(s, a, b) \in Seq(Token)
         /\ Len(Replaced(s, a, b)) = Len(s) - (b - a)
         /\ \A n \in 1 .. a - 1 : Replaced(s, a, b)[n] = s[n]
         /\ Replaced(s, a, b)[a] = "null"
         /\ \A n \in a + 1 .. Len(s) - (b - a) :
              Replaced(s, a, b)[n] = s[n + (b - a)]
<1>1. PICK size \in Nat : size = Len(s)
  BY LenProperties
<1>2. \A n \in 1 .. size : s[n] \in Token
  BY <1>1, ElementOfSeq
<1>3. PICK front : front = SubSeq(s, 1, a - 1)
  OBVIOUS
<1>4. PICK last : last = SubSeq(s, b + 1, size)
  OBVIOUS
<1>5. /\ front \in Seq(Token) /\ Len(front) = a - 1
      /\ \A n \in 1 .. a - 1 : front[n] = s[n]
  <2>1. \A n \in 1 .. a - 1 : s[n] \in Token
    BY <1>1, <1>2
  <2>2. /\ front \in Seq(Token)
        /\ Len(front) = IF 1 <= a - 1 THEN a - 1 - 1 + 1 ELSE 0
        /\ \A n \in 1 .. a - 1 - 1 + 1 : front[n] = s[1 + n - 1]
    BY <1>3, <2>1, SubSeqProperties
  <2> QED
    BY <2>2
<1>6. /\ last \in Seq(Token) /\ Len(last) = size - b
      /\ \A n \in 1 .. size - b : last[n] = s[b + n]
  <2>1. \A n \in b + 1 .. size : s[n] \in Token
    BY <1>1, <1>2
  <2>2. /\ last \in Seq(Token)
        /\ Len(last) = IF b + 1 <= size THEN size - (b + 1) + 1 ELSE 0
        /\ \A n \in 1 .. size - (b + 1) + 1 : last[n] = s[b + 1 + n - 1]
    BY <1>4, <2>1, SubSeqProperties
  <2> QED
    BY <1>1, <2>2
<1>7. PICK left : left = front \o <<"null">>
  OBVIOUS
<1>8. /\ left \in Seq(Token) /\ Len(left) = a
      /\ \A n \in 1 .. a : left[n] = IF n < a THEN s[n] ELSE "null"
  <2>1. <<"null">> \in Seq(Token) /\ Len(<<"null">>) = 1 /\ <<"null">>[1] = "null"
    BY DEF Token, ScalarKind, AtomKind
  <2>2. /\ left \in Seq(Token)
        /\ Len(left) = Len(front) + Len(<<"null">>)
        /\ \A n \in 1 .. Len(front) + Len(<<"null">>) :
             left[n] = IF n <= Len(front) THEN front[n]
                                          ELSE <<"null">>[n - Len(front)]
    BY <1>5, <1>7, <2>1, ConcatProperties
  <2> QED
    BY <1>5, <2>1, <2>2
<1>9. Replaced(s, a, b) = left \o last
  BY <1>1, <1>3, <1>4, <1>7 DEF Replaced
<1>10. /\ left \o last \in Seq(Token)
       /\ Len(left \o last) = a + (size - b)
       /\ \A n \in 1 .. a + (size - b) :
            (left \o last)[n] = IF n <= a THEN left[n] ELSE last[n - a]
  <2>1. /\ left \o last \in Seq(Token)
        /\ Len(left \o last) = Len(left) + Len(last)
        /\ \A n \in 1 .. Len(left) + Len(last) :
             (left \o last)[n] =
               IF n <= Len(left) THEN left[n] ELSE last[n - Len(left)]
    BY <1>6, <1>8, ConcatProperties, Zenon
  <2> QED
    BY <1>6, <1>8, <2>1
<1>11. ASSUME NEW n \in a + 1 .. size - (b - a)
       PROVE  (left \o last)[n] = s[n + (b - a)]
  <2>1. n \in 1 .. a + (size - b) /\ ~(n <= a) /\ n - a \in 1 .. size - b
          /\ b + (n - a) = n + (b - a)
    BY <1>1
  <2> QED
    BY <1>6, <1>10, <2>1
<1> QED
  BY <1>1, <1>8, <1>9, <1>10, <1>11

LEMMA ReductionBalances ==
  ASSUME NEW s \in Seq(Token)
  PROVE  /\ ReduceInnermost(s) \in Seq(Token)
         /\ Balanced(ReduceInnermost(s)) => Balanced(s)
<1>1. CASE ReduceInnermost(s) = s
  BY <1>1
<1>2. CASE ReduceInnermost(s) # s
  <2>1. PICK size \in Nat : size = Len(s)
    BY LenProperties
  <2>2. PICK a, b \in 1 .. size :
          /\ a < b /\ s[a] \in Opening /\ s[b] \in Closing
          /\ \A n \in a + 1 .. b - 1 : s[n] \notin Opening \cup Closing
          /\ ReduceInnermost(s) = Replaced(s, a, b)
    BY <1>2, <2>1, InnermostFound
  <2>3. PICK r : r = Replaced(s, a, b)
    OBVIOUS
  <2>4. PICK gone \in Nat : gone = b - a /\ gone >= 1
    BY <2>2
  <2>5. /\ r \in Seq(Token) /\ Len(r) = size - gone
        /\ \A n \in 1 .. a - 1 : r[n] = s[n]
        /\ r[a] = "null"
        /\ \A n \in a + 1 .. size - gone : r[n] = s[n + gone]
    <3>1. 1 <= a /\ a < b /\ b <= Len(s) /\ a \in Nat /\ b \in Nat
      BY <2>1, <2>2
    <3>2. /\ Replaced(s, a, b) \in Seq(Token)
          /\ Len(Replaced(s, a, b)) = Len(s) - (b - a)
          /\ \A n \in 1 .. a - 1 : Replaced(s, a, b)[n] = s[n]
          /\ Replaced(s, a, b)[a] = "null"
          /\ \A n \in a + 1 .. Len(s) - (b - a) :
               Replaced(s, a, b)[n] = s[n + (b - a)]
      BY <3>1, ReplacedElements
    <3> QED
      BY <2>1, <2>3, <2>4, <3>2
  <2>6. ASSUME Balanced(r)
        PROVE  Balanced(s)
    <3>1. PICK g : SimdjsonFacts!Heights(r, size - gone, g) /\ g[size - gone] = 0
      BY <2>5, <2>6 DEF Balanced
    <3> DEFINE h == [n \in 0 .. size |->
                       IF n < a THEN g[n]
                       ELSE IF n < b THEN g[a - 1] + 1 ELSE g[n - gone]]
               Up(token) == IF token \in Opening THEN 1
                            ELSE IF token \in Closing THEN -1 ELSE 0
    <3>2. /\ g \in [0 .. size - gone -> Int] /\ g[0] = 0
          /\ \A n \in 1 .. size - gone : g[n] = g[n - 1] + Up(r[n])
      BY <3>1 DEF SimdjsonFacts!Heights, Up, SimdjsonFacts!Opening, Opening,
           SimdjsonFacts!Closing, Closing
    <3>3. /\ Up(s[a]) = 1 /\ Up(s[b]) = -1 /\ Up(r[a]) = 0
          /\ \A n \in a + 1 .. b - 1 : Up(s[n]) = 0
          /\ \A token : Up(token) \in Int
      BY <2>2, <2>5 DEF Opening, Closing
    <3> HIDE DEF Up
    <3>4. h \in [0 .. size -> Int] /\ h[0] = 0 /\ h[size] = 0
      <4>1. ASSUME NEW n \in 0 .. size PROVE h[n] \in Int
        <5>1. CASE n < a
          <6>1. n \in 0 .. size - gone /\ h[n] = g[n]
            BY <2>2, <2>4, <5>1
          <6> QED
            BY <3>2, <6>1
        <5>2. CASE ~(n < a) /\ n < b
          <6>1. a - 1 \in 0 .. size - gone /\ h[n] = g[a - 1] + 1
            BY <2>2, <2>4, <5>2
          <6> HIDE DEF h
          <6> QED
            BY <3>2, <6>1
        <5>3. CASE ~(n < a) /\ ~(n < b)
          <6>1. n - gone \in 0 .. size - gone /\ h[n] = g[n - gone]
            BY <2>2, <2>4, <5>3
          <6> HIDE DEF h
          <6> QED
            BY <3>2, <6>1
        <5> QED
          BY <5>1, <5>2, <5>3
      <4>2. h[0] = 0 /\ 0 < a
        BY <2>2, <3>2
      <4>3. h[size] = 0 /\ ~(size < a) /\ ~(size < b)
        BY <2>2, <3>1
      <4>4. h = [n \in 0 .. size |-> h[n]]
        OBVIOUS
      <4> HIDE DEF h
      <4> QED
        BY <4>1, <4>2, <4>3, <4>4
    <3>5. ASSUME NEW n \in 1 .. size
          PROVE  h[n] = h[n - 1] + Up(s[n])
      <4>1. /\ h[n] = IF n < a THEN g[n]
                      ELSE IF n < b THEN g[a - 1] + 1 ELSE g[n - gone]
            /\ h[n - 1] = IF n - 1 < a THEN g[n - 1]
                          ELSE IF n - 1 < b THEN g[a - 1] + 1 ELSE g[n - 1 - gone]
        OBVIOUS
      <4> HIDE DEF h
      <4>2. CASE n < a
        <5>1. n \in 1 .. size - gone /\ n \in 1 .. a - 1
          BY <2>2, <2>4, <4>2
        <5> QED
          BY <2>5, <3>2, <4>1, <4>2, <5>1
      <4>3. CASE n = a
        <5>1. g[a - 1] \in Int
          BY <2>2, <2>4, <3>2
        <5> QED
          BY <2>2, <3>3, <4>1, <4>3, <5>1
      <4>4. CASE a < n /\ n < b
        <5>1. g[a - 1] \in Int /\ n \in a + 1 .. b - 1
          BY <2>2, <2>4, <3>2, <4>4
        <5> QED
          BY <2>2, <3>3, <4>1, <4>4, <5>1
      <4>5. CASE n = b
        <5>1. a \in 1 .. size - gone /\ b - gone = a
          BY <2>2, <2>4
        <5>2. g[a] = g[a - 1] + Up(r[a]) /\ g[a - 1] \in Int
          BY <3>2, <5>1
        <5> QED
          BY <2>2, <3>3, <4>1, <4>5, <5>1, <5>2
      <4>6. CASE n > b
        <5>1. /\ n - gone \in 1 .. size - gone /\ n - gone \in a + 1 .. size - gone
              /\ n - gone + gone = n /\ n - gone - 1 = n - 1 - gone
          BY <2>2, <2>4, <4>6
        <5>2. g[n - gone] = g[n - gone - 1] + Up(r[n - gone])
          BY <3>2, <5>1
        <5>3. r[n - gone] = s[n]
          BY <2>5, <5>1
        <5> QED
          BY <2>2, <4>1, <4>6, <5>1, <5>2, <5>3
      <4> QED
        BY <2>2, <4>2, <4>3, <4>4, <4>5, <4>6
    <3>6. SimdjsonFacts!Heights(s, size, h)
      <4> HIDE DEF h
      <4> QED
        BY <3>4, <3>5 DEF SimdjsonFacts!Heights, Up, SimdjsonFacts!Opening, Opening,
           SimdjsonFacts!Closing, Closing
    <3> QED
      BY <2>1, <3>4, <3>6 DEF Balanced
  <2> QED
    BY <2>2, <2>3, <2>5, <2>6
<1> QED
  BY <1>1, <1>2

\* The reductions IsJson makes.
Reductions(tokens, size, f) ==
  f = [n \in 0 .. size |-> IF n = 0 THEN tokens ELSE ReduceInnermost(f[n - 1])]

LEMMA ReductionsExist ==
  ASSUME NEW tokens, NEW size \in Nat
  PROVE  \E f : Reductions(tokens, size, f)
<1> DEFINE S == {m \in Nat : \E f : Reductions(tokens, m, f)}
<1>1. 0 \in S
  <2> DEFINE f == [n \in 0 .. 0 |-> tokens]
  <2>1. f = [n \in 0 .. 0 |-> IF n = 0 THEN tokens ELSE ReduceInnermost(f[n - 1])]
    OBVIOUS
  <2>2. Reductions(tokens, 0, f)
    BY <2>1 DEF Reductions
  <2> QED
    BY <2>2
<1>2. ASSUME NEW m \in Nat, m \in S PROVE m + 1 \in S
  <2>1. PICK f : Reductions(tokens, m, f)
    BY <1>2
  <2> DEFINE g == [n \in 0 .. m + 1 |->
                     IF n = m + 1 THEN ReduceInnermost(f[m]) ELSE f[n]]
  <2>2. ASSUME NEW n \in 0 .. m + 1
        PROVE  g[n] = IF n = 0 THEN tokens ELSE ReduceInnermost(g[n - 1])
    <3>1. CASE n = m + 1
      <4>1. n # 0 /\ n - 1 = m /\ m \in 0 .. m + 1 /\ m # m + 1
        BY <3>1
      <4> QED
        BY <3>1, <4>1
    <3>2. CASE n # m + 1
      <4>1. n \in 0 .. m /\ g[n] = f[n]
        BY <3>2
      <4>2. f[n] = IF n = 0 THEN tokens ELSE ReduceInnermost(f[n - 1])
        BY <2>1, <4>1 DEF Reductions
      <4>3. n # 0 => n - 1 \in 0 .. m + 1 /\ n - 1 # m + 1
        BY <4>1
      <4> QED
        BY <4>1, <4>2, <4>3
    <3> QED
      BY <3>1, <3>2
  <2>3. g = [n \in 0 .. m + 1 |-> g[n]]
    OBVIOUS
  <2> HIDE DEF g
  <2>4. Reductions(tokens, m + 1, g)
    BY <2>2, <2>3 DEF Reductions
  <2> QED
    BY <2>4
<1>3. Nat \subseteq S
  <2> HIDE DEF S
  <2> QED
    BY <1>1, <1>2, SetInduction
<1> QED
  BY <1>3

LEMMA JsonReduces ==
  ASSUME NEW tokens, IsJson(tokens)
  PROVE  \E f : /\ Reductions(tokens, Len(tokens), f)
                /\ Len(f[Len(tokens)]) = 1 /\ f[Len(tokens)][1] \in ScalarKind
<1> DEFINE reduced == CHOOSE f : Reductions(tokens, Len(tokens), f)
<1>1. Len(reduced[Len(tokens)]) = 1 /\ reduced[Len(tokens)][1] \in ScalarKind
  BY DEF IsJson, Reductions
<1> QED
  BY <1>1, ReductionsExist

LEMMA JsonIsBalanced ==
  ASSUME NEW tokens \in Seq(Token), IsJson(tokens)
  PROVE  tokens # <<>> /\ Balanced(tokens)
<1>1. PICK size \in Nat : size = Len(tokens)
  BY LenProperties
<1>2. PICK f : /\ Reductions(tokens, size, f)
               /\ Len(f[size]) = 1 /\ f[size][1] \in ScalarKind
  BY <1>1, JsonReduces
<1>3. /\ f[0] = tokens
      /\ \A n \in 1 .. size : f[n] = ReduceInnermost(f[n - 1])
  <2>1. \A n \in 0 .. size :
          f[n] = IF n = 0 THEN tokens ELSE ReduceInnermost(f[n - 1])
    BY <1>2 DEF Reductions
  <2> QED
    BY <2>1
<1> DEFINE S == {n \in Nat : n <= size => f[n] \in Seq(Token)}
           T == {n \in Nat : n <= size => Balanced(f[size - n])}
<1>4. \A n \in 0 .. size : f[n] \in Seq(Token)
  <2>1. 0 \in S
    BY <1>3
  <2>2. ASSUME NEW n \in Nat, n \in S PROVE n + 1 \in S
    <3>1. CASE n + 1 <= size
      <4>1. n + 1 \in 1 .. size /\ n + 1 - 1 = n /\ n <= size
        BY <3>1
      <4> QED
        BY <1>3, <2>2, <4>1, ReductionBalances
    <3> QED
      BY <3>1
  <2>3. Nat \subseteq S
    <3> HIDE DEF S
    <3> QED
      BY <2>1, <2>2, SetInduction
  <2> QED
    BY <2>3
<1>5. 0 \in T
  <2>1. f[size] \in Seq(Token) /\ f[size][1] \notin Opening \cup Closing
    BY <1>2, <1>4 DEF ScalarKind, AtomKind, NumberKind, Opening, Closing
  <2> DEFINE h == [n \in 0 .. 1 |-> 0]
  <2>2. SimdjsonFacts!Heights(f[size], 1, h) /\ h[1] = 0
    BY <2>1 DEF SimdjsonFacts!Heights, SimdjsonFacts!Opening, Opening,
      SimdjsonFacts!Closing, Closing
  <2>3. Balanced(f[size])
    <3> HIDE DEF h
    <3> QED
      BY <1>2, <2>2 DEF Balanced
  <2> QED
    BY <2>3
<1>6. ASSUME NEW n \in Nat, n \in T PROVE n + 1 \in T
  <2>1. CASE n + 1 <= size
    <3>1. /\ n <= size /\ size - n \in 1 .. size /\ size - n - 1 = size - (n + 1)
          /\ size - n - 1 \in 0 .. size
      BY <2>1
    <3>2. f[size - n] = ReduceInnermost(f[size - (n + 1)])
            /\ f[size - (n + 1)] \in Seq(Token)
      BY <1>3, <1>4, <3>1
    <3> QED
      BY <1>6, <3>1, <3>2, ReductionBalances
  <2> QED
    BY <2>1
<1>7. Balanced(tokens)
  <2>1. Nat \subseteq T
    <3> HIDE DEF T
    <3> QED
      BY <1>5, <1>6, SetInduction
  <2>2. Balanced(f[size - size])
    BY <2>1
  <2> QED
    BY <1>3, <2>2
<1>8. tokens # <<>>
  <2> SUFFICES ASSUME tokens = <<>> PROVE FALSE
    OBVIOUS
  <2>1. size = 0
    BY <1>1
  <2> QED
    BY <1>1, <1>2, <1>3, <2>1
<1> QED
  BY <1>7, <1>8

-----------------------------------------------------------------------------
(***************************************************************************)
(* Texts that simdjson reads beyond their end are no JSON.                 *)
(***************************************************************************)
\* While the machine is at work, and after.
LEMMA HeightNext ==
  ASSUME HeapInv, SimdjsonFacts!HeightInv, Next
  PROVE  SimdjsonFacts!HeightInv'
<1>1. CASE UNCHANGED <<text, simdjson>>
  BY <1>1 DEF simdjson, SimdjsonFacts!HeightInv, SimdjsonFacts!Matched,
    SimdjsonFacts!Running
<1>2. CASE SimdjsonParses
  <2>1. SimdjsonFacts!IInv /\ SimdjsonFacts!Parse
    BY <1>2, SameSimdjson DEF SimdjsonParses, HeapInv
  <2> QED
    BY <2>1, SimdjsonAssumed, SimdjsonFacts!HeightKeeps
<1>3. CASE RapidjsonParses \/ SajsonParses
  <2>1. UNCHANGED text
    BY <1>3, RapidjsonKeepsText, SajsonStepLabels DEF SajsonParses
  <2>2. UNCHANGED simdjson
    BY <1>3 DEF RapidjsonParses, SajsonParses
  <2> QED
    BY <1>1, <2>1, <2>2
<1>4. CASE \/ SimdjsonAccepts \/ RapidjsonAccepts \/ SajsonAccepts
           \/ SimdjsonRefuses \/ NoMemory \/ RapidjsonRefuses \/ SajsonRefuses
           \/ Walk \/ DeleteTraversers \/ Over
  <2>1. UNCHANGED <<text, simdjson>>
    BY <1>4
      DEF SimdjsonAccepts, RapidjsonAccepts, SajsonAccepts, SimdjsonRefuses,
          NoMemory, RapidjsonRefuses, SajsonRefuses, Walk, DeleteTraversers,
          Over, Return, traversers, all_parsers, vars
  <2> QED
    BY <1>1, <2>1
<1> QED
  BY <1>2, <1>3, <1>4 DEF Next

\* A prefix of the text that is balanced keeps the machine from running away.
LEMMA PrefixNotJson ==
  ASSUME HeapInv, SimdjsonFacts!HeightInv, label = "died",
         NEW length \in 0 .. Len(text), NEW tokens \in Seq(Token),
         Len(tokens) = length, \A n \in 1 .. length : tokens[n] = text[n]
  PROVE  ~IsJson(tokens)
<1> SUFFICES ASSUME IsJson(tokens) PROVE FALSE
  OBVIOUS
<1>1. PICK h : SimdjsonFacts!Heights(tokens, length, h) /\ h[length] = 0
  BY JsonIsBalanced DEF Balanced
<1>2. SimdjsonFacts!Heights(text, length, h)
  BY <1>1 DEF SimdjsonFacts!Heights
<1>3. SimdjsonFacts!Matched(length, h)
  BY <1>2 DEF SimdjsonFacts!HeightInv
<1>4. length # 0
  BY JsonIsBalanced, EmptySeq
<1>5. /\ length \in 1 .. length /\ length <= Len(text)
      /\ Len(text) \in Nat /\ next_index \in Nat
  BY <1>4, DocumentAssumption, LenProperties
     DEF HeapInv, SimdjsonFacts!IInv, SimdjsonFacts!TypeOK
<1> QED
  BY <1>1, <1>3, <1>5 DEF SimdjsonFacts!Matched

\* The machine of simdjson, which reads on behind its last index, gets to where
\* it may die on no text that is JSON, nor on one that rapidjson takes.
THEOREM RunsAwayOnNoJsonAlways == Spec => []RunsAwayOnNoJson
<1>1. Init => SimdjsonFacts!HeightInv
  BY SimdjsonAssumed, SimdjsonFacts!HeightStarts DEF Init, Simdjson!Init
<1>2. HeapInv /\ SimdjsonFacts!HeightInv /\ [Next]_vars => SimdjsonFacts!HeightInv'
  <2>1. UNCHANGED vars => UNCHANGED <<text, simdjson>>
    BY DEF vars, all_parsers, common
  <2>2. UNCHANGED <<text, simdjson>> /\ SimdjsonFacts!HeightInv
          => SimdjsonFacts!HeightInv'
    BY DEF simdjson, SimdjsonFacts!HeightInv, SimdjsonFacts!Matched,
      SimdjsonFacts!Running
  <2> QED
    BY <2>1, <2>2, HeightNext
<1>3. HeapInv /\ SimdjsonFacts!HeightInv => RunsAwayOnNoJson
  <2> SUFFICES ASSUME HeapInv, SimdjsonFacts!HeightInv, label = "died"
               PROVE  ~IsJson(text) /\ ~RapidjsonTakes(text)
    BY DEF RunsAwayOnNoJson
  <2>1. text \in Seq(Token)
    BY DocumentAssumption DEF HeapInv, SimdjsonFacts!IInv, SimdjsonFacts!TypeOK
  <2>2. PICK size \in Nat : size = Len(text) /\ DOMAIN text = 1 .. size
    BY <2>1, LenProperties
  <2>3. ~IsJson(text)
    BY <2>1, <2>2, PrefixNotJson
  <2>4. text # <<>> /\ text[1] # "EF"
    <3>1. Simdjson!Stage1Accepts
      BY DEF HeapInv, LabelsFit
    <3>2. text # <<>> /\ \A n \in DOMAIN text : text[n] # "EF"
      BY <3>1 DEF Simdjson!Stage1Accepts
    <3> QED
      BY <2>1, <2>2, <3>2, EmptySeq
  <2> DEFINE nulls == {n \in DOMAIN text : text[n] = "NUL"}
  <2>5. CASE nulls = {}
    <3>1. AfterMark(UpToNull(text)) = text
      BY <2>4, <2>5 DEF UpToNull, AfterMark
    <3> QED
      BY <2>3, <3>1 DEF RapidjsonTakes
  <2>6. CASE nulls # {}
    <3>1. PICK first \in 1 .. size : first = Min(nulls)
      <4>1. nulls \in SUBSET Nat /\ nulls \subseteq 1 .. size
        BY <2>2
      <4> HIDE DEF nulls
      <4>2. \E m \in nulls : \A k \in nulls : m <= k
        BY <2>6, <4>1, SmallestElement
      <4>3. Min(nulls) \in nulls
        BY <4>2 DEF Min
      <4> QED
        BY <4>1, <4>3
    <3>2. PICK length \in 0 .. size : length = first - 1
      OBVIOUS
    <3>3. UpToNull(text) = SubSeq(text, 1, length)
      BY <2>6, <3>1, <3>2 DEF UpToNull
    <3>4. PICK tokens : tokens = SubSeq(text, 1, length)
      OBVIOUS
    <3>5. /\ tokens \in Seq(Token) /\ Len(tokens) = length
          /\ \A n \in 1 .. length : tokens[n] = text[n]
      <4>1. \A n \in 1 .. length : text[n] \in Token
        BY <2>1, <2>2, ElementOfSeq
      <4>2. /\ tokens \in Seq(Token)
            /\ Len(tokens) = IF 1 <= length THEN length - 1 + 1 ELSE 0
            /\ \A n \in 1 .. length - 1 + 1 : tokens[n] = text[1 + n - 1]
        BY <3>4, <4>1, SubSeqProperties
      <4> QED
        BY <4>2
    <3>6. ~IsJson(tokens)
      BY <2>2, <3>5, PrefixNotJson
    <3>7. AfterMark(tokens) = tokens
      <4>1. tokens # <<>> => tokens[1] = text[1]
        BY <3>5, EmptySeq
      <4> QED
        BY <2>4, <4>1 DEF AfterMark
    <3> QED
      <4>1. AfterMark(UpToNull(text)) = tokens
        BY <3>3, <3>4, <3>7
      <4> QED
        BY <2>3, <3>6, <4>1 DEF RapidjsonTakes
  <2> QED
    BY <2>3, <2>5, <2>6
<1> QED
  BY <1>1, <1>2, <1>3, HeapInvariant, PTL DEF Spec
=============================================================================
