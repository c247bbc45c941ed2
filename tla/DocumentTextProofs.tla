------------------------- MODULE DocumentTextProofs -------------------------
(***************************************************************************)
(* Proofs about DocumentComparison and the text that is parsed: what every *)
(* parser says of it and what every traverser shows of it follows from the *)
(* text, read token by token (TextEvents). The parsers are where the text  *)
(* is when they read on; a DOM, an AST or a tape that is finished has each *)
(* value of the text where its position says; and a traverser that walks   *)
(* it is, after each call of next(), at the event whose turn it is         *)
(* (ReadsInv). What one of them shows is then compared with what another   *)
(* shows by comparing two events of one text (NoFalseDifference). A parser *)
(* that stops knows whether the text was one whole value (VerdictsInv).    *)
(***************************************************************************)
EXTENDS DocumentComparisonProofs

LEMMA SameRapidjsonText ==
  ASSUME NEW s
  PROVE  /\ RapidjsonFacts!Run(s) = Run(s)
         /\ RapidjsonFacts!FirstEvent(s) = FirstEvent(s)
         /\ \A q : RapidjsonFacts!NextEvent(s, q) = NextEvent(s, q)
         /\ \A q, types : RapidjsonFacts!EventAt(s, q, types) = EventAt(s, q, types)
<1>1. RapidjsonFacts!Run(s) = Run(s)
  BY DEF
    Run, RapidjsonFacts!Run, Advance, RapidjsonFacts!Advance,
    Outset, RapidjsonFacts!Outset, Lost, RapidjsonFacts!Lost,
    Inner, RapidjsonFacts!Inner, ValueNext, RapidjsonFacts!ValueNext,
    KeyNext, RapidjsonFacts!KeyNext, CloserNext, RapidjsonFacts!CloserNext,
    CommaNext, RapidjsonFacts!CommaNext, Expecting, RapidjsonFacts!Expecting,
    Deeper, RapidjsonFacts!Deeper, Shallower, RapidjsonFacts!Shallower,
    Onward, RapidjsonFacts!Onward, Last, RapidjsonFacts!Last,
    Front, RapidjsonFacts!Front, Closer, RapidjsonFacts!Closer,
    ScalarKind, RapidjsonFacts!ScalarKind, AtomKind, RapidjsonFacts!AtomKind,
    NumberKind, RapidjsonFacts!NumberKind
<1>2. RapidjsonFacts!FirstEvent(s) = FirstEvent(s)
  BY DEF FirstEvent, RapidjsonFacts!FirstEvent
<1>3. \A q : RapidjsonFacts!NextEvent(s, q) = NextEvent(s, q)
  BY <1>1 DEF NextEvent, RapidjsonFacts!NextEvent, IsWhole, RapidjsonFacts!IsWhole
<1>4. \A q, types : RapidjsonFacts!EventAt(s, q, types) = EventAt(s, q, types)
  BY <1>1 DEF EventAt, RapidjsonFacts!EventAt, Value, RapidjsonFacts!Value,
    NoPayload, RapidjsonFacts!NoPayload, Payload, RapidjsonFacts!Payload,
    Closing, RapidjsonFacts!Closing,
    ScalarKind, RapidjsonFacts!ScalarKind, AtomKind, RapidjsonFacts!AtomKind,
    NumberKind, RapidjsonFacts!NumberKind
<1> QED
  BY <1>1, <1>2, <1>3, <1>4

\* The reader is where the text is; and what the traverser walks is the text,
\* at the event whose turn it is.
RapidjsonReads ==
  /\ RapidjsonFacts!FollowInv
  /\ states["rapidjson"] = "ok" =>
       /\ state = "accepted"
       /\ \E s, last, W, q :
            /\ s = text /\ q = EventAfter(text, calls)
            /\ RapidjsonFacts!DomIs(s, last, W, Head(values))
            /\ RapidjsonFacts!WalkReads(s, last, W, q)

CallsFit == calls \in Nat /\ (turn <= Len(parsers) => calls = 0)

LEMMA RapidjsonReadsRests ==
  ASSUME RapidjsonReads, UNCHANGED <<text, calls, rapidjson, rapidjson_traverser>>,
         states'["rapidjson"] = states["rapidjson"]
  PROVE  RapidjsonReads'
<1>1. RapidjsonFacts!FollowInv'
  BY DEF RapidjsonReads, RapidjsonFacts!FollowInv, rapidjson
<1>2. \A s, last, W, q : RapidjsonFacts!WalkReads(s, last, W, q)
                           => RapidjsonFacts!WalkReads(s, last, W, q)'
  BY DEF RapidjsonFacts!WalkReads, RapidjsonFacts!ShownAt, rapidjson_traverser
<1> QED
  BY <1>1, <1>2 DEF RapidjsonReads, rapidjson

LEMMA TextRests ==
  ASSUME HeapInv, Next
  PROVE  text' = text
<1>1. CASE SimdjsonParses
  <2>1. SimdjsonFacts!IInv /\ SimdjsonFacts!Parse
    BY <1>1, SameSimdjson DEF SimdjsonParses, HeapInv
  <2> QED
    BY <2>1, SimdjsonAssumed, SimdjsonFacts!StepLabels
<1>2. CASE RapidjsonParses
  BY <1>2, RapidjsonKeepsText
<1>3. CASE SajsonParses
  BY <1>3, SajsonStepLabels DEF SajsonParses
<1>4. CASE \/ SimdjsonAccepts \/ SimdjsonRefuses \/ NoMemory
           \/ RapidjsonAccepts \/ RapidjsonRefuses
           \/ SajsonAccepts \/ SajsonRefuses
  BY <1>4 DEF SimdjsonAccepts, SimdjsonRefuses, NoMemory, RapidjsonAccepts,
              RapidjsonRefuses, SajsonAccepts, SajsonRefuses, Return
<1>5. CASE Walk \/ DeleteTraversers \/ Over
  BY <1>5 DEF Walk, DeleteTraversers, Over, vars
<1> QED
  BY <1>1, <1>2, <1>3, <1>4, <1>5 DEF Next

LEMMA RapidjsonReadsNext ==
  ASSUME RapidjsonInv, TurnsFit, HeapInv, CallsFit, RapidjsonReads, Next
  PROVE  RapidjsonReads'
<1>1. CASE RapidjsonParses
  <2>1. RapidjsonFacts!Reader!Parse /\ Turn("rapidjson") /\ states' = states
    BY <1>1, SameReader DEF RapidjsonParses, common
  <2>2. RapidjsonFacts!FollowInv'
    BY <2>1, RapidjsonFacts!FollowKeeps DEF RapidjsonInv, RapidjsonReads
  <2>3. states'["rapidjson"] # "ok"
    BY <2>1, AtTurn
  <2> QED
    BY <2>2, <2>3 DEF RapidjsonReads
<1>2. CASE RapidjsonAccepts
  <2>1. /\ state = "accepted" /\ RapidjsonFacts!Construct /\ Turn("rapidjson")
        /\ UNCHANGED <<text, calls, rapidjson>>
    BY <1>2, SameRapidjsonWalk DEF RapidjsonAccepts, Return, all_parsers
  <2>2. PICK s, last, doc : s = text /\ last = at - 1 /\ doc = Head(values)
    OBVIOUS
  <2>3. PICK W : RapidjsonFacts!DomIs(s, last, W, Head(values))
    BY <2>1, <2>2, RapidjsonFacts!DomRead DEF RapidjsonInv, RapidjsonReads
  <2>4. RapidjsonFacts!WalkReads(s, last, W, RapidjsonFacts!FirstEvent(s))'
    BY <2>1, <2>3, RapidjsonFacts!ConstructShows
  <2>5. PICK q : q = FirstEvent(s)
    OBVIOUS
  <2>6. RapidjsonFacts!WalkReads(s, last, W, q)'
    BY <2>4, <2>5, SameRapidjsonText
  <2>7. q = EventAfter(s, 0) /\ calls = 0
    BY <2>1, <2>5, EventSteps DEF CallsFit, Turn
  <2>8. RapidjsonFacts!FollowInv'
    BY <2>1 DEF RapidjsonReads, RapidjsonFacts!FollowInv, rapidjson
  <2>9. text' = text /\ calls' = calls /\ values' = values /\ state' = state
    BY <2>1 DEF rapidjson
  <2> QED
    BY <2>1, <2>2, <2>3, <2>6, <2>7, <2>8, <2>9 DEF RapidjsonReads
<1>3. CASE Walk /\ states["rapidjson"] = "ok"
  <2>1. "rapidjson" \in Added
    BY <1>3 DEF TurnsFit, ParserName
  <2>2. /\ RapidjsonFacts!CallNext /\ calls' = calls + 1 /\ UNCHANGED <<text, rapidjson>>
    BY <1>3, <2>1, SameRapidjsonWalk DEF Walk, all_parsers
  <2>3. PICK s, last, W, q :
          /\ s = text /\ q = EventAfter(text, calls)
          /\ RapidjsonFacts!DomIs(s, last, W, Head(values))
          /\ RapidjsonFacts!WalkReads(s, last, W, q)
    BY <1>3 DEF RapidjsonReads
  <2>4. RapidjsonFacts!WalkReads(s, last, W, RapidjsonFacts!NextEvent(s, q))'
    BY <2>2, <2>3, RapidjsonFacts!CallShows
  <2>5. PICK next : next = NextEvent(s, q)
    OBVIOUS
  <2>6. RapidjsonFacts!WalkReads(s, last, W, next)'
    BY <2>4, <2>5, SameRapidjsonText
  <2>7. next = EventAfter(s, calls + 1)
    BY <2>3, <2>5, EventSteps DEF CallsFit
  <2>8. RapidjsonFacts!FollowInv'
    BY <2>2 DEF RapidjsonReads, RapidjsonFacts!FollowInv, rapidjson
  <2>9. text' = text /\ calls' = calls + 1 /\ values' = values /\ state' = state
    BY <2>2 DEF rapidjson
  <2>10. state = "accepted"
    BY <1>3 DEF RapidjsonReads
  <2> QED
    BY <2>3, <2>6, <2>7, <2>8, <2>9, <2>10 DEF RapidjsonReads
<1>4. CASE Walk /\ states["rapidjson"] # "ok"
  <2>1. RapidjsonFacts!FollowInv' /\ states' = states
    BY <1>4 DEF RapidjsonReads, RapidjsonFacts!FollowInv, rapidjson, Walk, all_parsers
  <2> QED
    BY <1>4, <2>1 DEF RapidjsonReads
<1>5. CASE RapidjsonRefuses
  <2>1. states'["rapidjson"] # "ok"
    BY <1>5 DEF RapidjsonRefuses, Return, TurnsFit, ParserName
  <2>2. RapidjsonFacts!FollowInv'
    BY <1>5 DEF RapidjsonReads, RapidjsonFacts!FollowInv, rapidjson, RapidjsonRefuses,
                Return, all_parsers
  <2> QED
    BY <2>1, <2>2 DEF RapidjsonReads
<1>6. CASE SimdjsonParses \/ SajsonParses \/ DeleteTraversers \/ Over
  <2>1. UNCHANGED <<text, calls, states, rapidjson, rapidjson_traverser>>
    BY <1>6, TextRests
      DEF SimdjsonParses, SajsonParses, DeleteTraversers, Over, traversers,
          all_parsers, vars, common
  <2> QED
    BY <2>1, RapidjsonReadsRests
<1>7. CASE \/ SimdjsonAccepts \/ SimdjsonRefuses \/ NoMemory
           \/ SajsonAccepts \/ SajsonRefuses
  <2>1. UNCHANGED <<text, calls, rapidjson, rapidjson_traverser>>
    BY <1>7
      DEF SimdjsonAccepts, SimdjsonRefuses, NoMemory, SajsonAccepts, SajsonRefuses,
          Return, traversers, all_parsers
  <2>2. states'["rapidjson"] = states["rapidjson"]
    BY <1>7
      DEF SimdjsonAccepts, SimdjsonRefuses, NoMemory, SajsonAccepts, SajsonRefuses,
          Return, TurnsFit, ParserName
  <2> QED
    BY <2>1, <2>2, RapidjsonReadsRests
<1> QED
  BY <1>1, <1>2, <1>3, <1>4, <1>5, <1>6, <1>7 DEF Next

LEMMA SameSajsonText ==
  ASSUME NEW s
  PROVE  /\ SajsonFacts!Run(s) = Run(s)
         /\ SajsonFacts!FirstEvent(s) = FirstEvent(s)
         /\ \A q : SajsonFacts!NextEvent(s, q) = NextEvent(s, q)
         /\ \A q, types : SajsonFacts!EventAt(s, q, types) = EventAt(s, q, types)
<1>1. SajsonFacts!Run(s) = Run(s)
  BY DEF
    Run, SajsonFacts!Run, Advance, SajsonFacts!Advance,
    Outset, SajsonFacts!Outset, Lost, SajsonFacts!Lost,
    Inner, SajsonFacts!Inner, ValueNext, SajsonFacts!ValueNext,
    KeyNext, SajsonFacts!KeyNext, CloserNext, SajsonFacts!CloserNext,
    CommaNext, SajsonFacts!CommaNext, Expecting, SajsonFacts!Expecting,
    Deeper, SajsonFacts!Deeper, Shallower, SajsonFacts!Shallower,
    Onward, SajsonFacts!Onward, Last, SajsonFacts!Last,
    Front, SajsonFacts!Front, Closer, SajsonFacts!Closer,
    ScalarKind, SajsonFacts!ScalarKind, AtomKind, SajsonFacts!AtomKind,
    NumberKind, SajsonFacts!NumberKind
<1>2. SajsonFacts!FirstEvent(s) = FirstEvent(s)
  BY DEF FirstEvent, SajsonFacts!FirstEvent
<1>3. \A q : SajsonFacts!NextEvent(s, q) = NextEvent(s, q)
  BY <1>1 DEF NextEvent, SajsonFacts!NextEvent, IsWhole, SajsonFacts!IsWhole
<1>4. \A q, types : SajsonFacts!EventAt(s, q, types) = EventAt(s, q, types)
  BY <1>1 DEF EventAt, SajsonFacts!EventAt, Value, SajsonFacts!Value,
    NoPayload, SajsonFacts!NoPayload, Payload, SajsonFacts!Payload,
    Closing, SajsonFacts!Closing,
    ScalarKind, SajsonFacts!ScalarKind, AtomKind, SajsonFacts!AtomKind,
    NumberKind, SajsonFacts!NumberKind
<1> QED
  BY <1>1, <1>2, <1>3, <1>4

LEMMA SameSimdjsonText ==
  ASSUME NEW s
  PROVE  /\ SimdjsonFacts!Run(s) = Run(s)
         /\ SimdjsonFacts!FirstEvent(s) = FirstEvent(s)
         /\ \A q : SimdjsonFacts!NextEvent(s, q) = NextEvent(s, q)
         /\ \A q, types : SimdjsonFacts!EventAt(s, q, types) = EventAt(s, q, types)
<1>1. SimdjsonFacts!Run(s) = Run(s)
  BY DEF
    Run, SimdjsonFacts!Run, Advance, SimdjsonFacts!Advance,
    Outset, SimdjsonFacts!Outset, Lost, SimdjsonFacts!Lost,
    Inner, SimdjsonFacts!Inner, ValueNext, SimdjsonFacts!ValueNext,
    KeyNext, SimdjsonFacts!KeyNext, CloserNext, SimdjsonFacts!CloserNext,
    CommaNext, SimdjsonFacts!CommaNext, Expecting, SimdjsonFacts!Expecting,
    Deeper, SimdjsonFacts!Deeper, Shallower, SimdjsonFacts!Shallower,
    Onward, SimdjsonFacts!Onward, Last, SimdjsonFacts!Last,
    Front, SimdjsonFacts!Front, Closer, SimdjsonFacts!Closer,
    ScalarKind, SimdjsonFacts!ScalarKind, AtomKind, SimdjsonFacts!AtomKind,
    NumberKind, SimdjsonFacts!NumberKind
<1>2. SimdjsonFacts!FirstEvent(s) = FirstEvent(s)
  BY DEF FirstEvent, SimdjsonFacts!FirstEvent
<1>3. \A q : SimdjsonFacts!NextEvent(s, q) = NextEvent(s, q)
  BY <1>1 DEF NextEvent, SimdjsonFacts!NextEvent, IsWhole, SimdjsonFacts!IsWhole
<1>4. \A q, types : SimdjsonFacts!EventAt(s, q, types) = EventAt(s, q, types)
  BY <1>1 DEF EventAt, SimdjsonFacts!EventAt, Value, SimdjsonFacts!Value,
    NoPayload, SimdjsonFacts!NoPayload, Payload, SimdjsonFacts!Payload,
    Closing, SimdjsonFacts!Closing,
    ScalarKind, SimdjsonFacts!ScalarKind, AtomKind, SimdjsonFacts!AtomKind,
    NumberKind, SimdjsonFacts!NumberKind
<1> QED
  BY <1>1, <1>2, <1>3, <1>4

\* The parser is where the text is; and what the traverser walks is the text,
\* at the event whose turn it is.
SajsonReads ==
  /\ SajsonFacts!FollowInv /\ SajsonFacts!RootFirst
  /\ states["sajson"] = "ok" =>
       /\ sa_label = "accepted"
       /\ \E s, W, a, q :
            /\ s = text /\ a = ast /\ q = EventAfter(text, calls)
            /\ SajsonFacts!AstIs(s, W, a, current_structure_type)
            /\ SajsonFacts!WalkReads(s, W, a, q)

LEMMA SajsonParserRests ==
  ASSUME SajsonReads, UNCHANGED <<text, sajson>>
  PROVE  SajsonFacts!FollowInv' /\ SajsonFacts!RootFirst'
BY DEF SajsonReads, SajsonFacts!FollowInv, SajsonFacts!RootFirst, sajson

LEMMA SajsonReadsRests ==
  ASSUME SajsonReads, UNCHANGED <<text, calls, sajson, sajson_traverser>>,
         states'["sajson"] = states["sajson"]
  PROVE  SajsonReads'
<1>1. SajsonFacts!FollowInv' /\ SajsonFacts!RootFirst'
  BY SajsonParserRests
<1>2. \A s, W, a, q : SajsonFacts!WalkReads(s, W, a, q)
                        => SajsonFacts!WalkReads(s, W, a, q)'
  BY DEF SajsonFacts!WalkReads, SajsonFacts!ShownAt, SajsonFacts!Top, sajson_traverser
<1> QED
  BY <1>1, <1>2 DEF SajsonReads, sajson

LEMMA SajsonReadsNext ==
  ASSUME SajsonInv, TurnsFit, HeapInv, CallsFit, SajsonReads, Next
  PROVE  SajsonReads'
<1>1. CASE SajsonParses
  <2>1. SajsonFacts!Parser!Parse /\ Turn("sajson") /\ states' = states
    BY <1>1, SameSajson DEF SajsonParses
  <2>2. SajsonFacts!FollowInv' /\ SajsonFacts!RootFirst'
    BY <2>1, SajsonFacts!FollowKeeps, SajsonFacts!RootKeeps DEF SajsonInv, SajsonReads
  <2>3. states'["sajson"] # "ok"
    BY <2>1, AtTurn
  <2> QED
    BY <2>2, <2>3 DEF SajsonReads
<1>2. CASE SajsonAccepts
  <2>1. /\ sa_label = "accepted" /\ SajsonFacts!Construct /\ Turn("sajson")
        /\ UNCHANGED <<text, calls, sajson>>
    BY <1>2, SameSajsonWalk DEF SajsonAccepts, Return, all_parsers
  <2>2. PICK s, a, type : s = text /\ a = ast /\ type = current_structure_type
    OBVIOUS
  <2>3. PICK W : SajsonFacts!AstIs(s, W, a, current_structure_type)
    <3>1. Len(ast) \in Nat
      BY SajsonFacts!AstSize DEF SajsonInv
    <3> QED
      BY <2>1, <2>2, <3>1, SajsonFacts!AstRead DEF SajsonReads
  <2>4. SajsonFacts!WalkReads(s, W, a, SajsonFacts!FirstEvent(s))'
    BY <2>1, <2>3, SajsonFacts!ConstructShows
  <2>5. PICK q : q = FirstEvent(s)
    OBVIOUS
  <2>6. SajsonFacts!WalkReads(s, W, a, q)'
    BY <2>4, <2>5, SameSajsonText
  <2>7. q = EventAfter(s, 0) /\ calls = 0
    BY <2>1, <2>5, EventSteps DEF CallsFit, Turn
  <2>8. SajsonFacts!FollowInv' /\ SajsonFacts!RootFirst'
    BY <2>1, SajsonParserRests
  <2>9. /\ text' = text /\ calls' = calls /\ ast' = ast /\ sa_label' = sa_label
        /\ current_structure_type' = current_structure_type
    BY <2>1 DEF sajson
  <2> QED
    BY <2>1, <2>2, <2>3, <2>6, <2>7, <2>8, <2>9 DEF SajsonReads
<1>3. CASE Walk /\ states["sajson"] = "ok"
  <2>1. "sajson" \in Added
    BY <1>3 DEF TurnsFit, ParserName
  <2>2. /\ SajsonFacts!CallNext /\ calls' = calls + 1 /\ UNCHANGED <<text, sajson>>
    BY <1>3, <2>1, SameSajsonWalk DEF Walk, all_parsers
  <2>3. PICK s, W, a, q :
          /\ s = text /\ a = ast /\ q = EventAfter(text, calls)
          /\ SajsonFacts!AstIs(s, W, a, current_structure_type)
          /\ SajsonFacts!WalkReads(s, W, a, q)
    BY <1>3 DEF SajsonReads
  <2>4. PICK type : type = current_structure_type
    OBVIOUS
  <2>5. SajsonFacts!WalkReads(s, W, a, SajsonFacts!NextEvent(s, q))'
    BY <2>2, <2>3, <2>4, SajsonFacts!CallShows
  <2>6. PICK next : next = NextEvent(s, q)
    OBVIOUS
  <2>7. SajsonFacts!WalkReads(s, W, a, next)'
    BY <2>5, <2>6, SameSajsonText
  <2>8. next = EventAfter(s, calls + 1)
    BY <2>3, <2>6, EventSteps DEF CallsFit
  <2>9. SajsonFacts!FollowInv' /\ SajsonFacts!RootFirst'
    BY <2>2, SajsonParserRests
  <2>10. /\ text' = text /\ calls' = calls + 1 /\ ast' = ast /\ sa_label' = sa_label
         /\ current_structure_type' = current_structure_type
    BY <2>2 DEF sajson
  <2>11. sa_label = "accepted"
    BY <1>3 DEF SajsonReads
  <2> QED
    BY <2>3, <2>7, <2>8, <2>9, <2>10, <2>11 DEF SajsonReads
<1>4. CASE Walk /\ states["sajson"] # "ok"
  <2>1. UNCHANGED <<text, sajson, states>>
    BY <1>4 DEF Walk, all_parsers
  <2> QED
    BY <1>4, <2>1, SajsonParserRests DEF SajsonReads
<1>5. CASE SajsonRefuses
  <2>1. states'["sajson"] # "ok"
    BY <1>5 DEF SajsonRefuses, Return, TurnsFit, ParserName
  <2>2. UNCHANGED <<text, sajson>>
    BY <1>5 DEF SajsonRefuses, Return, all_parsers
  <2> QED
    BY <2>1, <2>2, SajsonParserRests DEF SajsonReads
<1>6. CASE SimdjsonParses \/ RapidjsonParses \/ DeleteTraversers \/ Over
  <2>1. UNCHANGED <<text, calls, states, sajson, sajson_traverser>>
    BY <1>6, TextRests
      DEF SimdjsonParses, RapidjsonParses, DeleteTraversers, Over, traversers,
          all_parsers, vars, common
  <2> QED
    BY <2>1, SajsonReadsRests
<1>7. CASE \/ SimdjsonAccepts \/ SimdjsonRefuses \/ NoMemory
           \/ RapidjsonAccepts \/ RapidjsonRefuses
  <2>1. UNCHANGED <<text, calls, sajson, sajson_traverser>>
    BY <1>7
      DEF SimdjsonAccepts, SimdjsonRefuses, NoMemory, RapidjsonAccepts,
          RapidjsonRefuses, Return, traversers, all_parsers
  <2>2. states'["sajson"] = states["sajson"]
    BY <1>7
      DEF SimdjsonAccepts, SimdjsonRefuses, NoMemory, RapidjsonAccepts,
          RapidjsonRefuses, Return, TurnsFit, ParserName
  <2> QED
    BY <2>1, <2>2, SajsonReadsRests
<1> QED
  BY <1>1, <1>2, <1>3, <1>4, <1>5, <1>6, <1>7 DEF Next

\* The machine is where the text is; and what the traverser walks is the text,
\* at the event whose turn it is. L[n] is the location of token n on the tape.
SimdjsonReads ==
  /\ SimdjsonFacts!TapeReadsInv
  /\ states["simdjson"] = "ok" =>
       /\ label = "succeeded"
       /\ \E s, L, q :
            /\ s = text /\ q = EventAfter(text, calls)
            /\ SimdjsonFacts!TapeIs(s, L)
            /\ SimdjsonFacts!WalkReads(s, L, q)

LEMMA SimdjsonTapeRests ==
  ASSUME UNCHANGED <<text, simdjson>>
  PROVE  /\ SimdjsonFacts!TapeReadsInv => SimdjsonFacts!TapeReadsInv'
         /\ \A s, L : SimdjsonFacts!TapeIs(s, L) => SimdjsonFacts!TapeIs(s, L)'
<1>1. SimdjsonFacts!TapeReadsInv => SimdjsonFacts!TapeReadsInv'
  <2>1. ASSUME NEW L
        PROVE  SimdjsonFacts!TapeReads(L) => SimdjsonFacts!TapeReads(L)'
    BY DEF SimdjsonFacts!TapeReads, SimdjsonFacts!Follows, SimdjsonFacts!Finished,
           SimdjsonFacts!Running, simdjson
  <2> QED
    BY <2>1 DEF SimdjsonFacts!TapeReadsInv
<1>2. \A s, L : SimdjsonFacts!TapeIs(s, L) => SimdjsonFacts!TapeIs(s, L)'
  BY DEF SimdjsonFacts!TapeIs, simdjson
<1> QED
  BY <1>1, <1>2

LEMMA SimdjsonReadsRests ==
  ASSUME SimdjsonReads, UNCHANGED <<text, calls, simdjson, simdjson_traverser>>,
         states'["simdjson"] = states["simdjson"]
  PROVE  SimdjsonReads'
<1>1. \A s, L, q : SimdjsonFacts!WalkReads(s, L, q) => SimdjsonFacts!WalkReads(s, L, q)'
  BY DEF SimdjsonFacts!WalkReads, SimdjsonFacts!Walker!Outside,
         SimdjsonFacts!Walker!Around, simdjson, simdjson_traverser
<1> QED
  BY <1>1, SimdjsonTapeRests DEF SimdjsonReads, simdjson

LEMMA SimdjsonReadsNext ==
  ASSUME HeapInv, SimdjsonInv, CallsFit, SimdjsonReads, Next
  PROVE  SimdjsonReads'
<1>1. CASE SimdjsonParses
  <2>1. SimdjsonFacts!Parse /\ Turn("simdjson") /\ states' = states
    BY <1>1, SameSimdjson DEF SimdjsonParses
  <2>2. SimdjsonFacts!TapeReadsInv'
    BY <2>1, SimdjsonAssumed, SimdjsonFacts!TapeReadsKeeps DEF HeapInv, SimdjsonReads
  <2>3. states'["simdjson"] # "ok"
    BY <2>1, AtTurn DEF HeapInv
  <2> QED
    BY <2>2, <2>3 DEF SimdjsonReads
<1>2. CASE SimdjsonAccepts
  <2>1. /\ label = "succeeded" /\ SimdjsonFacts!Walker!Construct /\ Turn("simdjson")
        /\ UNCHANGED <<text, calls, simdjson>>
    BY <1>2, SameSimdjsonWalk DEF SimdjsonAccepts, Return, all_parsers
  <2>2. PICK s : s = text
    OBVIOUS
  <2>3. Len(s) \in Nat
    <3>1. text \in Seq(Token)
      BY DocumentAssumption DEF HeapInv, SimdjsonFacts!IInv, SimdjsonFacts!TypeOK
    <3> QED
      BY <2>2, <3>1, LenProperties
  <2>4. PICK L : SimdjsonFacts!TapeIs(s, L)
    <3>1. PICK L : SimdjsonFacts!Placing(s, Len(s), L)
      BY <2>3, SimdjsonAssumed, SimdjsonFacts!PlacingExists
    <3>2. SimdjsonFacts!Finished(L)
      BY <2>1, <2>2, <3>1 DEF SimdjsonReads, SimdjsonFacts!TapeReadsInv,
        SimdjsonFacts!TapeReads
    <3>3. SimdjsonFacts!TapeIs(s, L)
      BY <2>2, <2>3, <3>1, <3>2 DEF SimdjsonFacts!Finished, SimdjsonFacts!TapeIs
    <3> QED
      BY <3>3
  <2>5. sj_type = "none"
    BY <2>1 DEF SimdjsonFacts!Walker!Construct
  <2>6. sj_stack = <<>> /\ iterator = SimdjsonFacts!Walker!AtRoot
    BY <2>5, SameSimdjsonWalk DEF SimdjsonInv, SimdjsonFacts!WalkInv
  <2>7. SimdjsonFacts!WalkReads(s, L, SimdjsonFacts!FirstEvent(s))'
    BY <2>1, <2>4, <2>6, SimdjsonAssumed, SimdjsonFacts!ConstructShows
  <2>8. PICK q : q = FirstEvent(s)
    OBVIOUS
  <2>9. SimdjsonFacts!WalkReads(s, L, q)'
    BY <2>7, <2>8, SameSimdjsonText
  <2>10. q = EventAfter(s, 0) /\ calls = 0
    BY <2>1, <2>8, EventSteps DEF CallsFit, Turn
  <2>11. SimdjsonFacts!TapeReadsInv' /\ SimdjsonFacts!TapeIs(s, L)'
    BY <2>1, <2>4, SimdjsonTapeRests DEF SimdjsonReads
  <2>12. text' = text /\ calls' = calls /\ label' = label
    BY <2>1 DEF simdjson
  <2> QED
    BY <2>1, <2>2, <2>9, <2>10, <2>11, <2>12 DEF SimdjsonReads
<1>3. CASE Walk /\ states["simdjson"] = "ok"
  <2>1. "simdjson" \in Added
    BY <1>3 DEF HeapInv, TurnsFit, ParserName
  <2>2. /\ SimdjsonFacts!Walker!CallNext /\ calls' = calls + 1
        /\ UNCHANGED <<text, simdjson>>
    BY <1>3, <2>1, SameSimdjsonWalk DEF Walk, all_parsers
  <2>3. PICK s, L, q :
          /\ s = text /\ q = EventAfter(text, calls)
          /\ SimdjsonFacts!TapeIs(s, L) /\ SimdjsonFacts!WalkReads(s, L, q)
    BY <1>3 DEF SimdjsonReads
  <2>4. SimdjsonFacts!WalkReads(s, L, SimdjsonFacts!NextEvent(s, q))'
    BY <2>2, <2>3, SimdjsonAssumed, SimdjsonFacts!CallShows
  <2>5. PICK next : next = NextEvent(s, q)
    OBVIOUS
  <2>6. SimdjsonFacts!WalkReads(s, L, next)'
    BY <2>4, <2>5, SameSimdjsonText
  <2>7. next = EventAfter(s, calls + 1)
    BY <2>3, <2>5, EventSteps DEF CallsFit
  <2>8. SimdjsonFacts!TapeReadsInv' /\ SimdjsonFacts!TapeIs(s, L)'
    BY <2>2, <2>3, SimdjsonTapeRests DEF SimdjsonReads
  <2>9. text' = text /\ calls' = calls + 1 /\ label' = label /\ label = "succeeded"
    BY <1>3, <2>2 DEF simdjson, SimdjsonReads
  <2> QED
    BY <2>3, <2>6, <2>7, <2>8, <2>9 DEF SimdjsonReads
<1>4. CASE Walk /\ states["simdjson"] # "ok"
  <2>1. UNCHANGED <<text, simdjson, states>>
    BY <1>4 DEF Walk, all_parsers
  <2> QED
    BY <1>4, <2>1, SimdjsonTapeRests DEF SimdjsonReads
<1>5. CASE SimdjsonRefuses \/ NoMemory
  <2>1. states'["simdjson"] # "ok"
    BY <1>5 DEF SimdjsonRefuses, NoMemory, Return, HeapInv, TurnsFit, ParserName
  <2>2. UNCHANGED <<text, simdjson>>
    BY <1>5 DEF SimdjsonRefuses, NoMemory, Return, all_parsers
  <2> QED
    BY <2>1, <2>2, SimdjsonTapeRests DEF SimdjsonReads
<1>6. CASE RapidjsonParses \/ SajsonParses \/ DeleteTraversers \/ Over
  <2>1. UNCHANGED <<text, calls, states, simdjson, simdjson_traverser>>
    BY <1>6, TextRests
      DEF RapidjsonParses, SajsonParses, DeleteTraversers, Over, traversers,
          all_parsers, vars, common
  <2> QED
    BY <2>1, SimdjsonReadsRests
<1>7. CASE RapidjsonAccepts \/ RapidjsonRefuses \/ SajsonAccepts \/ SajsonRefuses
  <2>1. UNCHANGED <<text, calls, simdjson, simdjson_traverser>>
    BY <1>7 DEF RapidjsonAccepts, RapidjsonRefuses, SajsonAccepts, SajsonRefuses,
                Return, traversers, all_parsers
  <2>2. states'["simdjson"] = states["simdjson"]
    BY <1>7 DEF RapidjsonAccepts, RapidjsonRefuses, SajsonAccepts, SajsonRefuses,
                Return, HeapInv, TurnsFit, ParserName
  <2> QED
    BY <2>1, <2>2, SimdjsonReadsRests
<1> QED
  BY <1>1, <1>2, <1>3, <1>4, <1>5, <1>6, <1>7 DEF Next

-----------------------------------------------------------------------------
(***************************************************************************)
(* What the traversers show.                                               *)
(***************************************************************************)

ReadsInv == CallsFit /\ SimdjsonReads /\ RapidjsonReads /\ SajsonReads

LEMMA ReadsBegin == Init => ReadsInv
<1> SUFFICES ASSUME Init
             PROVE  ReadsInv
  OBVIOUS
<1>1. CallsFit
  BY DEF Init, CallsFit
<1>2. Len(text) \in Nat
  <2>1. text \in Text
    BY DEF Init, Rapidjson!Init
  <2> QED
    BY <2>1, DocumentAssumption, LenProperties
<1>3. states["simdjson"] # "ok" /\ states["rapidjson"] # "ok" /\ states["sajson"] # "ok"
  BY DEF Init, ParserName
<1>4. RapidjsonReads
  BY <1>2, <1>3, SameReader, RapidjsonFacts!FollowStarts DEF RapidjsonReads, Init
<1>5. SajsonReads
  BY <1>2, <1>3, SameSajson, SajsonFacts!FollowStarts, SajsonFacts!RootStarts
     DEF SajsonReads, Init
<1>6. SimdjsonReads
  <2>1. label = "stage_1" /\ next_index = 0
    BY DEF Init, Simdjson!Init
  <2> QED
    BY <1>3, <2>1, SimdjsonAssumed, SimdjsonFacts!TapeReadsStarts DEF SimdjsonReads
<1> QED
  BY <1>1, <1>4, <1>5, <1>6 DEF ReadsInv

LEMMA CallsFitNext ==
  ASSUME TurnsFit, CallsFit, Next
  PROVE  CallsFit'
<1>1. turn \in Nat /\ Len(parsers) \in Nat
  BY LenProperties DEF TurnsFit
<1>2. CASE SimdjsonParses \/ RapidjsonParses \/ SajsonParses \/ Over
  <2>1. UNCHANGED <<parsers, turn, calls>>
    BY <1>2 DEF SimdjsonParses, RapidjsonParses, SajsonParses, Over, vars, common
  <2> QED
    BY <2>1 DEF CallsFit
<1>3. CASE \/ SimdjsonAccepts \/ SimdjsonRefuses \/ NoMemory
           \/ RapidjsonAccepts \/ RapidjsonRefuses
           \/ SajsonAccepts \/ SajsonRefuses
  <2>1. turn <= Len(parsers) /\ calls' = calls
    BY <1>3 DEF SimdjsonAccepts, SimdjsonRefuses, NoMemory, RapidjsonAccepts,
                RapidjsonRefuses, SajsonAccepts, SajsonRefuses, Return, Turn
  <2> QED
    BY <2>1 DEF CallsFit
<1>4. CASE Walk
  <2>1. turn = Len(parsers) + 1 /\ calls' = calls + 1 /\ UNCHANGED <<parsers, turn>>
    BY <1>4 DEF Walk, AllParsed
  <2> QED
    BY <1>1, <2>1 DEF CallsFit
<1>5. CASE DeleteTraversers
  <2>1. turn = Len(parsers) + 1 /\ turn' = turn + 1 /\ UNCHANGED <<parsers, calls>>
    BY <1>5 DEF DeleteTraversers, AllParsed
  <2> QED
    BY <1>1, <2>1 DEF CallsFit
<1> QED
  BY <1>2, <1>3, <1>4, <1>5 DEF Next

LEMMA ReadsInvariant == Spec => []ReadsInv
<1>1. /\ HeapInv /\ RapidjsonInv /\ SajsonInv /\ SimdjsonInv /\ ReadsInv /\ [Next]_vars
      => ReadsInv'
  <2> SUFFICES ASSUME HeapInv, RapidjsonInv, SajsonInv, SimdjsonInv, ReadsInv, [Next]_vars
               PROVE  ReadsInv'
    OBVIOUS
  <2>1. TurnsFit /\ CallsFit /\ SimdjsonReads /\ RapidjsonReads /\ SajsonReads
    BY DEF HeapInv, ReadsInv
  <2>2. CASE Next
    BY <2>1, <2>2, CallsFitNext, SimdjsonReadsNext, RapidjsonReadsNext, SajsonReadsNext
       DEF ReadsInv
  <2>3. CASE UNCHANGED vars
    <3>1. UNCHANGED <<parsers, turn, text, calls, states, simdjson, simdjson_traverser,
                      rapidjson, rapidjson_traverser, sajson, sajson_traverser>>
      BY <2>3 DEF vars, common, all_parsers, traversers
    <3>2. CallsFit'
      BY <2>1, <3>1 DEF CallsFit
    <3> QED
      BY <2>1, <3>1, <3>2, SimdjsonReadsRests, RapidjsonReadsRests, SajsonReadsRests
         DEF ReadsInv
  <2> QED
    BY <2>2, <2>3
<1> QED
  BY <1>1, ReadsBegin, HeapInvariant, RapidjsonInvariant, SajsonInvariant,
     SimdjsonInvariant, PTL DEF Spec

\* What is shown depends on the types only where a scalar is.
LEMMA SameTypesSameEvent ==
  ASSUME NEW s, NEW q, NEW types, NEW others,
         q # 0 /\ s[q] \in ScalarKind => types[s[q]] = others[s[q]]
  PROVE  EventAt(s, q, types) = EventAt(s, q, others)
BY DEF EventAt

LEMMA NumberTypes ==
  ASSUME NEW name \in ParserName, NEW kind \in ScalarKind
  PROVE  TypesOf(name)[kind] =
           CASE kind = "narrow" -> "integer"
             [] kind = "wide" -> IF name = "sajson" THEN "floating" ELSE "integer"
             [] kind = "huge" -> IF name = "simdjson" THEN "error" ELSE "floating"
             [] kind = "real" -> "floating"
             [] OTHER -> CommonType[kind]
<1>1. kind \in {"string", "true", "false", "null", "narrow", "wide", "huge", "real"}
  BY TokenNames
<1>2. SimdjsonTypes[kind] =
        CASE kind \in {"narrow", "wide"} -> "integer"
          [] kind = "real" -> "floating"
          [] kind = "huge" -> "error"
          [] OTHER -> CommonType[kind]
  BY DEF SimdjsonTypes
<1>3. /\ RapidjsonTypes[kind] = IF kind = "huge" THEN "floating" ELSE SimdjsonTypes[kind]
      /\ SajsonTypes[kind] = IF kind = "wide" THEN "floating" ELSE RapidjsonTypes[kind]
  BY <1>1 DEF RapidjsonTypes, SajsonTypes, SimdjsonTypes
<1> QED
  BY <1>1, <1>2, <1>3 DEF TypesOf, ParserName

\* What a traverser shows, as the instances that the proofs are about say it.
LEMMA SameRapidjsonShown == RapidjsonWalk!Shown = RapidjsonFacts!Shown
<1>1. RapidjsonWalk!Top = RapidjsonFacts!Top
  BY DEF RapidjsonWalk!Top, RapidjsonFacts!Top, RapidjsonWalk!Last, RapidjsonFacts!Last
<1>2. RapidjsonWalk!Element(RapidjsonWalk!Top) = RapidjsonFacts!Element(RapidjsonFacts!Top)
  BY <1>1 DEF RapidjsonWalk!Element, RapidjsonFacts!Element
<1>3. RapidjsonWalk!Getter = RapidjsonFacts!Getter
  BY <1>1, <1>2
     DEF RapidjsonWalk!Getter, RapidjsonFacts!Getter,
         RapidjsonWalk!Container, RapidjsonFacts!Container
<1> QED
  BY <1>3
     DEF RapidjsonWalk!Shown, RapidjsonFacts!Shown,
         RapidjsonWalk!Value, RapidjsonFacts!Value,
         RapidjsonWalk!WithGetter, RapidjsonFacts!WithGetter,
         RapidjsonWalk!NoPayload, RapidjsonFacts!NoPayload

LEMMA SameSajsonShown == SajsonWalk!Shown = SajsonFacts!Shown
<1>1. SajsonWalk!Top = SajsonFacts!Top
  BY DEF SajsonWalk!Top, SajsonFacts!Top, SajsonWalk!Last, SajsonFacts!Last
<1>2. SajsonWalk!Element(SajsonWalk!Top) = SajsonFacts!Element(SajsonFacts!Top)
  BY <1>1 DEF SajsonWalk!Element, SajsonFacts!Element,
              SajsonWalk!ElementOf, SajsonFacts!ElementOf
<1>3. SajsonWalk!Getter = SajsonFacts!Getter
  BY <1>1, <1>2
     DEF SajsonWalk!Getter, SajsonFacts!Getter, SajsonWalk!KeyOf, SajsonFacts!KeyOf
<1> QED
  BY <1>3
     DEF SajsonWalk!Shown, SajsonFacts!Shown,
         SajsonWalk!Value, SajsonFacts!Value,
         SajsonWalk!WithGetter, SajsonFacts!WithGetter,
         SajsonWalk!NoPayload, SajsonFacts!NoPayload

LEMMA SameSimdjsonShown == SimdjsonWalk!Shown = SimdjsonFacts!Walker!Shown
BY DEF SimdjsonWalk!Shown, SimdjsonFacts!Walker!Shown,
       SimdjsonWalk!At, SimdjsonFacts!Walker!At,
       SimdjsonWalk!WordAt, SimdjsonFacts!Walker!WordAt,
       SimdjsonWalk!Value, SimdjsonFacts!Walker!Value,
       SimdjsonWalk!WithGetter, SimdjsonFacts!Walker!WithGetter,
       SimdjsonWalk!NoPayload, SimdjsonFacts!Walker!NoPayload

\* The tables of the proofs are those of ParserLimits.
LEMMA SameTypes ==
  ASSUME NEW kind \in ScalarKind
  PROVE  /\ RapidjsonFacts!ShownAs[kind] = RapidjsonTypes[kind]
         /\ SajsonFacts!ShownAs[kind] = SajsonTypes[kind]
         /\ kind # "huge" => SimdjsonFacts!ShownAs[kind] = SimdjsonTypes[kind]
<1>1. kind \in {"string", "true", "false", "null", "narrow", "wide", "huge", "real"}
  BY TokenNames
<1>2. /\ RapidjsonTypes = TypesOf("rapidjson") /\ SajsonTypes = TypesOf("sajson")
      /\ SimdjsonTypes = TypesOf("simdjson")
  BY DEF TypesOf
<1>3. \A name \in ParserName :
        TypesOf(name)[kind] =
           CASE kind = "narrow" -> "integer"
             [] kind = "wide" -> IF name = "sajson" THEN "floating" ELSE "integer"
             [] kind = "huge" -> IF name = "simdjson" THEN "error" ELSE "floating"
             [] kind = "real" -> "floating"
             [] OTHER -> CommonType[kind]
  BY NumberTypes
<1>4. RapidjsonFacts!ShownAs[kind] = RapidjsonTypes[kind]
  <2>1. RapidjsonTypes[kind] =
          CASE kind \in {"narrow", "wide"} -> "integer"
            [] kind \in {"huge", "real"} -> "floating"
            [] OTHER -> CommonType[kind]
    BY <1>1, <1>2, <1>3 DEF ParserName
  <2>2. RapidjsonFacts!ShownAs[kind] =
          CASE kind \in {"narrow", "wide"} -> "integer"
            [] kind \in {"huge", "real"} -> "floating"
            [] OTHER -> CommonType[kind]
    BY <1>1 DEF RapidjsonFacts!ShownAs, RapidjsonFacts!ScalarKind,
      RapidjsonFacts!AtomKind, RapidjsonFacts!NumberKind, RapidjsonFacts!NumberType,
      RapidjsonFacts!CommonType, CommonType
  <2> QED
    BY <2>1, <2>2
<1>5. SajsonFacts!ShownAs[kind] = SajsonTypes[kind]
  <2>1. SajsonTypes[kind] =
          CASE kind = "narrow" -> "integer"
            [] kind \in {"wide", "huge", "real"} -> "floating"
            [] OTHER -> CommonType[kind]
    BY <1>1, <1>2, <1>3 DEF ParserName
  <2>2. SajsonFacts!ShownAs[kind] =
          CASE kind = "narrow" -> "integer"
            [] kind \in {"wide", "huge", "real"} -> "floating"
            [] OTHER -> CommonType[kind]
    BY <1>1 DEF SajsonFacts!ShownAs, SajsonFacts!ScalarKind,
      SajsonFacts!AtomKind, SajsonFacts!NumberKind, SajsonFacts!CommonType, CommonType
  <2> QED
    BY <2>1, <2>2
<1>6. ASSUME kind # "huge"
      PROVE  SimdjsonFacts!ShownAs[kind] = SimdjsonTypes[kind]
  <2>1. SimdjsonTypes[kind] =
          CASE kind \in {"narrow", "wide"} -> "integer"
            [] kind = "real" -> "floating"
            [] OTHER -> CommonType[kind]
    BY <1>1, <1>2, <1>3, <1>6 DEF ParserName
  <2>2. SimdjsonFacts!ShownAs[kind] =
          CASE kind \in {"narrow", "wide"} -> "integer"
            [] kind = "real" -> "floating"
            [] OTHER -> CommonType[kind]
    BY <1>1, <1>6 DEF SimdjsonFacts!ShownAs, CommonType
  <2> QED
    BY <2>1, <2>2
<1> QED
  BY <1>4, <1>5, <1>6

\* The event whose turn it is, as each traverser shows it.
Due == EventAfter(text, calls)

LEMMA RapidjsonShowsInTurn ==
  ASSUME RapidjsonReads, states["rapidjson"] = "ok"
  PROVE  /\ Due = 0 \/ Due \in 1 .. Len(text)
         /\ ShownBy("rapidjson") = EventAt(text, Due, RapidjsonTypes)
<1>1. PICK last, W :
        /\ RapidjsonFacts!DomIs(text, last, W, Head(values))
        /\ RapidjsonFacts!WalkReads(text, last, W, Due)
  BY DEF RapidjsonReads, Due
<1>2. Due = 0 \/ Due \in 1 .. Len(text)
  <2>1. Len(text) \in Nat /\ last \in 0 .. Len(text)
    BY <1>1 DEF RapidjsonFacts!DomIs
  <2>2. Due = 0 \/ Due \in 1 .. last
    BY <1>1 DEF RapidjsonFacts!WalkReads
  <2> QED
    BY <2>1, <2>2
<1>3. RapidjsonFacts!Shown = RapidjsonFacts!EventAt(text, Due, RapidjsonFacts!ShownAs)
  BY <1>1, RapidjsonFacts!EventIsShown
<1>4. RapidjsonFacts!Shown = EventAt(text, Due, RapidjsonFacts!ShownAs)
  BY <1>3, SameRapidjsonText
<1>5. EventAt(text, Due, RapidjsonFacts!ShownAs) = EventAt(text, Due, RapidjsonTypes)
  BY SameTypes, SameTypesSameEvent
<1> QED
  BY <1>2, <1>4, <1>5, SameRapidjsonShown DEF ShownBy

LEMMA SajsonShowsInTurn ==
  ASSUME SajsonReads, states["sajson"] = "ok"
  PROVE  /\ Due = 0 \/ Due \in 1 .. Len(text)
         /\ ShownBy("sajson") = EventAt(text, Due, SajsonTypes)
<1>1. PICK W :
        /\ SajsonFacts!AstIs(text, W, ast, current_structure_type)
        /\ SajsonFacts!WalkReads(text, W, ast, Due)
  BY DEF SajsonReads, Due
<1>2. Due = 0 \/ Due \in 1 .. Len(text)
  BY <1>1 DEF SajsonFacts!WalkReads
<1>3. SajsonFacts!Shown = SajsonFacts!EventAt(text, Due, SajsonFacts!ShownAs)
  BY <1>1, SajsonFacts!EventIsShown
<1>4. SajsonFacts!Shown = EventAt(text, Due, SajsonFacts!ShownAs)
  BY <1>3, SameSajsonText
<1>5. EventAt(text, Due, SajsonFacts!ShownAs) = EventAt(text, Due, SajsonTypes)
  BY SameTypes, SameTypesSameEvent
<1> QED
  BY <1>2, <1>4, <1>5, SameSajsonShown DEF ShownBy

\* A number that is too large for 64 bits is on no tape.
LEMMA SimdjsonShowsInTurn ==
  ASSUME SimdjsonReads, states["simdjson"] = "ok"
  PROVE  /\ Due = 0 \/ (Due \in 1 .. Len(text) /\ text[Due] # "huge")
         /\ ShownBy("simdjson") = EventAt(text, Due, SimdjsonTypes)
<1>1. PICK L :
        /\ SimdjsonFacts!TapeIs(text, L)
        /\ SimdjsonFacts!WalkReads(text, L, Due)
  BY DEF SimdjsonReads, Due
<1>2. Due = 0 \/ Due \in 1 .. Len(text)
  BY <1>1 DEF SimdjsonFacts!WalkReads
<1>3. \A q \in 1 .. Len(text) : text[q] \in SimdjsonFacts!ScalarKind => text[q] # "huge"
  BY <1>1 DEF SimdjsonFacts!TapeIs, SimdjsonFacts!Holds, SimdjsonFacts!HoldsToken
<1>4. \A q \in 1 .. Len(text) : text[q] # "huge"
  BY <1>3 DEF SimdjsonFacts!ScalarKind, SimdjsonFacts!NumberKind
<1>5. SimdjsonFacts!Walker!Shown =
        SimdjsonFacts!EventAt(text, Due, SimdjsonFacts!ShownAs)
  BY <1>1, SimdjsonAssumed, SimdjsonFacts!EventIsShown
<1>6. SimdjsonFacts!Walker!Shown = EventAt(text, Due, SimdjsonFacts!ShownAs)
  BY <1>5, SameSimdjsonText
<1>7. EventAt(text, Due, SimdjsonFacts!ShownAs) = EventAt(text, Due, SimdjsonTypes)
  BY <1>2, <1>4, SameTypes, SameTypesSameEvent
<1> QED
  BY <1>2, <1>4, <1>6, <1>7, SameSimdjsonShown DEF ShownBy

LEMMA EachShowsInTurn == ReadsInv => ShowsInTurn
<1> SUFFICES ASSUME ReadsInv, NEW name \in ParserName, states[name] = "ok"
             PROVE  ShownBy(name) = EventAt(text, Due, TypesOf(name))
  BY DEF ShowsInTurn, Due
<1>1. /\ TypesOf("simdjson") = SimdjsonTypes /\ TypesOf("rapidjson") = RapidjsonTypes
      /\ TypesOf("sajson") = SajsonTypes
  BY DEF TypesOf
<1>2. SimdjsonReads /\ RapidjsonReads /\ SajsonReads
  BY DEF ReadsInv
<1>3. CASE name = "simdjson"
  BY <1>1, <1>2, <1>3, SimdjsonShowsInTurn
<1>4. CASE name = "rapidjson"
  BY <1>1, <1>2, <1>4, RapidjsonShowsInTurn
<1>5. CASE name = "sajson"
  BY <1>1, <1>2, <1>5, SajsonShowsInTurn
<1> QED
  BY <1>3, <1>4, <1>5 DEF ParserName

LEMMA DueInText ==
  ASSUME ReadsInv, NEW name \in ParserName, states[name] = "ok"
  PROVE  /\ Due = 0 \/ Due \in 1 .. Len(text)
         /\ name = "simdjson" /\ Due # 0 => text[Due] # "huge"
<1>1. SimdjsonReads /\ RapidjsonReads /\ SajsonReads
  BY DEF ReadsInv
<1>2. CASE name = "simdjson"
  BY <1>1, <1>2, SimdjsonShowsInTurn
<1>3. CASE name = "rapidjson"
  BY <1>1, <1>3, RapidjsonShowsInTurn
<1>4. CASE name = "sajson"
  BY <1>1, <1>4, SajsonShowsInTurn
<1> QED
  BY <1>2, <1>3, <1>4 DEF ParserName

\* Every traverser of a text that was accepted shows, after any number of calls
\* of next(), the event of the text whose turn it is, in the types its parser
\* stores numbers in, or the end of the document from then on (compare_parsing
\* calls next() on all of them in step).
THEOREM ShowsInTurnAlways == Spec => []ShowsInTurn
BY ReadsInvariant, EachShowsInTurn, PTL

-----------------------------------------------------------------------------
(***************************************************************************)
(* No false difference.                                                    *)
(***************************************************************************)

\* Two tables of types that agree but for the wide integers, and on huge
\* numbers where there are some.
LEMMA EventsDiffer ==
  ASSUME NEW s, NEW q, NEW a \in ParserName, NEW b \in ParserName,
         q # 0 /\ s[q] = "huge" => a # "simdjson" /\ b # "simdjson"
  PROVE  LET one == EventAt(s, q, TypesOf(a))
             other == EventAt(s, q, TypesOf(b))
         IN  /\ one.payload = other.payload
             /\ \/ one.type = other.type
                \/ /\ {one.type, other.type} = {"integer", "floating"}
                   /\ "sajson" \in {a, b}
                   /\ q # 0 /\ s[q] = "wide" /\ one.payload = Payload("wide", q)
<1>1. CASE q # 0 /\ s[q] \in ScalarKind /\ Run(s)[q].expects # "colon"
           /\ s[q] = "wide"
  <2>1. \A name \in ParserName :
          TypesOf(name)["wide"] = IF name = "sajson" THEN "floating" ELSE "integer"
    BY <1>1, NumberTypes
  <2>2. \A name \in ParserName :
          EventAt(s, q, TypesOf(name)) = Value(TypesOf(name)["wide"], Payload("wide", q))
    BY <1>1, TokenNames DEF EventAt, Closing
  <2>3. \A type, payload :
          Value(type, payload).type = type /\ Value(type, payload).payload = payload
    BY DEF Value
  <2>4. /\ EventAt(s, q, TypesOf(a)).payload = Payload("wide", q)
        /\ EventAt(s, q, TypesOf(b)).payload = Payload("wide", q)
        /\ EventAt(s, q, TypesOf(a)).type = TypesOf(a)["wide"]
        /\ EventAt(s, q, TypesOf(b)).type = TypesOf(b)["wide"]
    BY <2>2, <2>3
  <2> HIDE DEF Value, Payload
  <2>5. TypesOf(a)["wide"] = TypesOf(b)["wide"]
        \/ /\ {TypesOf(a)["wide"], TypesOf(b)["wide"]} = {"integer", "floating"}
           /\ "sajson" \in {a, b}
    BY <2>1
  <2> QED
    BY <1>1, <2>4, <2>5
<1>2. CASE q # 0 /\ s[q] \in ScalarKind => s[q] # "wide"
  <2>1. ASSUME q # 0, s[q] \in ScalarKind
        PROVE  TypesOf(a)[s[q]] = TypesOf(b)[s[q]]
    BY <1>2, <2>1, NumberTypes
  <2>2. EventAt(s, q, TypesOf(a)) = EventAt(s, q, TypesOf(b))
    BY <2>1, SameTypesSameEvent
  <2> QED
    BY <2>2
<1>3. CASE q # 0 /\ s[q] \in ScalarKind /\ Run(s)[q].expects = "colon"
  <2>1. EventAt(s, q, TypesOf(a)) = EventAt(s, q, TypesOf(b))
    BY <1>3 DEF EventAt
  <2> QED
    BY <2>1
<1> QED
  BY <1>1, <1>2, <1>3

LEMMA NoFalseDifference == HeapInv /\ ReadsInv => OnlyWideIntegersDiffer
<1> SUFFICES ASSUME HeapInv, ReadsInv, AllParsed, AllAccept,
                    NEW a \in Added, NEW b \in Added
             PROVE  /\ ShownBy(a).payload = ShownBy(b).payload
                    /\ \/ ShownBy(a).type = ShownBy(b).type
                       \/ /\ {ShownBy(a).type, ShownBy(b).type} = {"integer", "floating"}
                          /\ "sajson" \in {a, b}
                          /\ \E n \in DOMAIN text :
                               text[n] = "wide" /\ Payload("wide", n) = ShownBy(a).payload
  BY DEF OnlyWideIntegersDiffer
<1>1. a \in ParserName /\ b \in ParserName
  <2>1. parsers \in Seq(ParserName)
    BY DEF HeapInv, TurnsFit
  <2> QED
    BY <2>1 DEF Added, ToSet
<1>2. states[a] = "ok" /\ states[b] = "ok"
  BY DEF AllAccept
<1>3. /\ ShownBy(a) = EventAt(text, Due, TypesOf(a))
      /\ ShownBy(b) = EventAt(text, Due, TypesOf(b))
  BY <1>1, <1>2, EachShowsInTurn DEF ShowsInTurn, Due
<1>4. /\ Due = 0 \/ Due \in 1 .. Len(text)
      /\ Due # 0 /\ text[Due] = "huge" => a # "simdjson" /\ b # "simdjson"
  BY <1>1, <1>2, DueInText
<1>5. Due # 0 => Due \in DOMAIN text
  <2>1. text \in Text
    BY DEF HeapInv, SimdjsonFacts!IInv, SimdjsonFacts!TypeOK
  <2>2. text \in Seq(Token)
    BY <2>1, DocumentAssumption
  <2> QED
    BY <1>4, <2>2
<1>6. LET one == EventAt(text, Due, TypesOf(a))
          other == EventAt(text, Due, TypesOf(b))
      IN  /\ one.payload = other.payload
          /\ \/ one.type = other.type
             \/ /\ {one.type, other.type} = {"integer", "floating"}
                /\ "sajson" \in {a, b}
                /\ Due # 0 /\ text[Due] = "wide" /\ one.payload = Payload("wide", Due)
  BY <1>1, <1>4, EventsDiffer
<1> QED
  BY <1>3, <1>5, <1>6

\* The traversers of a text that all parsers of a session accept show the same
\* at every call of next(), but for an integer beyond 32 bits, which sajson has
\* as a floating: compare_parsing reports no other difference of the parsers.
THEOREM OnlyWideIntegersDifferAlways == Spec => []OnlyWideIntegersDiffer
BY HeapInvariant, ReadsInvariant, NoFalseDifference, PTL

-----------------------------------------------------------------------------
(***************************************************************************)
(* What the parsers say.                                                   *)
(***************************************************************************)

LEMMA SameWhole ==
  ASSUME NEW st
  PROVE  /\ RapidjsonFacts!IsWhole(st) <=> IsWhole(st)
         /\ SajsonFacts!IsWhole(st) <=> IsWhole(st)
         /\ SimdjsonFacts!IsWhole(st) <=> IsWhole(st)
BY DEF IsWhole, RapidjsonFacts!IsWhole, SajsonFacts!IsWhole, SimdjsonFacts!IsWhole

LEMMA SameTaken ==
  /\ TakenBy("simdjson") <=> SimdjsonFacts!IsTaken(text)
  /\ TakenBy("rapidjson") <=> \E n : RapidjsonFacts!IsTaken(text, n)
  /\ Len(text) \in Nat => (TakenBy("sajson") <=> SajsonFacts!IsTaken(text))
<1>1. TakenBy("simdjson") <=> SimdjsonFacts!IsTaken(text)
  BY SameWhole, SameSimdjsonText
     DEF TakenBy, SimdjsonFacts!IsTaken, SimdjsonFacts!Shallow
<1>2. TakenBy("rapidjson") <=> \E n : RapidjsonFacts!IsTaken(text, n)
  BY SameWhole, SameRapidjsonText DEF TakenBy, RapidjsonFacts!IsTaken
<1>3. ASSUME Len(text) \in Nat
      PROVE  TakenBy("sajson") <=> SajsonFacts!IsTaken(text)
  <2>1. PICK s : s = text
    OBVIOUS
  <2>2. TakenBy("sajson") <=> IsWhole(Run(s)[Len(s)]) /\ s[1] \in Opening
    BY <2>1 DEF TakenBy
  <2>3. SajsonFacts!IsTaken(s) <=>
          s[1] \in Opening /\ Len(s) # 0 /\ IsWhole(Run(s)[Len(s)])
    BY SameWhole, SameSajsonText DEF SajsonFacts!IsTaken, SajsonFacts!Opening, Opening
  <2>4. Len(s) = 0 => ~IsWhole(Run(s)[Len(s)])
    <3>1. Run(s)[0] = Outset
      BY <1>3, <2>1, RunSteps
    <3> QED
      BY <3>1 DEF IsWhole, Outset
  <2> QED
    BY <2>1, <2>2, <2>3, <2>4
<1> QED
  BY <1>1, <1>2, <1>3

\* Each parser, where it stands, knows what its text is.
VerdictsInv ==
  /\ SimdjsonFacts!DepthInv /\ SimdjsonFacts!VerdictInv
  /\ RapidjsonFacts!VerdictInv
  /\ SajsonFacts!VerdictInv

LEMMA VerdictsBegin == Init => VerdictsInv
<1> SUFFICES ASSUME Init
             PROVE  VerdictsInv
  OBVIOUS
<1>1. RapidjsonFacts!VerdictInv
  BY SameReader, RapidjsonFacts!VerdictStarts DEF Init
<1>2. SajsonFacts!VerdictInv
  BY SameSajson, SajsonFacts!VerdictStarts DEF Init
<1>3. SimdjsonFacts!VerdictInv
  <2>1. label = "stage_1"
    BY DEF Init, Simdjson!Init
  <2> QED
    BY <2>1, SimdjsonAssumed, SimdjsonFacts!VerdictStarts
<1>4. SimdjsonFacts!DepthInv
  <2>1. scopes = <<>> /\ label = "stage_1"
    BY DEF Init, Simdjson!Init
  <2>2. Len(scopes) = 0 /\ DepthCapacity \in Nat
    BY <2>1, DocumentAssumption, EmptySeq
  <2> QED
    BY <2>1, <2>2 DEF SimdjsonFacts!DepthInv, SimdjsonFacts!Running, SimdjsonFacts!Verdict
<1> QED
  BY <1>1, <1>2, <1>3, <1>4 DEF VerdictsInv

LEMMA SimdjsonVerdictRests ==
  ASSUME UNCHANGED <<text, simdjson>>,
         SimdjsonFacts!DepthInv, SimdjsonFacts!VerdictInv
  PROVE  SimdjsonFacts!DepthInv' /\ SimdjsonFacts!VerdictInv'
BY DEF SimdjsonFacts!DepthInv, SimdjsonFacts!VerdictInv, SimdjsonFacts!Running, simdjson

LEMMA RapidjsonVerdictRests ==
  ASSUME UNCHANGED <<text, rapidjson>>, RapidjsonFacts!VerdictInv
  PROVE  RapidjsonFacts!VerdictInv'
BY DEF RapidjsonFacts!VerdictInv, RapidjsonFacts!Reader!Peek,
       RapidjsonFacts!Reader!TokenAt, rapidjson

LEMMA SajsonVerdictRests ==
  ASSUME UNCHANGED <<text, sajson>>, SajsonFacts!VerdictInv
  PROVE  SajsonFacts!VerdictInv'
BY DEF SajsonFacts!VerdictInv, sajson

LEMMA VerdictsNext ==
  ASSUME HeapInv, HeapInv', RapidjsonInv, SajsonInv, ReadsInv, ReadsInv',
         VerdictsInv, Next
  PROVE  VerdictsInv'
<1>1. text' = text
  BY TextRests
<1>2. /\ SimdjsonFacts!DepthInv /\ SimdjsonFacts!VerdictInv
      /\ RapidjsonFacts!VerdictInv /\ SajsonFacts!VerdictInv
  BY DEF VerdictsInv
<1>3. CASE SimdjsonParses
  <2>1. SimdjsonFacts!Parse /\ UNCHANGED <<rapidjson, sajson>>
    BY <1>3, SameSimdjson DEF SimdjsonParses
  <2>2. SimdjsonFacts!IInv /\ SimdjsonFacts!IInv'
    BY DEF HeapInv
  <2>3. SimdjsonFacts!TapeReadsInv /\ SimdjsonFacts!TapeReadsInv'
    BY DEF ReadsInv, SimdjsonReads
  <2>4. SimdjsonFacts!DepthInv'
    BY <1>2, <2>1, <2>2, SimdjsonAssumed, SimdjsonFacts!DepthStep DEF SimdjsonFacts!Next
  <2>5. SimdjsonFacts!VerdictInv'
    BY <1>2, <2>1, <2>2, <2>3, <2>4, SimdjsonAssumed, SimdjsonFacts!VerdictKeeps
  <2> QED
    BY <1>1, <1>2, <2>1, <2>4, <2>5, RapidjsonVerdictRests, SajsonVerdictRests
       DEF VerdictsInv
<1>4. CASE RapidjsonParses
  <2>1. RapidjsonFacts!Reader!Parse /\ UNCHANGED <<simdjson, sajson>>
    BY <1>4, SameReader DEF RapidjsonParses
  <2>2. RapidjsonFacts!VerdictInv'
    BY <1>2, <2>1, RapidjsonFacts!VerdictKeeps DEF RapidjsonInv, ReadsInv, RapidjsonReads
  <2> QED
    BY <1>1, <1>2, <2>1, <2>2, SimdjsonVerdictRests, SajsonVerdictRests DEF VerdictsInv
<1>5. CASE SajsonParses
  <2>1. SajsonFacts!Parser!Parse /\ UNCHANGED <<simdjson, rapidjson>>
    BY <1>5, SameSajson DEF SajsonParses
  <2>2. SajsonFacts!VerdictInv'
    BY <1>2, <2>1, SajsonFacts!VerdictKeeps DEF SajsonInv, ReadsInv, SajsonReads
  <2> QED
    BY <1>1, <1>2, <2>1, <2>2, SimdjsonVerdictRests, RapidjsonVerdictRests DEF VerdictsInv
<1>6. CASE UNCHANGED <<simdjson, rapidjson, sajson>>
  BY <1>1, <1>2, <1>6, SimdjsonVerdictRests, RapidjsonVerdictRests, SajsonVerdictRests
     DEF VerdictsInv
<1>7. CASE \/ SimdjsonAccepts \/ SimdjsonRefuses \/ NoMemory
           \/ RapidjsonAccepts \/ RapidjsonRefuses
           \/ SajsonAccepts \/ SajsonRefuses
           \/ Walk \/ DeleteTraversers \/ Over
  <2>1. UNCHANGED <<simdjson, rapidjson, sajson>>
    BY <1>7 DEF SimdjsonAccepts, SimdjsonRefuses, NoMemory, RapidjsonAccepts,
                RapidjsonRefuses, SajsonAccepts, SajsonRefuses, Return,
                Walk, DeleteTraversers, Over, vars, all_parsers
  <2> QED
    BY <1>6, <2>1
<1> QED
  BY <1>3, <1>4, <1>5, <1>7 DEF Next

LEMMA VerdictsInvariant == Spec => []VerdictsInv
<1>1. /\ HeapInv /\ HeapInv' /\ RapidjsonInv /\ SajsonInv /\ ReadsInv /\ ReadsInv'
      /\ VerdictsInv /\ [Next]_vars
      => VerdictsInv'
  <2> SUFFICES ASSUME HeapInv, HeapInv', RapidjsonInv, SajsonInv, ReadsInv, ReadsInv',
                      VerdictsInv, [Next]_vars
               PROVE  VerdictsInv'
    OBVIOUS
  <2>1. CASE Next
    BY <2>1, VerdictsNext
  <2>2. CASE UNCHANGED vars
    <3>1. UNCHANGED <<text, simdjson, rapidjson, sajson>>
      BY <2>2 DEF vars, all_parsers
    <3> QED
      BY <3>1, SimdjsonVerdictRests, RapidjsonVerdictRests, SajsonVerdictRests
         DEF VerdictsInv
  <2> QED
    BY <2>1, <2>2
<1> QED
  BY <1>1, VerdictsBegin, HeapInvariant, RapidjsonInvariant, SajsonInvariant,
     ReadsInvariant, PTL DEF Spec

\* A parser that returns has come to an end.
LEMMA VerdictGiven ==
  ASSUME HeapInv, VerdictsInv, Next, NEW name \in ParserName,
         states'[name] # states[name], states'[name] # "no memory"
  PROVE  states'[name] = "ok" <=> TakenBy(name)
<1>1. Len(text) \in Nat
  <2>1. text \in Seq(Token)
    BY DocumentAssumption DEF HeapInv, SimdjsonFacts!IInv, SimdjsonFacts!TypeOK
  <2> QED
    BY <2>1, LenProperties
<1>2. states \in [ParserName -> Said]
  BY DEF HeapInv, TurnsFit
<1>3. \A other, verdict : states' = [states EXCEPT ![other] = verdict] =>
                          name = other /\ states'[name] = verdict
  BY <1>2
<1>4. CASE SimdjsonAccepts
  <2>1. name = "simdjson" /\ states'[name] = "ok" /\ label = "succeeded"
    BY <1>3, <1>4 DEF SimdjsonAccepts, Return
  <2> QED
    BY <2>1, SameTaken DEF VerdictsInv, SimdjsonFacts!VerdictInv
<1>5. CASE SimdjsonRefuses
  <2>1. name = "simdjson" /\ states'[name] = "error" /\ label = "failed"
    BY <1>3, <1>5 DEF SimdjsonRefuses, Return
  <2> QED
    BY <2>1, SameTaken DEF VerdictsInv, SimdjsonFacts!VerdictInv
<1>6. CASE RapidjsonAccepts
  <2>1. name = "rapidjson" /\ states'[name] = "ok" /\ state = "accepted"
    BY <1>3, <1>6 DEF RapidjsonAccepts, Return
  <2> QED
    BY <2>1, SameTaken DEF VerdictsInv, RapidjsonFacts!VerdictInv
<1>7. CASE RapidjsonRefuses
  <2>1. name = "rapidjson" /\ states'[name] = "error" /\ state = "rejected"
    BY <1>3, <1>7 DEF RapidjsonRefuses, Return
  <2> QED
    BY <2>1, SameTaken DEF VerdictsInv, RapidjsonFacts!VerdictInv
<1>8. CASE SajsonAccepts
  <2>1. name = "sajson" /\ states'[name] = "ok" /\ sa_label = "accepted"
    BY <1>3, <1>8 DEF SajsonAccepts, Return
  <2> QED
    BY <1>1, <2>1, SameTaken DEF VerdictsInv, SajsonFacts!VerdictInv
<1>9. CASE SajsonRefuses
  <2>1. name = "sajson" /\ states'[name] = "error" /\ sa_label = "rejected"
    BY <1>3, <1>9 DEF SajsonRefuses, Return
  <2> QED
    BY <1>1, <2>1, SameTaken DEF VerdictsInv, SajsonFacts!VerdictInv
<1>10. CASE NoMemory
  BY <1>3, <1>10 DEF NoMemory, Return
<1>11. CASE \/ SimdjsonParses \/ RapidjsonParses \/ SajsonParses
            \/ Walk \/ DeleteTraversers \/ Over
  <2>1. states' = states
    BY <1>11 DEF SimdjsonParses, RapidjsonParses, SajsonParses, Walk,
                 DeleteTraversers, Over, vars, common
  <2> QED
    BY <2>1
<1> QED
  BY <1>4, <1>5, <1>6, <1>7, <1>8, <1>9, <1>10, <1>11 DEF Next

\* Of any text, each parser says what reading it token by token comes to. So it
\* is decided by the text alone on which texts the parsers say different things,
\* which compare_parsing reports; nothing else, like what was open or stacked
\* when a parser gave up, plays a part.
THEOREM VerdictsFollowTextAlways == Spec => VerdictsFollowText
<1>1. HeapInv /\ VerdictsInv /\ [Next]_vars =>
        [\A name \in ParserName :
           states'[name] # states[name] /\ states'[name] # "no memory" =>
             (states'[name] = "ok" <=> TakenBy(name))]_vars
  BY VerdictGiven
<1> QED
  BY <1>1, HeapInvariant, VerdictsInvariant, PTL DEF Spec, VerdictsFollowText
=============================================================================
