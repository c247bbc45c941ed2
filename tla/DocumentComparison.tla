------------------------ MODULE DocumentComparison ------------------------
(***************************************************************************)
(* compare_parsing (include/fuzzyjson.h) with the parsers and traversers   *)
(* themselves, where FuzzyJson has what they may say of a document as a    *)
(* constant: each parser of the session parses the text, and if all accept *)
(* it, next() is called on all traversers in step. Also what the parsers   *)
(* leave on the heap.                                                      *)
(***************************************************************************)
EXTENDS Integers, Sequences, SequencesExt, ParserLimits, TextEvents

ParserName == {"simdjson", "rapidjson", "sajson"}

CONSTANTS
  Text,           \* the texts that may be parsed
  Session,        \* sequences of parsers: those a session may add, in order
  DepthCapacity,  \* see SimdjsonParser
  OutOfMemory,    \* texts that there may be no memory to parse
  MaxCalls        \* MaxCalls[t]: bound on the calls of next()

\* A session has a parser once: the variables are those of one parser each.
ASSUME DocumentAssumption ==
  /\ Text \subseteq Seq(Token)
  /\ \A session \in Session :
       /\ session \in Seq(ParserName)
       /\ \A m, n \in DOMAIN session : session[m] = session[n] => m = n
  /\ OutOfMemory \subseteq Text
  /\ DepthCapacity \in Nat /\ DepthCapacity > 2
  /\ MaxCalls \in [Text -> Nat]

VARIABLES
  parsers,   \* the parsers of this session
  turn,      \* number of the parser at work; beyond the last, all have parsed
  text,
  states,    \* per parser: what it said of the text
  heap,      \* what is allocated
  calls,     \* history: number of calls of next()
  \* simdjson and its traverser
  label, next_index, tape, scopes,
  sj_type, sj_stack, iterator,
  \* rapidjson and its traverser
  state, at, frames, values,
  rj_type, rj_stack,
  \* sajson and its traverser
  sa_label, p, stack, ast, current_base, current_structure_type,
  sa_type, sa_stack

common == <<parsers, turn, states, heap, calls>>
simdjson == <<label, next_index, tape, scopes>>
simdjson_traverser == <<sj_type, sj_stack, iterator>>
rapidjson == <<state, at, frames, values>>
rapidjson_traverser == <<rj_type, rj_stack>>
sajson == <<sa_label, p, stack, ast, current_base, current_structure_type>>
sajson_traverser == <<sa_type, sa_stack>>
all_parsers == <<simdjson, rapidjson, sajson>>
traversers == <<simdjson_traverser, rapidjson_traverser, sajson_traverser>>
vars == <<common, text, all_parsers, traversers>>

Simdjson == INSTANCE SimdjsonParser
SimdjsonWalk == INSTANCE SimdjsonTraverser
  WITH Tape <- {}, parsed_json <- tape,
       current_type <- sj_type, container_stack <- sj_stack

Rapidjson == INSTANCE RapidjsonReader
RapidjsonWalk == INSTANCE RapidjsonTraverser
  WITH Document <- {}, document <- Head(values),
       current_type <- rj_type, container_stack <- rj_stack

Sajson == INSTANCE SajsonParser WITH label <- sa_label
SajsonWalk == INSTANCE SajsonTraverser
  WITH Ast <- {}, root_type <- current_structure_type,
       current_type <- sa_type, container_stack <- sa_stack

Init ==
  /\ parsers \in Session
  /\ turn = 1
  /\ states = [name \in ParserName |-> "none"]
  /\ heap = {}
  /\ calls = 0
  /\ Simdjson!Init /\ Rapidjson!Init /\ Sajson!Init
  /\ sj_type = "none" /\ sj_stack = <<>> /\ iterator = SimdjsonWalk!AtRoot
  /\ rj_type = "none" /\ rj_stack = <<>>
  /\ sa_type = "none" /\ sa_stack = <<>>

-----------------------------------------------------------------------------
(***************************************************************************)
(* Parser::parse                                                           *)
(***************************************************************************)

Turn(name) == turn <= Len(parsers) /\ parsers[turn] = name

\* parse() returns a traverser that is ok, or an InvalidTraverser.
Return(name, verdict) ==
  /\ states' = [states EXCEPT ![name] = verdict]
  /\ turn' = turn + 1
  /\ UNCHANGED <<parsers, text, calls, all_parsers>>

\* The machine of simdjson works on a copy of the text, which is given back
\* after stage 2, and only then. ParsedJson is new for each text.
Stage2Returns == Simdjson!Stage1Accepts /\ label' \in {"succeeded", "failed"}
Allocated ==
  LET new == IF label = "stage_1" THEN {"ParsedJson", "padded copy"} ELSE {}
  IN  (heap \cup new) \ (IF Stage2Returns THEN {"padded copy"} ELSE {})

SimdjsonParses ==
  /\ Turn("simdjson")
  /\ Simdjson!Parse
  /\ heap' = Allocated
  /\ UNCHANGED <<parsers, turn, states, calls, rapidjson, sajson, traversers>>

SimdjsonAccepts ==
  /\ Turn("simdjson")
  /\ label = "succeeded"
  /\ SimdjsonWalk!Construct
  /\ Return("simdjson", "ok")
  /\ UNCHANGED <<heap, rapidjson_traverser, sajson_traverser>>

SimdjsonRefuses ==
  /\ Turn("simdjson")
  /\ label = "failed"
  /\ Return("simdjson", "error")
  /\ UNCHANGED <<heap, traversers>>

\* allocate_capacity fails.
NoMemory ==
  /\ Turn("simdjson")
  /\ label = "stage_1"
  /\ text \in OutOfMemory
  /\ heap' = heap \cup {"ParsedJson"}
  /\ Return("simdjson", "no memory")
  /\ UNCHANGED traversers

RapidjsonParses ==
  /\ Turn("rapidjson")
  /\ Rapidjson!Parse
  /\ UNCHANGED <<common, simdjson, sajson, traversers>>

RapidjsonAccepts ==
  /\ Turn("rapidjson")
  /\ state = "accepted"
  /\ RapidjsonWalk!Construct
  /\ heap' = heap \cup {"rapidjson document"}
  /\ Return("rapidjson", "ok")
  /\ UNCHANGED <<simdjson_traverser, sajson_traverser>>

RapidjsonRefuses ==
  /\ Turn("rapidjson")
  /\ state = "rejected"
  /\ Return("rapidjson", "error")
  /\ UNCHANGED <<heap, traversers>>

\* sajson changes the text it parses, so that it gets a copy.
SajsonParses ==
  /\ Turn("sajson")
  /\ Sajson!Parse
  /\ heap' = heap \cup {"sajson buffer"}
  /\ UNCHANGED <<parsers, turn, states, calls, simdjson, rapidjson, traversers>>

SajsonAccepts ==
  /\ Turn("sajson")
  /\ sa_label = "accepted"
  /\ SajsonWalk!Construct
  /\ heap' = heap \cup {"sajson document"}
  /\ Return("sajson", "ok")
  /\ UNCHANGED <<simdjson_traverser, rapidjson_traverser>>

SajsonRefuses ==
  /\ Turn("sajson")
  /\ sa_label = "rejected"
  /\ heap' = heap \ {"sajson buffer"}
  /\ Return("sajson", "error")
  /\ UNCHANGED traversers

-----------------------------------------------------------------------------
(***************************************************************************)
(* The traversers are walked if all parsers accept the text, and deleted   *)
(* in the end with what they own.                                          *)
(***************************************************************************)

Added == ToSet(parsers)
AllParsed == turn = Len(parsers) + 1
AllAccept == \A name \in Added : states[name] = "ok"

Walk ==
  /\ AllParsed /\ AllAccept
  /\ calls < MaxCalls[text]
  /\ calls' = calls + 1
  /\ IF "simdjson" \in Added THEN SimdjsonWalk!CallNext
                             ELSE UNCHANGED simdjson_traverser
  /\ IF "rapidjson" \in Added THEN RapidjsonWalk!CallNext
                              ELSE UNCHANGED rapidjson_traverser
  /\ IF "sajson" \in Added THEN SajsonWalk!CallNext
                           ELSE UNCHANGED sajson_traverser
  /\ UNCHANGED <<parsers, turn, text, states, heap, all_parsers>>

Owned(name) ==
  CASE name = "simdjson" -> {"ParsedJson"}
    [] name = "rapidjson" -> {"rapidjson document"}
    [] name = "sajson" -> {"sajson buffer", "sajson document"}
BufferForgotten(name) == Owned(name) \ {"ParsedJson"} \* mutant
Deleted(name) == Owned(name)

DeleteTraversers ==
  /\ AllParsed
  /\ AllAccept => calls = MaxCalls[text]
  /\ turn' = turn + 1
  /\ heap' = heap \ UNION {Deleted(name) : name \in {n \in Added : states[n] = "ok"}}
  /\ UNCHANGED <<parsers, text, states, calls, all_parsers, traversers>>

\* compare_parsing has returned, or the process is gone.
Over ==
  /\ turn = Len(parsers) + 2 \/ label \in {"died", "internal_bug"}
  /\ UNCHANGED vars

Next ==
  \/ SimdjsonParses \/ SimdjsonAccepts \/ SimdjsonRefuses \/ NoMemory
  \/ RapidjsonParses \/ RapidjsonAccepts \/ RapidjsonRefuses
  \/ SajsonParses \/ SajsonAccepts \/ SajsonRefuses
  \/ Walk \/ DeleteTraversers \/ Over

Spec == Init /\ [][Next]_vars

-----------------------------------------------------------------------------
(***************************************************************************)
(* Properties: what each parser accepts and shows.                         *)
(***************************************************************************)

\* Per parser: verdicts and events, see Traversal.
Expected == ExpectedOf(Text, DepthCapacity, OutOfMemory)

\* What a traverser shows, if there is one.
ShownBy(name) ==
  CASE states[name] # "ok" -> Value("none", NoPayload)
    [] states[name] = "ok" /\ name = "simdjson" -> SimdjsonWalk!Shown
    [] states[name] = "ok" /\ name = "rapidjson" -> RapidjsonWalk!Shown
    [] states[name] = "ok" /\ name = "sajson" -> SajsonWalk!Shown
CallsOf(name) == IF states[name] = "ok" THEN calls ELSE 0

SimdjsonContract == INSTANCE Traversal
  WITH Verdicts <- Expected.simdjson.verdicts, Events <- Expected.simdjson.events,
       verdict <- states.simdjson, calls <- CallsOf("simdjson"),
       shown <- ShownBy("simdjson")
RapidjsonContract == INSTANCE Traversal
  WITH Verdicts <- Expected.rapidjson.verdicts, Events <- Expected.rapidjson.events,
       verdict <- states.rapidjson, calls <- CallsOf("rapidjson"),
       shown <- ShownBy("rapidjson")
SajsonContract == INSTANCE Traversal
  WITH Verdicts <- Expected.sajson.verdicts, Events <- Expected.sajson.events,
       verdict <- states.sajson, calls <- CallsOf("sajson"),
       shown <- ShownBy("sajson")

\* simdjson accepts the JSON texts without a number out of range and not
\* nested too deep, and its traverser shows their events, in order, once.
SimdjsonShowsEvents == SimdjsonContract!Spec

\* rapidjson accepts the texts that are JSON between the first byte of a byte
\* order mark and a null byte, with numbers in the range of a double, and its
\* traverser shows their events, in order, once.
RapidjsonShowsEvents == RapidjsonContract!Spec

\* sajson accepts the JSON texts that are a container, and its traverser shows
\* their events, in order, once.
SajsonShowsEvents == SajsonContract!Spec

-----------------------------------------------------------------------------
(***************************************************************************)
(* Properties of the parsers together.                                     *)
(***************************************************************************)

\* No false difference: the traversers of a text that all parsers accept show
\* the same values at every call, but for an integer that fits no int, which
\* is a floating for sajson.
OnlyWideIntegersDiffer ==
  AllParsed /\ AllAccept =>
    \A a, b \in Added :
      /\ ShownBy(a).payload = ShownBy(b).payload
      /\ \/ ShownBy(a).type = ShownBy(b).type
         \/ /\ {ShownBy(a).type, ShownBy(b).type} = {"integer", "floating"}
            /\ "sajson" \in {a, b}
            /\ \E n \in DOMAIN text :
                 text[n] = "wide" /\ Payload("wide", n) = ShownBy(a).payload

\* The traversers stay in step with the text: whatever the other parsers are,
\* after some calls of next() each of them shows the event it has at that turn,
\* as the types it stores numbers in allow, or the end of the document.
TypesOf(name) ==
  CASE name = "simdjson" -> SimdjsonTypes
    [] name = "rapidjson" -> RapidjsonTypes
    [] name = "sajson" -> SajsonTypes
ShowsInTurn ==
  LET due == EventAfter(text, calls)
  IN  \A name \in ParserName :
        states[name] = "ok" => ShownBy(name) = EventAt(text, due, TypesOf(name))

\* What a parser says when it returns follows from the text, read token by
\* token: simdjson takes one whole value without a number out of range or a byte
\* order mark, where no place lies so deep that there is no room for a scope
\* more; rapidjson takes one that ends with the text or at a null byte; and
\* sajson takes one that is a container.
TakenBy(name) ==
  LET after == Run(text)
  IN  CASE name = "simdjson" ->
             /\ IsWhole(after[Len(text)])
             /\ \A n \in 1 .. Len(text) : text[n] \notin {"huge", "EF"}
             /\ \A n \in 0 .. Len(text) : Len(after[n].open) + 2 <= DepthCapacity
        [] name = "rapidjson" ->
             \E n \in 0 .. Len(text) :
               IsWhole(after[n]) /\ (n = Len(text) \/ text[n + 1] = "NUL")
        [] name = "sajson" ->
             IsWhole(after[Len(text)]) /\ text[1] \in Opening
VerdictsFollowText ==
  [][\A name \in ParserName :
       states'[name] # states[name] /\ states'[name] # "no memory" =>
         (states'[name] = "ok" <=> TakenBy(name))]_vars

\* The machine of simdjson, which runs on after the last index, does not get
\* to where it may die on a text that any of the parsers could accept.
RunsAwayOnNoJson == label = "died" => ~IsJson(text) /\ ~RapidjsonTakes(text)

\* What a parser allocates for a text it accepts is freed with its traverser,
\* whatever the other parsers say, and rapidjson and sajson leave nothing of a
\* text they refuse either: when compare_parsing returns, nothing is left but
\* what simdjson may have kept of a text it refused.
AcceptedLeaveNothing ==
  turn = Len(parsers) + 2 =>
    /\ heap \cap {"rapidjson document", "sajson buffer", "sajson document"} = {}
    /\ "simdjson" \notin Added \/ states["simdjson"] = "ok" => heap = {}

\* "The traverser will take ownership of it" (include/simdjsonparser.h:130):
\* when compare_parsing returns and the traversers are gone, so is all else.
NothingLeft == turn = Len(parsers) + 2 => heap = {}

\* Invariants of the components.
CountsMatchStack == Rapidjson!CountsMatchStack
StackFits == Sajson!StackFits
DepthIsNesting == SimdjsonWalk!DepthIsNesting
InsideScopes == SimdjsonWalk!InsideScopes
IteratorsNest == RapidjsonWalk!IteratorsNest
GettersAnswer == RapidjsonWalk!GettersAnswer
IndicesNest == SajsonWalk!IndicesNest
=============================================================================
