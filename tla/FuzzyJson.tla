----------------------------- MODULE FuzzyJson -----------------------------
(***************************************************************************)
(* One fuzzing process: FuzzyJson::fuzz and everything it calls            *)
(* (include/fuzzyjson.h), with the document generator RandomJson, the      *)
(* parsers and the files it writes as its environment.                     *)
(*                                                                         *)
(* A document stands for the bytes RandomJson holds. What a parser makes   *)
(* of it is given by the constants Verdict (accepted or not), Stream (the  *)
(* values its Traverser shows, call of next() by call of next()) and       *)
(* Crashes; parsers are deterministic. The traversers that produce the     *)
(* streams are modelled in modules of their own.                           *)
(*                                                                         *)
(* Variables whose comment says "history" record what happened for the     *)
(* properties; no action's guard reads them. A definition marked "mutant"  *)
(* is never used: it is a plausible bug in the definition that follows it, *)
(* put in its place to see that some property notices.                     *)
(***************************************************************************)
EXTENDS Integers, Sequences, ParserTypes, Floatings

CONSTANTS
  Doc,               \* the documents RandomJson can hold
  ParserName,        \* the kinds of parsers that may be added
  MaxParsers,        \* bound on the number of parsers added
  Verdict,           \* Verdict[d][p]: parsing state of a parser p on document d
  Stream,            \* Stream[d][p]: the values a traverser of p shows on d
  Crashes,           \* pairs <<d, p>>: parser p brings the process down on d
  KnownToRapidjson,  \* documents the scan of is_known_problem stops in
  MaxMutations,      \* settings.max_mutations
  MaxValues,         \* max_values, 1024 in the code
  Precision,         \* settings.floating_precision, as a fraction
  MaxTime,           \* bound on the clock, in seconds
  NoDoc              \* stands where there is no document or file

ASSUME ParserAssumption ==
  /\ ParserName \subseteq {"simdjson", "rapidjson", "sajson"}
  /\ MaxParsers \in Nat
ASSUME DocAssumption ==
  /\ Doc # {}
  /\ NoDoc \notin Doc
  /\ Verdict \in [Doc -> [ParserName -> ParsingState]]
  /\ KnownToRapidjson \subseteq Doc
ASSUME StreamAssumption ==
  \A d \in Doc, p \in ParserName :
    \A n \in 1 .. Len(Stream[d][p]) :
      Stream[d][p][n].type \in ValueType \ {"end_of_document"}
ASSUME BoundsAssumption ==
  /\ MaxMutations \in Nat
  /\ MaxValues \in Nat \ {0}
  /\ MaxTime \in Nat
ASSUME PrecisionAssumption == Precision \in Fraction

VARIABLES
  parsers,              \* names of the parsers, the leader first
  pc,                   \* where fuzz() stands
  no_mutation,          \* loop counter of fuzz()
  doc,                  \* the document RandomJson holds
  previous,             \* what reverse_mutation() restores
  number_of_mutations,  \* what get_number_of_mutations() answers
  temp,                 \* contents of temp-<id>.json, or NoDoc
  parsing_state,        \* per parser: state of its traverser, or "unparsed"
  position,             \* per parser: how often its traverser was advanced
  i,                    \* loop variable of the loops over the parsers
  value_index,          \* index of the values being compared
  to_reverse,           \* whether compare_parsing gave the document up
  now,                  \* the clock, in whole seconds
  reports,              \* per second: the report in the files of that name
  flagged,              \* history: value indices passed to generate_report
                        \*   since the document was saved
  generated             \* history: every report ever written

random_json == <<doc, previous, number_of_mutations>>
files == <<temp, reports, now>>
comparison == <<parsing_state, position, i, value_index>>
locals == <<comparison, to_reverse>>
history == <<flagged, generated>>
vars == <<parsers, pc, no_mutation, random_json, locals, files, history>>

Parser == 1 .. Len(parsers)

Terminal == {"done", "aborted", "crashed"}
Location == {"setup", "loop", "parse", "compare", "mutate"} \cup Terminal
Report == [round : Nat, doc : Doc, index : Nat \cup {-1}]

Accepted(d) == \A k \in Parser : Verdict[d][parsers[k]] = "ok"

\* No traverser, in a process with n parsers.
Unparsed(n) == [k \in 1 .. n |-> "unparsed"]
Unmoved(n) == [k \in 1 .. n |-> 0]

Init ==
  /\ parsers = <<>>
  /\ pc = "setup"
  /\ no_mutation = 0
  /\ doc \in Doc
  /\ previous = NoDoc
  /\ number_of_mutations = 0
  /\ temp = NoDoc
  /\ parsing_state = Unparsed(0)
  /\ position = Unmoved(0)
  /\ i = 1
  /\ value_index = 0
  /\ to_reverse = FALSE
  /\ now = 0
  /\ reports = [t \in 0 .. MaxTime |-> NoDoc]
  /\ flagged = {}
  /\ generated = {}

-----------------------------------------------------------------------------
(***************************************************************************)
(* What the traversers show, and whether two values differ.                *)
(***************************************************************************)

\* The value on which a traverser advanced p times over document d stands.
ValueAt(d, k, p) ==
  LET stream == Stream[d][parsers[k]]
  IN  IF p < Len(stream) THEN stream[p + 1] ELSE EndOfDocument

\* The types whose values compare_parsing compares, and how.
ValuesDiffer(leader, other) ==
  CASE leader.type \in {"string", "key", "integer", "boolean"} ->
         leader.payload # other.payload
    [] leader.type = "floating" ->
         ~FloatingsAreEqual(leader.payload, other.payload, Precision)
    [] OTHER -> FALSE

Different(leader, other) ==
  ~(leader.type = other.type /\ ~ValuesDiffer(leader, other))

Current(k) == ValueAt(doc, k, position[k])

-----------------------------------------------------------------------------
(***************************************************************************)
(* generate_report. A rapidjson traverser that accepted its document knows *)
(* every problem it is asked about: its scan for a null byte has no other  *)
(* way out (module KnownProblem). If the document holds no byte the scan   *)
(* stops on, it runs off the start of the buffer, and either meets a zero  *)
(* byte there or brings the process down (ScanRunsAway).                   *)
(***************************************************************************)

AnyAcceptingParserKnows == \E k \in Parser : parsing_state[k] = "ok" \* mutant

IsKnownProblem ==
  \E k \in Parser : parsers[k] = "rapidjson" /\ parsing_state[k] = "ok"

\* Both files are named after the id and the second, and are overwritten.
ReversedBefore(index) == \* mutant
  LET subject == IF index = -1 /\ previous # NoDoc THEN previous ELSE doc
      report == [round |-> no_mutation, doc |-> subject, index |-> index]
  IN  /\ reports' = [reports EXCEPT ![now] = report]
      /\ generated' = generated \cup {report}
      /\ UNCHANGED <<temp, now>>
WriteReport(index) ==
  LET report == [round |-> no_mutation, doc |-> doc, index |-> index]
  IN  /\ reports' = [reports EXCEPT ![now] = report]
      /\ generated' = generated \cup {report}
      /\ UNCHANGED <<temp, now>>

GenerateReport(index) ==
  /\ flagged' = flagged \cup {index}
  /\ \/ /\ IsKnownProblem
        /\ UNCHANGED <<files, generated>>
     \/ /\ ~IsKnownProblem
        /\ WriteReport(index)

\* compare_parsing returns: its traversers and counters are gone.
Return ==
  /\ pc' = "mutate"
  /\ parsing_state' = Unparsed(Len(parsers))
  /\ position' = Unmoved(Len(parsers))
  /\ i' = 1
  /\ value_index' = 0

\* RandomJson::reverse_mutation. Whether the number of mutations it answers
\* afterwards still counts the reversed one is left open.
ForgetMutation == \* mutant
  /\ number_of_mutations' \in {number_of_mutations, number_of_mutations - 1}
  /\ UNCHANGED <<doc, previous>>

ReverseMutation ==
  /\ doc' = previous
  /\ number_of_mutations' \in {number_of_mutations, number_of_mutations - 1}
  /\ UNCHANGED previous

-----------------------------------------------------------------------------
(***************************************************************************)
(* The parsers are added, then fuzz() is called.                           *)
(***************************************************************************)

AddParser ==
  /\ pc = "setup"
  /\ Len(parsers) < MaxParsers
  /\ \E name \in ParserName : parsers' = Append(parsers, name)
  /\ parsing_state' = Unparsed(Len(parsers) + 1)
  /\ position' = Unmoved(Len(parsers) + 1)
  /\ UNCHANGED <<pc, no_mutation, random_json, i, value_index, to_reverse,
                 files, history>>

Fuzz ==
  /\ pc = "setup"
  /\ pc' = "loop"
  /\ UNCHANGED <<parsers, no_mutation, random_json, locals, files, history>>

-----------------------------------------------------------------------------
(***************************************************************************)
(* fuzz(): save a copy, compare, mutate, until max_mutations is reached.   *)
(***************************************************************************)

\* The copy temp-<id>.json, kept in case of a crash.
SaveFirstOnly == temp' = IF no_mutation = 0 THEN doc ELSE temp \* mutant
SaveCopy == temp' = doc

LeaveCopy == temp' = temp \* mutant
RemoveCopy == temp' = NoDoc

\* no_mutation++, whatever became of the mutation.
CountKept == no_mutation' = number_of_mutations + 1 \* mutant
CountMutation == no_mutation' = no_mutation + 1

Save ==
  /\ pc = "loop"
  /\ no_mutation # MaxMutations
  /\ pc' = "parse"
  /\ SaveCopy
  /\ flagged' = {}
  /\ to_reverse' = FALSE
  /\ UNCHANGED <<parsers, no_mutation, random_json, comparison, now, reports,
                 generated>>

Mutate ==
  /\ pc = "mutate"
  /\ pc' = "loop"
  /\ doc' \in Doc
  /\ previous' = doc
  /\ number_of_mutations' = number_of_mutations + 1
  /\ CountMutation
  /\ UNCHANGED <<parsers, locals, files, history>>

Finish ==
  /\ pc = "loop"
  /\ no_mutation = MaxMutations
  /\ pc' = "done"
  /\ RemoveCopy
  /\ UNCHANGED <<parsers, no_mutation, random_json, locals, now, reports,
                 history>>

-----------------------------------------------------------------------------
(***************************************************************************)
(* compare_parsing(), first part: every parser parses the document, and    *)
(* the states decide whether it is kept.                                   *)
(***************************************************************************)

ParseNext ==
  /\ pc = "parse"
  /\ i \in Parser
  /\ IF <<doc, parsers[i]>> \in Crashes
       THEN /\ pc' = "crashed"
            /\ UNCHANGED <<parsing_state, i>>
       ELSE /\ parsing_state' =
                 [parsing_state EXCEPT ![i] = Verdict[doc][parsers[i]]]
            /\ i' = i + 1
            /\ UNCHANGED pc
  /\ UNCHANGED <<parsers, no_mutation, random_json, position, value_index,
                 to_reverse, files, history>>

\* traversers.at(0) throws when no parser was added.
NoParser ==
  /\ pc = "parse"
  /\ Parser = {}
  /\ pc' = "crashed"
  /\ UNCHANGED <<parsers, no_mutation, random_json, locals, files, history>>

AllParsed == pc = "parse" /\ i = Len(parsers) + 1 /\ Parser # {}
StatesAreSame == \A k \in Parser : parsing_state[k] = parsing_state[1]
Disagree == AllParsed /\ ~StatesAreSame
AllReject == AllParsed /\ StatesAreSame /\ parsing_state[1] = "error"

\* A document that was never mutated cannot be reversed.
FirstMutationMissed == number_of_mutations \in {0, 1} \* mutant
NothingToReverse == number_of_mutations = 0

\* The generator made a document no parser accepts.
SayNothing == UNCHANGED <<files, history>> \* mutant
ReportGenerator == GenerateReport(-1)

\* Some parsers accept the document and some do not: a problem in itself.
\* The process stops if it cannot go back to an accepted document.
ReportDisagreement ==
  /\ Disagree
  /\ GenerateReport(-1)
  /\ to_reverse' = TRUE
  /\ IF NothingToReverse
       THEN /\ pc' = "aborted"
            /\ UNCHANGED <<random_json, comparison>>
       ELSE ReverseMutation /\ Return
  /\ UNCHANGED <<parsers, no_mutation>>

\* Every parser rejects the document. On the generated document that is
\* reported, as a failure of the generator, before the process stops.
GiveUpRejected ==
  /\ AllReject
  /\ to_reverse' = TRUE
  /\ IF NothingToReverse
       THEN /\ ReportGenerator
            /\ pc' = "aborted"
            /\ UNCHANGED <<random_json, comparison>>
       ELSE /\ ReverseMutation
            /\ Return
            /\ UNCHANGED <<files, history>>
  /\ UNCHANGED <<parsers, no_mutation>>

StartComparing ==
  /\ AllParsed
  /\ StatesAreSame
  /\ parsing_state[1] = "ok"
  /\ pc' = "compare"
  /\ i' = 2
  /\ value_index' = 0
  /\ UNCHANGED <<parsers, no_mutation, random_json, parsing_state, position,
                 to_reverse, files, history>>

-----------------------------------------------------------------------------
(***************************************************************************)
(* compare_parsing(), second part: the leader, parser 1, is compared with  *)
(* every other parser, value by value.                                     *)
(***************************************************************************)

\* The condition of the outer loop, looked at when a round begins.
OneMoreValue == value_index <= MaxValues \* mutant
MoreValues == value_index < MaxValues
InRound == pc = "compare" /\ MoreValues

\* traversers.at(i)->next(), on every path through the loop.
AdvanceIfSame == \* mutant
  position' = IF Different(Current(1), Current(i)) THEN position
              ELSE [position EXCEPT ![i] = @ + 1]
AdvanceOther == position' = [position EXCEPT ![i] = @ + 1]

\* One iteration of the inner loop. A value that differs is reported; in
\* each case the other traverser advances, so that all stay in step.
CompareWithLeader ==
  /\ InRound
  /\ i \in Parser
  /\ IF Different(Current(1), Current(i))
       THEN GenerateReport(value_index)
       ELSE UNCHANGED <<files, history>>
  /\ AdvanceOther
  /\ i' = i + 1
  /\ UNCHANGED <<parsers, pc, no_mutation, random_json, parsing_state,
                 value_index, to_reverse>>

AllCompared == InRound /\ i = Len(parsers) + 1
AnyAtEnd == \E k \in Parser : Current(k).type = "end_of_document" \* mutant
AtEnd == Current(1).type = "end_of_document"

AdvanceLeader ==
  /\ AllCompared
  /\ ~AtEnd
  /\ position' = [position EXCEPT ![1] = @ + 1]
  /\ value_index' = value_index + 1
  /\ i' = 2
  /\ UNCHANGED <<parsers, pc, no_mutation, random_json, parsing_state,
                 to_reverse, files, history>>

\* The leader was at its end in this round, or max_values rounds are over, after
\* the last of which it was advanced as well.
StopComparing ==
  /\ \/ AllCompared /\ AtEnd
     \/ pc = "compare" /\ ~MoreValues
  /\ Return
  /\ UNCHANGED <<parsers, no_mutation, random_json, to_reverse, files, history>>

-----------------------------------------------------------------------------
(***************************************************************************)
(* What can happen besides: the scan of is_known_problem leaves the buffer *)
(* and ends the process, the clock ticks, the process has ended.           *)
(***************************************************************************)

ReportDue ==
  \/ Disagree
  \/ AllReject /\ NothingToReverse
  \/ InRound /\ i \in Parser /\ Different(Current(1), Current(i))

ScanRunsAway ==
  /\ ReportDue
  /\ IsKnownProblem
  /\ doc \notin KnownToRapidjson
  /\ pc' = "crashed"
  /\ UNCHANGED <<parsers, no_mutation, random_json, locals, files, history>>

Tick ==
  /\ now < MaxTime
  /\ now' = now + 1
  /\ UNCHANGED <<parsers, pc, no_mutation, random_json, locals, temp, reports,
                 history>>

Terminated == pc \in Terminal /\ UNCHANGED vars

Step ==
  \/ AddParser \/ Fuzz
  \/ Save \/ Mutate \/ Finish
  \/ ParseNext \/ NoParser \/ ReportDisagreement \/ GiveUpRejected
  \/ StartComparing \/ CompareWithLeader \/ AdvanceLeader \/ StopComparing
  \/ ScanRunsAway

Next == Step \/ Tick \/ Terminated

Spec == Init /\ [][Next]_vars

\* The process is scheduled as long as it can run; nothing is assumed of the
\* clock.
FairSpec == Spec /\ WF_vars(Step)

-----------------------------------------------------------------------------
(***************************************************************************)
(* Properties.                                                             *)
(***************************************************************************)

TypeOK ==
  /\ parsers \in Seq(ParserName)
  /\ pc \in Location
  /\ no_mutation \in 0 .. MaxMutations
  /\ doc \in Doc
  /\ previous \in Doc \cup {NoDoc}
  /\ number_of_mutations \in Nat
  /\ temp \in Doc \cup {NoDoc}
  /\ parsing_state \in [Parser -> ParsingState \cup {"unparsed"}]
  /\ position \in [Parser -> Nat]
  /\ i \in 1 .. Len(parsers) + 1
  /\ value_index \in 0 .. MaxValues
  /\ to_reverse \in BOOLEAN
  /\ now \in 0 .. MaxTime
  /\ reports \in [0 .. MaxTime -> Report \cup {NoDoc}]
  /\ flagged \subseteq Nat \cup {-1}
  /\ generated \subseteq Report

\* The document mutate() starts from is one that every parser accepts: a
\* rejected or disputed one is always replaced by the accepted document it
\* was made from (compare_parsing, reverse_mutation).
KeepsAccepted == pc = "mutate" => Accepted(doc)

\* std::abort is reached on the generated document only, never once a
\* mutation has been made, however the generator counts reversed mutations:
\* a document to fall back on always exists later.
AbortsOnlyAtStart ==
  pc = "aborted" => no_mutation = 0 /\ ~Accepted(doc)

\* Whenever the process dies, temp-<id>.json holds the very document that
\* was being parsed or compared (the copy fuzz() saves "in case of
\* unexpected crash").
EvidenceKept == pc \in {"crashed", "aborted"} => temp = doc

\* While values are compared, the traverser of every parser stands on the
\* value number value_index, or the one after it if it has been compared in
\* this round: mismatches never put the traversers out of step.
Lockstep ==
  pc = "compare" =>
    \A k \in Parser :
      position[k] = IF 1 < k /\ k < i THEN value_index + 1 ELSE value_index

\* The first MaxValues values of the leader, up to its end of document.
Compared(d) ==
  {v \in 0 .. MaxValues - 1 :
     \A u \in 0 .. v - 1 : ValueAt(d, 1, u).type # "end_of_document"}

DiffersAt(d, v) ==
  \E k \in Parser \ {1} : Different(ValueAt(d, 1, v), ValueAt(d, k, v))

\* When compare_parsing returns having kept the document, generate_report
\* was called for exactly the value indices at which some parser shows
\* something else than the leader: nothing is missed and nothing invented.
DifferencesFlagged ==
  pc = "mutate" /\ ~to_reverse =>
    flagged = {v \in Compared(doc) : DiffersAt(doc, v)}

\* "When a difference between parsings is detected, FuzzyJson generates a
\* report" (README.md): once compare_parsing is over, a document on which
\* generate_report was called has a report.
EveryDifferenceReported ==
  pc \in {"mutate", "aborted"} /\ flagged # {} =>
    \E r \in generated : r.round = no_mutation

\* Without rapidjson among the parsers, it always has.
ReportedWithoutRapidjson ==
  (\A k \in Parser : parsers[k] # "rapidjson") => EveryDifferenceReported

\* The process that gives up on a document no rapidjson parser accepts leaves
\* a report on that document, still on disk.
AbortIsReported ==
  pc = "aborted" /\ ~IsKnownProblem =>
    \E t \in 0 .. now : reports[t] \in generated /\ reports[t].doc = doc

\* No false report: a report names a document and an index at which some parser
\* shows something else than the leader, or -1 and a document that not every
\* parser accepts. It is written before the document is reversed, and before
\* the traversers that differ are advanced (generate_report, compare_parsing).
ReportsAreTrue ==
  pc # "setup" =>
    \A r \in generated :
      IF r.index = -1 THEN ~Accepted(r.doc) ELSE DiffersAt(r.doc, r.index)

\* Every report written is still on disk under its own name: the name is
\* said to collide for reports of different processes in one nanosecond.
NoReportLost ==
  \A r \in generated : \E t \in 0 .. MaxTime : reports[t] = r

\* "The report gives information about [...] where the difference between
\* parsings have been detected" (README.md): the value it gives for each
\* parser is the one at the value_index it gives.
ReportsOneIndex ==
  [][generated' # generated => \A k \in Parser : position[k] = value_index]_vars

\* "FuzzyJson will currently crash if there is only one parser" (README.md):
\* with one parser the fuzz never comes to its end.
OneParserNeverFinishes == Len(parsers) = 1 => pc # "done"

\* fuzz() ends: each comparison does, whatever the streams, and each
\* mutation is counted, whether or not it is reversed.
Termination == <>(pc \in Terminal)

-----------------------------------------------------------------------------
(***************************************************************************)
(* The session this process implements. The last accepted document is the  *)
(* one held while it is being mutated, and the one reverse_mutation would  *)
(* restore otherwise.                                                      *)
(***************************************************************************)

Phase ==
  CASE pc = "setup" -> "setup"
    [] pc = "loop" -> "save"
    [] pc \in {"parse", "compare"} -> "compare"
    [] pc = "mutate" -> "mutate"
    [] pc = "done" -> "done"
    [] pc = "aborted" -> "given up"
    [] pc = "crashed" -> "dead"

Session == INSTANCE FuzzSession WITH
  accepted <- {d \in Doc : Accepted(d)},
  phase <- Phase,
  round <- no_mutation,
  base <- IF pc = "mutate" THEN doc ELSE previous

\* The process implements the session: comparing the parsers step by step,
\* and reporting, never does anything the session does not allow.
ImplementsSession == Session!Spec
=============================================================================
