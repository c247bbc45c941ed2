-------------------------- MODULE FuzzyJsonProofs --------------------------
(***************************************************************************)
(* Proofs about FuzzyJson, for every set of documents, every verdict and   *)
(* stream, and every value of the bounds.                                  *)
(***************************************************************************)
EXTENDS FuzzyJson, TLAPS

(***************************************************************************)
(* The inductive invariant. Each part says what a stretch of the code may  *)
(* rely on.                                                                *)
(***************************************************************************)

\* Between two comparisons no traverser exists, and while the parsers parse
\* none has moved.
Idle ==
  /\ pc \in {"setup", "loop", "mutate"} => i = 1 /\ value_index = 0
  /\ pc \in {"setup", "loop", "mutate", "parse"} =>
       position = Unmoved(Len(parsers))
  /\ pc = "parse" => value_index = 0
  /\ pc = "compare" => Parser # {} /\ 2 <= i
  /\ pc = "compare" /\ value_index = MaxValues => i = 2
  /\ pc \in {"parse", "compare", "mutate"} => no_mutation < MaxMutations

\* The generator has counted at least one mutation whenever the fuzz has
\* made one and it is not being reversed: reverse_mutation() uncounts one at
\* most, and mutate() counts one before the next comparison.
Counted ==
  /\ pc = "setup" => no_mutation = 0
  /\ no_mutation = 0 => number_of_mutations = 0
  /\ no_mutation # 0 /\ pc # "mutate" => number_of_mutations # 0

\* Where a mutation starts from, and what it can be reversed to.
Fallback ==
  /\ pc \in {"mutate", "compare"} => Accepted(doc)
  /\ pc \in {"loop", "parse"} /\ no_mutation # 0 =>
       previous \in Doc /\ Accepted(previous)
  /\ AbortsOnlyAtStart

\* The parsers that have parsed answered for the document at hand.
Parsed ==
  /\ pc = "parse" =>
       \A k \in Parser : k < i => parsing_state[k] = Verdict[doc][parsers[k]]
  /\ pc = "compare" =>
       \A k \in Parser : parsing_state[k] = "ok"

\* The copy on disk is the document at hand.
Copied == pc \in {"parse", "compare", "crashed", "aborted"} => temp = doc

IInv ==
  TypeOK /\ Idle /\ Counted /\ Fallback /\ Parsed /\ Copied /\ Lockstep

-----------------------------------------------------------------------------
(***************************************************************************)
(* generate_report, wherever it is called from.                            *)
(***************************************************************************)

\* Whether a report is written or not, the files and the history keep their
\* types, and the copy of the document is left alone; a new report is about the
\* document at hand.
LEMMA ReportStep ==
  ASSUME TypeOK, NEW index \in Nat \cup {-1}, GenerateReport(index)
  PROVE  /\ now' = now
         /\ temp' = temp
         /\ reports' \in [0 .. MaxTime -> Report \cup {NoDoc}]
         /\ flagged' = flagged \cup {index}
         /\ flagged' \subseteq Nat \cup {-1}
         /\ generated' \subseteq Report
         /\ \A r \in generated' \ generated : r.doc = doc /\ r.index = index
<1> DEFINE report == [round |-> no_mutation, doc |-> doc, index |-> index]
<1>1. report \in Report /\ report.doc = doc /\ report.index = index
  BY BoundsAssumption DEF TypeOK, Report
<1>2. CASE IsKnownProblem
  <2>1. /\ flagged' = flagged \cup {index}
        /\ temp' = temp /\ reports' = reports /\ now' = now
        /\ generated' = generated
    BY <1>2 DEF GenerateReport, files
  <2>2. QED  BY <2>1 DEF TypeOK
<1>3. CASE ~IsKnownProblem
  BY <1>1, <1>3 DEF GenerateReport, WriteReport, TypeOK
<1>4. QED  BY <1>2, <1>3

-----------------------------------------------------------------------------
\* Every step preserves the inductive invariant.
LEMMA NextIInv == IInv /\ [Next]_vars => IInv'
<1> SUFFICES ASSUME IInv, [Next]_vars PROVE IInv'
  OBVIOUS
<1> USE ParserAssumption, DocAssumption, BoundsAssumption DEF IInv
<1>1. CASE AddParser
  <2> USE <1>1 DEF AddParser, random_json, files, history
  <2>1. TypeOK'
    BY DEF TypeOK, Location, Terminal, Unparsed, Unmoved, Parser
  <2>2. Idle'
    BY DEF Idle, TypeOK, Unmoved, Parser
  <2>3. Counted'
    BY DEF Counted, TypeOK
  <2>4. Fallback'
    BY DEF Fallback, AbortsOnlyAtStart, Accepted, Counted, TypeOK, Parser
  <2>5. Parsed'
    BY DEF Parsed
  <2>6. Copied'
    BY DEF Copied
  <2>7. Lockstep'
    BY DEF Lockstep, TypeOK, Parser
  <2> QED  BY <2>1, <2>2, <2>3, <2>4, <2>5, <2>6, <2>7 DEF IInv
<1>2. CASE Fuzz
  <2> USE <1>2 DEF Fuzz, random_json, locals, comparison, files, history
  <2>1. TypeOK'
    BY DEF TypeOK, Location, Terminal, Unparsed, Unmoved, Parser
  <2>2. Idle'
    BY DEF Idle, TypeOK, Unmoved, Parser
  <2>3. Counted'
    BY DEF Counted, TypeOK
  <2>4. Fallback'
    BY DEF Fallback, AbortsOnlyAtStart, Accepted, Counted, TypeOK, Parser
  <2>5. Parsed'
    BY DEF Parsed, TypeOK, Parser
  <2>6. Copied'
    BY DEF Copied
  <2>7. Lockstep'
    BY DEF Lockstep, TypeOK, Parser
  <2> QED  BY <2>1, <2>2, <2>3, <2>4, <2>5, <2>6, <2>7 DEF IInv
<1>3. CASE Save
  <2> USE <1>3 DEF Save, SaveCopy, random_json, comparison
  <2>1. TypeOK'
    BY DEF TypeOK, Location, Terminal, Unparsed, Unmoved, Parser
  <2>2. Idle'
    BY DEF Idle, TypeOK, Unmoved, Parser
  <2>3. Counted'
    BY DEF Counted, TypeOK
  <2>4. Fallback'
    BY DEF Fallback, AbortsOnlyAtStart, Accepted, Counted, TypeOK, Parser
  <2>5. Parsed'
    BY DEF Parsed, Idle, TypeOK, Parser
  <2>6. Copied'
    BY DEF Copied
  <2>7. Lockstep'
    BY DEF Lockstep, TypeOK, Parser
  <2> QED  BY <2>1, <2>2, <2>3, <2>4, <2>5, <2>6, <2>7 DEF IInv
<1>4. CASE Mutate
  <2> USE <1>4 DEF Mutate, CountMutation, locals, comparison, files, history
  <2>1. TypeOK'
    BY DEF TypeOK, Location, Terminal, Unparsed, Unmoved, Parser, Idle
  <2>2. Idle'
    BY DEF Idle, TypeOK, Unmoved, Parser
  <2>3. Counted'
    BY DEF Counted, TypeOK
  <2>4. Fallback'
    BY DEF Fallback, AbortsOnlyAtStart, Accepted, Counted, TypeOK, Parser
  <2>5. Parsed'
    BY DEF Parsed, TypeOK, Parser
  <2>6. Copied'
    BY DEF Copied
  <2>7. Lockstep'
    BY DEF Lockstep, TypeOK, Parser
  <2> QED  BY <2>1, <2>2, <2>3, <2>4, <2>5, <2>6, <2>7 DEF IInv
<1>5. CASE Finish
  <2> USE <1>5 DEF Finish, RemoveCopy, random_json, locals, comparison,
              history
  <2>1. TypeOK'
    BY DEF TypeOK, Location, Terminal, Unparsed, Unmoved, Parser
  <2>2. Idle'
    BY DEF Idle, TypeOK, Unmoved, Parser
  <2>3. Counted'
    BY DEF Counted, TypeOK
  <2>4. Fallback'
    BY DEF Fallback, AbortsOnlyAtStart, Accepted, Counted, TypeOK, Parser
  <2>5. Parsed'
    BY DEF Parsed, TypeOK, Parser
  <2>6. Copied'
    BY DEF Copied
  <2>7. Lockstep'
    BY DEF Lockstep, TypeOK, Parser
  <2> QED  BY <2>1, <2>2, <2>3, <2>4, <2>5, <2>6, <2>7 DEF IInv
<1>6. CASE ParseNext
  <2> USE <1>6 DEF ParseNext, random_json, files, history
  <2>a. parsers[i] \in ParserName
    BY DEF TypeOK, Parser
  <2>b. Verdict[doc][parsers[i]] \in ParsingState
    <3>1. doc \in Doc
      BY DEF TypeOK
    <3>2. Verdict[doc] \in [ParserName -> ParsingState]
      BY <3>1
    <3>3. QED  BY <2>a, <3>2
  <2>c. pc' \in {"parse", "crashed"} /\ i' \in 1 .. Len(parsers) + 1
    BY DEF TypeOK, Parser
  <2>d. parsing_state' \in [Parser -> ParsingState \cup {"unparsed"}]
    BY <2>b DEF TypeOK
  <2>1. TypeOK'
    BY <2>c, <2>d DEF TypeOK, Location, Terminal, Unparsed, Unmoved, Parser
  <2>2. Idle'
    BY DEF Idle, TypeOK, Unmoved, Parser
  <2>3. Counted'
    BY DEF Counted, TypeOK
  <2>4. Fallback'
    BY DEF Fallback, AbortsOnlyAtStart, Accepted, Counted, TypeOK, Parser
  <2>5. Parsed'
    BY DEF Parsed, TypeOK, Parser
  <2>6. Copied'
    BY DEF Copied
  <2>7. Lockstep'
    BY DEF Lockstep, TypeOK, Parser
  <2> QED  BY <2>1, <2>2, <2>3, <2>4, <2>5, <2>6, <2>7 DEF IInv
<1>7. CASE NoParser
  <2> USE <1>7 DEF NoParser, random_json, locals, comparison, files, history
  <2>1. TypeOK'
    BY DEF TypeOK, Location, Terminal, Unparsed, Unmoved, Parser
  <2>2. Idle'
    BY DEF Idle, TypeOK, Unmoved, Parser
  <2>3. Counted'
    BY DEF Counted, TypeOK
  <2>4. Fallback'
    BY DEF Fallback, AbortsOnlyAtStart, Accepted, Counted, TypeOK, Parser
  <2>5. Parsed'
    BY DEF Parsed, TypeOK, Parser
  <2>6. Copied'
    BY DEF Copied
  <2>7. Lockstep'
    BY DEF Lockstep, TypeOK, Parser
  <2> QED  BY <2>1, <2>2, <2>3, <2>4, <2>5, <2>6, <2>7 DEF IInv
<1>8. CASE ReportDisagreement
  <2> USE <1>8 DEF ReportDisagreement, Disagree, AllParsed, StatesAreSame,
              NothingToReverse, ReverseMutation, Return, random_json,
              comparison
  <2>a. /\ reports' \in [0 .. MaxTime -> Report \cup {NoDoc}]
        /\ now' = now /\ temp' = temp
        /\ flagged' \subseteq Nat \cup {-1} /\ generated' \subseteq Report
    BY ReportStep
  <2>c. ~Accepted(doc)
    <3>1. PICK k \in Parser : parsing_state[k] # parsing_state[1]
      OBVIOUS
    <3>2. parsing_state[k] = Verdict[doc][parsers[k]]
      BY DEF Parsed, Parser
    <3>3. 1 \in Parser /\ parsing_state[1] = Verdict[doc][parsers[1]]
      BY DEF Parsed, Parser, TypeOK
    <3>4. QED  BY <3>1, <3>2, <3>3 DEF Accepted
  <2>d. number_of_mutations # 0 =>
          no_mutation # 0 /\ previous \in Doc /\ Accepted(previous)
    BY DEF Counted, Fallback
  <2>1. TypeOK'
    <3>1. CASE NothingToReverse
      BY <2>a, <3>1 DEF TypeOK, Location, Terminal, Parser
    <3>2. CASE ~NothingToReverse
      <4>1. number_of_mutations' \in Nat
        BY <3>2 DEF TypeOK
      <4>2. i' \in 1 .. Len(parsers) + 1 /\ value_index' \in 0 .. MaxValues
        BY <3>2 DEF TypeOK, Parser
      <4>3. /\ parsing_state' \in [Parser -> ParsingState \cup {"unparsed"}]
            /\ position' \in [Parser -> Nat]
        BY <3>2 DEF Unparsed, Unmoved, Parser
      <4>4. doc' \in Doc /\ previous' \in Doc \cup {NoDoc}
        BY <2>d, <3>2 DEF TypeOK
      <4>5. QED
        BY <2>a, <3>2, <4>1, <4>2, <4>3, <4>4 DEF TypeOK, Location, Parser
    <3>3. QED  BY <3>1, <3>2
  <2>2. Idle'
    BY DEF Idle, TypeOK, Unmoved, Parser
  <2>3. Counted'
    BY DEF Counted, TypeOK
  <2>4. Fallback'
    BY <2>c, <2>d DEF Fallback, AbortsOnlyAtStart, Accepted, Counted, Parser
  <2>5. Parsed'
    BY DEF Parsed, TypeOK, Parser
  <2>6. Copied'
    BY <2>a DEF Copied
  <2>7. Lockstep'
    BY DEF Lockstep, TypeOK, Parser
  <2> QED  BY <2>1, <2>2, <2>3, <2>4, <2>5, <2>6, <2>7 DEF IInv
<1>9. CASE GiveUpRejected
  <2> USE <1>9 DEF GiveUpRejected, AllReject, AllParsed, StatesAreSame,
              NothingToReverse, ReverseMutation, Return, random_json,
              comparison, files, history
  <2>a. /\ reports' \in [0 .. MaxTime -> Report \cup {NoDoc}]
        /\ now' = now /\ temp' = temp
        /\ flagged' \subseteq Nat \cup {-1} /\ generated' \subseteq Report
    BY ReportStep DEF ReportGenerator, TypeOK
  <2>c. ~Accepted(doc)
    BY DEF Accepted, Parsed, TypeOK, Parser
  <2>d. number_of_mutations # 0 =>
          no_mutation # 0 /\ previous \in Doc /\ Accepted(previous)
    BY DEF Counted, Fallback
  <2>1. TypeOK'
    BY <2>a, <2>d DEF TypeOK, Location, Terminal, Unparsed, Unmoved, Parser
  <2>2. Idle'
    BY DEF Idle, TypeOK, Unmoved, Parser
  <2>3. Counted'
    BY DEF Counted, TypeOK
  <2>4. Fallback'
    BY <2>c, <2>d DEF Fallback, AbortsOnlyAtStart, Accepted, Counted, Parser
  <2>5. Parsed'
    BY DEF Parsed, TypeOK, Parser
  <2>6. Copied'
    BY <2>a DEF Copied
  <2>7. Lockstep'
    BY DEF Lockstep, TypeOK, Parser
  <2> QED  BY <2>1, <2>2, <2>3, <2>4, <2>5, <2>6, <2>7 DEF IInv
<1>10. CASE StartComparing
  <2> USE <1>10 DEF StartComparing, AllParsed, StatesAreSame, random_json,
              files, history
  <2>1. TypeOK'
    BY DEF TypeOK, Location, Terminal, Unparsed, Unmoved, Parser, Idle
  <2>2. Idle'
    BY DEF Idle, TypeOK, Unmoved, Parser
  <2>3. Counted'
    BY DEF Counted, TypeOK
  <2>4. Fallback'
    BY DEF Fallback, AbortsOnlyAtStart, Accepted, Parsed, TypeOK, Parser
  <2>5. Parsed'
    BY DEF Parsed, TypeOK, Parser
  <2>6. Copied'
    BY DEF Copied
  <2>7. Lockstep'
    BY DEF Lockstep, Idle, Unmoved, TypeOK, Parser
  <2> QED  BY <2>1, <2>2, <2>3, <2>4, <2>5, <2>6, <2>7 DEF IInv
<1>11. CASE CompareWithLeader
  <2> USE <1>11 DEF CompareWithLeader, InRound, MoreValues, AdvanceOther, random_json, files,
              history
  <2>a. /\ reports' \in [0 .. MaxTime -> Report \cup {NoDoc}]
        /\ now' = now /\ temp' = temp
        /\ flagged' \subseteq Nat \cup {-1} /\ generated' \subseteq Report
    <3>1. value_index \in Nat \cup {-1}
      BY DEF TypeOK
    <3>2. CASE GenerateReport(value_index)
      BY <3>1, <3>2, ReportStep
    <3>3. CASE UNCHANGED <<files, history>>
      BY <3>3 DEF TypeOK
    <3>4. QED  BY <3>2, <3>3
  <2>1. TypeOK'
    <3>1. i' \in 1 .. Len(parsers) + 1
      BY DEF TypeOK, Parser
    <3>2. position' \in [Parser -> Nat]
      BY DEF TypeOK
    <3>3. QED  BY <2>a, <3>1, <3>2 DEF TypeOK, Parser
  <2>2. Idle'
    BY DEF Idle, TypeOK, Unmoved, Parser
  <2>3. Counted'
    BY DEF Counted, TypeOK
  <2>4. Fallback'
    BY DEF Fallback, AbortsOnlyAtStart, Accepted, Counted, TypeOK, Parser
  <2>5. Parsed'
    BY DEF Parsed, TypeOK, Parser
  <2>6. Copied'
    BY <2>a DEF Copied
  <2>7. Lockstep'
    BY DEF Lockstep, Idle, TypeOK, Parser
  <2> QED  BY <2>1, <2>2, <2>3, <2>4, <2>5, <2>6, <2>7 DEF IInv
<1>12. CASE AdvanceLeader
  <2> USE <1>12 DEF AdvanceLeader, AllCompared, InRound, MoreValues, random_json,
              files, history
  <2>1. TypeOK'
    BY DEF TypeOK, Location, Terminal, Unparsed, Unmoved, Parser, Idle
  <2>2. Idle'
    BY DEF Idle, TypeOK, Unmoved, Parser
  <2>3. Counted'
    BY DEF Counted, TypeOK
  <2>4. Fallback'
    BY DEF Fallback, AbortsOnlyAtStart, Accepted, Counted, TypeOK, Parser
  <2>5. Parsed'
    BY DEF Parsed, TypeOK, Parser
  <2>6. Copied'
    BY DEF Copied
  <2>7. Lockstep'
    BY DEF Lockstep, TypeOK, Parser
  <2> QED  BY <2>1, <2>2, <2>3, <2>4, <2>5, <2>6, <2>7 DEF IInv
<1>13. CASE StopComparing
  <2> USE <1>13 DEF StopComparing, AllCompared, InRound, Return, random_json, files,
              history
  <2>1. TypeOK'
    BY DEF TypeOK, Location, Terminal, Unparsed, Unmoved, Parser
  <2>2. Idle'
    BY DEF Idle, TypeOK, Unmoved, Parser
  <2>3. Counted'
    BY DEF Counted, TypeOK
  <2>4. Fallback'
    BY DEF Fallback, AbortsOnlyAtStart, Accepted, Counted, TypeOK, Parser
  <2>5. Parsed'
    BY DEF Parsed, TypeOK, Parser
  <2>6. Copied'
    BY DEF Copied
  <2>7. Lockstep'
    BY DEF Lockstep, TypeOK, Parser
  <2> QED  BY <2>1, <2>2, <2>3, <2>4, <2>5, <2>6, <2>7 DEF IInv
<1>14. CASE ScanRunsAway
  <2> USE <1>14 DEF ScanRunsAway, ReportDue, Disagree, AllReject, AllParsed,
              InRound,
              random_json, locals, comparison, files, history
  <2>1. TypeOK'
    BY DEF TypeOK, Location, Terminal, Unparsed, Unmoved, Parser
  <2>2. Idle'
    BY DEF Idle, TypeOK, Unmoved, Parser
  <2>3. Counted'
    BY DEF Counted, TypeOK
  <2>4. Fallback'
    BY DEF Fallback, AbortsOnlyAtStart, Accepted, Counted, TypeOK, Parser
  <2>5. Parsed'
    BY DEF Parsed, TypeOK, Parser
  <2>6. Copied'
    BY DEF Copied
  <2>7. Lockstep'
    BY DEF Lockstep, TypeOK, Parser
  <2> QED  BY <2>1, <2>2, <2>3, <2>4, <2>5, <2>6, <2>7 DEF IInv
<1>15. CASE Tick
  <2> USE <1>15 DEF Tick, random_json, locals, comparison, history
  <2>1. TypeOK'
    BY DEF TypeOK, Location, Terminal, Unparsed, Unmoved, Parser
  <2>2. Idle'
    BY DEF Idle, TypeOK, Unmoved, Parser
  <2>3. Counted'
    BY DEF Counted, TypeOK
  <2>4. Fallback'
    BY DEF Fallback, AbortsOnlyAtStart, Accepted, Counted, TypeOK, Parser
  <2>5. Parsed'
    BY DEF Parsed, TypeOK, Parser
  <2>6. Copied'
    BY DEF Copied
  <2>7. Lockstep'
    BY DEF Lockstep, TypeOK, Parser
  <2> QED  BY <2>1, <2>2, <2>3, <2>4, <2>5, <2>6, <2>7 DEF IInv
<1>16. CASE UNCHANGED vars
  BY <1>16 DEF vars, random_json, locals, comparison, files, history, TypeOK,
     Idle, Counted, Fallback, AbortsOnlyAtStart, Accepted, Parsed, Copied,
     Lockstep, Parser
<1>17. QED  BY <1>1, <1>2, <1>3, <1>4, <1>5, <1>6, <1>7, <1>8, <1>9, <1>10,
         <1>11, <1>12, <1>13, <1>14, <1>15, <1>16
       DEF Next, Step, Terminated

\* The invariant holds at first.
LEMMA InitIInv == Init => IInv
<1> SUFFICES ASSUME Init PROVE IInv
  OBVIOUS
<1>1. TypeOK
  <2>1. /\ parsers = <<>> /\ <<>> \in Seq(ParserName) /\ Len(parsers) = 0
        /\ Parser = {}
    BY DEF Init, Parser
  <2>2. /\ parsing_state \in [Parser -> ParsingState \cup {"unparsed"}]
        /\ position \in [Parser -> Nat]
    BY <2>1 DEF Init, Unparsed, Unmoved
  <2>3. /\ no_mutation \in 0 .. MaxMutations /\ value_index \in 0 .. MaxValues
        /\ now \in 0 .. MaxTime /\ i \in 1 .. Len(parsers) + 1
    BY <2>1, BoundsAssumption DEF Init
  <2>4. reports \in [0 .. MaxTime -> Report \cup {NoDoc}]
    BY DEF Init
  <2> QED
    BY <2>1, <2>2, <2>3, <2>4 DEF Init, TypeOK, Location
<1>2. Idle /\ Counted /\ Fallback /\ Parsed /\ Copied /\ Lockstep
  BY DEF Init, Idle, Counted, Fallback, AbortsOnlyAtStart, Parsed, Copied,
         Lockstep, Unmoved
<1>3. QED
  BY <1>1, <1>2 DEF IInv

\* The inductive invariant holds throughout.
THEOREM Invariance == Spec => []IInv
  BY InitIInv, NextIInv, PTL DEF Spec

\* Every variable keeps its type: no index, counter or round of the loops in
\* fuzz() and compare_parsing() leaves its range.
THEOREM TypeCorrect == Spec => []TypeOK
<1>1. IInv => TypeOK
  BY DEF IInv
<1>2. QED  BY <1>1, Invariance, PTL

-----------------------------------------------------------------------------
(***************************************************************************)
(* What generate_report is called with during one comparison.              *)
(***************************************************************************)

DiffersSoFar ==
  \E k \in 2 .. i - 1 :
    Different(ValueAt(doc, 1, value_index), ValueAt(doc, k, value_index))

FlaggedSoFar ==
  /\ pc = "parse" => flagged = {} /\ ~to_reverse
  /\ pc = "compare" =>
       /\ ~to_reverse
       /\ \A u \in 0 .. value_index - 1 :
            ValueAt(doc, 1, u).type # "end_of_document"
       /\ flagged = {v \in 0 .. value_index - 1 : DiffersAt(doc, v)}
                      \cup (IF DiffersSoFar THEN {value_index} ELSE {})
  /\ DifferencesFlagged

\* Once every other parser has been compared, the difference found so far is
\* the difference at this value.
LEMMA AllParsersCompared ==
  ASSUME IInv, FlaggedSoFar, AllCompared
  PROVE  flagged = {v \in 0 .. value_index : DiffersAt(doc, v)}
<1>1. 2 .. i - 1 = Parser \ {1}
  BY DEF IInv, TypeOK, AllCompared, InRound, Parser
<1>2. DiffersSoFar <=> DiffersAt(doc, value_index)
  BY <1>1 DEF DiffersSoFar, DiffersAt
<1>3. value_index \in Nat
  BY DEF IInv, TypeOK
<1>4. 0 .. value_index = (0 .. value_index - 1) \cup {value_index}
  BY <1>3
<1>5. QED
  BY <1>2, <1>4 DEF FlaggedSoFar, AllCompared, InRound

\* With the same parsers and document, the streams are the same.
LEMMA SameStreams ==
  ASSUME parsers' = parsers, doc' = doc
  PROVE  /\ \A v : DiffersAt(doc, v)' <=> DiffersAt(doc, v)
         /\ Compared(doc)' = Compared(doc)
         /\ \A k, v : ValueAt(doc, k, v)' = ValueAt(doc, k, v)
  BY DEF DiffersAt, Compared, ValueAt, Parser

\* Every step keeps account of what has been flagged.
LEMMA NextFlagged == IInv /\ FlaggedSoFar /\ [Next]_vars => FlaggedSoFar'
<1> SUFFICES ASSUME IInv, FlaggedSoFar, [Next]_vars PROVE FlaggedSoFar'
  OBVIOUS
<1>1. CASE StartComparing
  <2>1. doc' = doc /\ parsers' = parsers /\ pc' = "compare" /\ pc = "parse"
    BY <1>1 DEF StartComparing, AllParsed, random_json
  <2>2. /\ value_index' = 0 /\ i' = 2
        /\ flagged' = flagged /\ to_reverse' = to_reverse
    BY <1>1 DEF StartComparing, history
  <2>3. \A u \in 0 .. value_index' - 1 :
          ValueAt(doc, 1, u).type # "end_of_document"
    BY <2>2
  <2>4. ~DiffersSoFar'
    BY <2>2 DEF DiffersSoFar
  <2>5. QED
    BY <2>1, <2>2, <2>3, <2>4, SameStreams DEF FlaggedSoFar, DifferencesFlagged
<1>2. CASE CompareWithLeader
  <2>1. /\ doc' = doc /\ parsers' = parsers /\ pc' = "compare" /\ pc = "compare"
        /\ value_index' = value_index /\ to_reverse' = to_reverse /\ i' = i + 1
    BY <1>2 DEF CompareWithLeader, InRound, random_json
  <2>2. /\ i \in Nat /\ 2 <= i /\ value_index \in Nat
        /\ 1 \in Parser /\ i \in Parser
    BY <1>2 DEF CompareWithLeader, InRound, IInv, TypeOK, Idle, Parser
  <2>3. position[1] = value_index /\ position[i] = value_index
    BY <2>1, <2>2 DEF IInv, Lockstep
  <2>4. Different(Current(1), Current(i)) <=>
          Different(ValueAt(doc, 1, value_index), ValueAt(doc, i, value_index))
    BY <2>3 DEF Current
  <2>5. DiffersSoFar' <=> DiffersSoFar \/ Different(Current(1), Current(i))
    <3>1. 2 .. i' - 1 = (2 .. i - 1) \cup {i}
      BY <2>1, <2>2
    <3>2. DiffersSoFar' <=>
            \E k \in 2 .. i' - 1 :
              Different(ValueAt(doc, 1, value_index),
                        ValueAt(doc, k, value_index))
      BY <2>1, SameStreams DEF DiffersSoFar
    <3>3. QED
      BY <2>4, <3>1, <3>2 DEF DiffersSoFar
  <2>6. flagged' = IF Different(Current(1), Current(i))
                     THEN flagged \cup {value_index} ELSE flagged
    BY <1>2 DEF CompareWithLeader, GenerateReport, history
  <2>7. flagged' = {v \in 0 .. value_index - 1 : DiffersAt(doc, v)}
                     \cup (IF DiffersSoFar' THEN {value_index} ELSE {})
    BY <2>1, <2>5, <2>6 DEF FlaggedSoFar
  <2>8. QED
    BY <2>1, <2>7, SameStreams DEF FlaggedSoFar, DifferencesFlagged
<1>3. CASE AdvanceLeader
  <2>1. /\ doc' = doc /\ parsers' = parsers /\ pc' = "compare" /\ pc = "compare"
        /\ value_index' = value_index + 1 /\ to_reverse' = to_reverse /\ i' = 2
        /\ flagged' = flagged /\ AllCompared /\ ~AtEnd
    BY <1>3 DEF AdvanceLeader, AllCompared, InRound, random_json, history
  <2>2. value_index \in Nat /\ 1 \in Parser /\ position[1] = value_index
    BY <2>1 DEF IInv, TypeOK, Idle, Parser, Lockstep
  <2>3. \A u \in 0 .. value_index' - 1 :
          ValueAt(doc, 1, u).type # "end_of_document"
    <3>1. ValueAt(doc, 1, value_index).type # "end_of_document"
      BY <2>1, <2>2 DEF AtEnd, Current
    <3>2. \A u \in 0 .. value_index - 1 :
            ValueAt(doc, 1, u).type # "end_of_document"
      BY <2>1 DEF FlaggedSoFar
    <3>3. QED
      BY <2>1, <2>2, <3>1, <3>2
  <2>4. flagged' = {v \in 0 .. value_index' - 1 : DiffersAt(doc, v)}
    BY <2>1, <2>2, AllParsersCompared
  <2>5. ~DiffersSoFar'
    BY <2>1 DEF DiffersSoFar
  <2>6. QED
    BY <2>1, <2>3, <2>4, <2>5, SameStreams DEF FlaggedSoFar, DifferencesFlagged
<1>4. CASE StopComparing
  <2>1. /\ doc' = doc /\ parsers' = parsers /\ pc' = "mutate" /\ pc = "compare"
        /\ to_reverse' = to_reverse /\ flagged' = flagged
    BY <1>4 DEF StopComparing, AllCompared, InRound, Return, random_json, history
  <2>2. value_index \in 0 .. MaxValues /\ 1 \in Parser /\ position[1] = value_index
    BY <2>1 DEF IInv, TypeOK, Idle, Parser, Lockstep
  <2>3. \A u \in 0 .. value_index - 1 :
          ValueAt(doc, 1, u).type # "end_of_document"
    BY <2>1 DEF FlaggedSoFar
  <2>4. flagged = {v \in Compared(doc) : DiffersAt(doc, v)}
    <3>1. CASE AllCompared /\ AtEnd
      <4>1. ValueAt(doc, 1, value_index).type = "end_of_document"
        BY <2>2, <3>1 DEF AtEnd, Current
      <4>2. value_index < MaxValues
        BY <3>1 DEF AllCompared, InRound, MoreValues
      <4>3. Compared(doc) = 0 .. value_index
        BY <2>2, <2>3, <4>1, <4>2, BoundsAssumption DEF Compared
      <4> QED
        BY <3>1, <4>3, AllParsersCompared
    <3>2. CASE ~MoreValues
      <4>1. value_index = MaxValues /\ i = 2
        BY <2>1, <2>2, <3>2, BoundsAssumption DEF MoreValues, IInv, Idle
      <4>2. ~DiffersSoFar
        BY <4>1 DEF DiffersSoFar
      <4>3. Compared(doc) = 0 .. value_index - 1
        BY <2>2, <2>3, <4>1, BoundsAssumption DEF Compared
      <4> QED
        BY <2>1, <4>2, <4>3 DEF FlaggedSoFar
    <3> QED
      BY <1>4, <3>1, <3>2 DEF StopComparing
  <2>5. QED
    BY <2>1, <2>4, SameStreams DEF FlaggedSoFar, DifferencesFlagged
<1>5. CASE Save
  BY <1>5 DEF Save, FlaggedSoFar, DifferencesFlagged
<1>6. CASE ParseNext
  BY <1>6 DEF ParseNext, history, FlaggedSoFar, DifferencesFlagged
<1>7. CASE ReportDisagreement
  BY <1>7 DEF ReportDisagreement, Return, FlaggedSoFar, DifferencesFlagged
<1>8. CASE GiveUpRejected
  BY <1>8 DEF GiveUpRejected, Return, FlaggedSoFar, DifferencesFlagged
<1>9. CASE Tick \/ UNCHANGED vars
  <2>1. /\ doc' = doc /\ parsers' = parsers /\ pc' = pc /\ i' = i
        /\ value_index' = value_index /\ to_reverse' = to_reverse
        /\ flagged' = flagged
    BY <1>9 DEF Tick, vars, random_json, locals, comparison, history
  <2>2. DiffersSoFar' <=> DiffersSoFar
    BY <2>1, SameStreams DEF DiffersSoFar
  <2>3. QED
    BY <2>1, <2>2, SameStreams DEF FlaggedSoFar, DifferencesFlagged
<1>10. CASE AddParser \/ Fuzz \/ Mutate \/ Finish \/ NoParser \/ ScanRunsAway
  <2>1. pc' \notin {"parse", "compare", "mutate"}
    BY <1>10 DEF AddParser, Fuzz, Mutate, Finish, NoParser, ScanRunsAway
  <2>2. QED
    BY <2>1 DEF FlaggedSoFar, DifferencesFlagged
<1>11. QED
  BY <1>1, <1>2, <1>3, <1>4, <1>5, <1>6, <1>7, <1>8, <1>9, <1>10
     DEF Next, Step, Terminated

\* Nothing is compared at first.
LEMMA InitFlagged == Init => FlaggedSoFar
  BY DEF Init, FlaggedSoFar, DifferencesFlagged

-----------------------------------------------------------------------------
(***************************************************************************)
(* What becomes of the documents generate_report is called with.           *)
(***************************************************************************)

\* Only a rapidjson parser knows problems.
NoRapidjson == \A k \in Parser : parsers[k] # "rapidjson"

\* Without rapidjson, every flagged document has its report at once, and a
\* process that has given up has its own among the files.
ReportedSoFar ==
  /\ pc = "setup" => flagged = {}
  /\ pc = "parse" => flagged = {}
  /\ NoRapidjson /\ pc \in {"compare", "mutate", "aborted"} /\ flagged # {} =>
       \E r \in generated : r.round = no_mutation
  /\ AbortIsReported

\* generate_report either knows the problem, which takes a rapidjson parser, or
\* leaves a report on this round's document in the files of this second.
LEMMA ReportWritten ==
  ASSUME TypeOK, NEW index \in Nat \cup {-1}, GenerateReport(index),
         ~IsKnownProblem
  PROVE  /\ \E r \in generated' : r.round = no_mutation
         /\ now' = now
         /\ now \in 0 .. now
         /\ reports'[now] \in generated'
         /\ reports'[now].doc = doc
<1> DEFINE report == [round |-> no_mutation, doc |-> doc, index |-> index]
<1>1. /\ reports' = [reports EXCEPT ![now] = report]
      /\ generated' = generated \cup {report}
      /\ now' = now
  BY DEF GenerateReport, WriteReport
<1>2. now \in 0 .. MaxTime /\ now \in 0 .. now /\ reports'[now] = report
  BY <1>1, BoundsAssumption DEF TypeOK
<1>3. report.round = no_mutation /\ report.doc = doc
  OBVIOUS
<1>4. QED
  BY <1>1, <1>2, <1>3

\* Every step keeps account of what has been reported.
LEMMA NextReported == IInv /\ ReportedSoFar /\ [Next]_vars => ReportedSoFar'
<1> SUFFICES ASSUME IInv, ReportedSoFar, [Next]_vars PROVE ReportedSoFar'
  OBVIOUS
<1>1. ASSUME parsers' = parsers
      PROVE  (NoRapidjson' <=> NoRapidjson) /\ (NoRapidjson => ~IsKnownProblem)
  BY <1>1 DEF NoRapidjson, IsKnownProblem, Parser
<1>2. CASE AddParser \/ Fuzz \/ Finish \/ ParseNext \/ NoParser \/ ScanRunsAway
  <2>1. /\ pc' \notin {"compare", "mutate", "aborted"}
        /\ flagged' = flagged
        /\ pc' \in {"setup", "parse"} => pc = pc'
    BY <1>2 DEF AddParser, Fuzz, Finish, ParseNext, NoParser, ScanRunsAway,
                history
  <2>2. QED
    BY <2>1 DEF ReportedSoFar, AbortIsReported
<1>3. CASE Save \/ Mutate
  BY <1>3 DEF Save, Mutate, ReportedSoFar, AbortIsReported
<1>4. CASE StartComparing
  BY <1>4 DEF StartComparing, AllParsed, history, ReportedSoFar, AbortIsReported
<1>5. CASE AdvanceLeader \/ StopComparing
  <2>1. /\ parsers' = parsers /\ pc = "compare" /\ pc' \in {"compare", "mutate"}
        /\ flagged' = flagged /\ generated' = generated
        /\ no_mutation' = no_mutation
    BY <1>5 DEF AdvanceLeader, StopComparing, AllCompared, InRound, Return, history
  <2>2. QED
    BY <1>1, <2>1 DEF ReportedSoFar, AbortIsReported
<1>6. CASE CompareWithLeader
  <2>1. /\ parsers' = parsers /\ pc' = "compare" /\ pc = "compare"
        /\ no_mutation' = no_mutation
    BY <1>6 DEF CompareWithLeader, InRound
  <2>2. CASE UNCHANGED <<files, history>>
    BY <1>1, <2>1, <2>2 DEF history, ReportedSoFar, AbortIsReported
  <2>3. CASE GenerateReport(value_index)
    <3>1. NoRapidjson => \E r \in generated' : r.round = no_mutation
      BY <1>1, <2>1, <2>3, ReportWritten DEF IInv, TypeOK
    <3>2. QED
      BY <1>1, <2>1, <3>1 DEF ReportedSoFar, AbortIsReported
  <2>4. QED
    BY <1>6, <2>2, <2>3 DEF CompareWithLeader
<1>7. CASE ReportDisagreement \/ GiveUpRejected
  <2>1. /\ parsers' = parsers /\ no_mutation' = no_mutation /\ pc = "parse"
        /\ pc' \in {"mutate", "aborted"}
        /\ pc' = "aborted" => doc' = doc /\ parsing_state' = parsing_state
    BY <1>7 DEF ReportDisagreement, GiveUpRejected, Disagree, AllReject,
                AllParsed, Return, random_json, comparison
  <2>2. CASE GenerateReport(-1)
    <3>1. ~IsKnownProblem =>
            /\ \E r \in generated' : r.round = no_mutation
            /\ now' = now
            /\ now \in 0 .. now
            /\ reports'[now] \in generated'
            /\ reports'[now].doc = doc
      BY <2>2, ReportWritten DEF IInv
    <3>2. pc' = "aborted" => (IsKnownProblem' <=> IsKnownProblem)
      BY <2>1 DEF IsKnownProblem, Parser
    <3>3. AbortIsReported'
      BY <2>1, <3>1, <3>2 DEF AbortIsReported
    <3>4. QED
      BY <1>1, <2>1, <3>1, <3>3 DEF ReportedSoFar
  <2>3. CASE UNCHANGED <<files, history>> /\ pc' = "mutate"
    BY <2>1, <2>3 DEF history, ReportedSoFar, AbortIsReported
  <2>4. QED
    BY <1>7, <2>2, <2>3
       DEF ReportDisagreement, GiveUpRejected, ReportGenerator, Return
<1>8. CASE Tick \/ UNCHANGED vars
  <2>1. /\ parsers' = parsers /\ pc' = pc /\ flagged' = flagged
        /\ generated' = generated /\ no_mutation' = no_mutation
        /\ doc' = doc /\ reports' = reports
        /\ parsing_state' = parsing_state
        /\ now' = now \/ now' = now + 1
    BY <1>8 DEF Tick, vars, random_json, locals, comparison, files, history
  <2>2. IsKnownProblem' <=> IsKnownProblem
    BY <2>1 DEF IsKnownProblem, Parser
  <2>3. \A t \in 0 .. now : t \in 0 .. now'
    BY <2>1 DEF IInv, TypeOK
  <2>4. AbortIsReported'
    BY <2>1, <2>2, <2>3 DEF ReportedSoFar, AbortIsReported
  <2>5. QED
    BY <1>1, <2>1, <2>4 DEF ReportedSoFar
<1>9. QED
  BY <1>2, <1>3, <1>4, <1>5, <1>6, <1>7, <1>8 DEF Next, Step, Terminated

\* Nothing is flagged at first.
LEMMA InitReported == Init => ReportedSoFar
  BY DEF Init, ReportedSoFar, AbortIsReported

\* No report exists before the fuzz begins, and all that exist are true.
TrueSoFar == (pc = "setup" => generated = {}) /\ ReportsAreTrue

\* Every step writes true reports only.
LEMMA NextTrue == IInv /\ TrueSoFar /\ [Next]_vars => TrueSoFar'
<1> SUFFICES ASSUME IInv, TrueSoFar, [Next]_vars PROVE TrueSoFar'
  OBVIOUS
<1>1. ASSUME parsers' = parsers, pc # "setup", pc' # "setup",
             \A r \in generated' \ generated :
               IF r.index = -1 THEN ~Accepted(r.doc) ELSE DiffersAt(r.doc, r.index)
      PROVE  TrueSoFar'
  BY <1>1 DEF TrueSoFar, ReportsAreTrue, Accepted, DiffersAt, ValueAt, Parser
<1>2. CASE AddParser \/ Fuzz
  BY <1>2 DEF AddParser, Fuzz, history, TrueSoFar, ReportsAreTrue
<1>3. CASE \/ Save \/ Mutate \/ Finish \/ ParseNext \/ NoParser \/ StartComparing
           \/ AdvanceLeader \/ StopComparing \/ ScanRunsAway
  <2>1. /\ parsers' = parsers /\ generated' = generated
        /\ pc # "setup" /\ pc' # "setup"
    BY <1>3 DEF Save, Mutate, Finish, ParseNext, NoParser, StartComparing,
                AllParsed, AdvanceLeader, StopComparing, AllCompared, InRound,
                Return, ScanRunsAway, ReportDue, Disagree, AllReject, history
  <2> QED
    BY <1>1, <2>1
<1>4. CASE CompareWithLeader
  <2>1. /\ parsers' = parsers /\ pc = "compare" /\ pc' = pc
        /\ i \in Parser /\ i # 1 /\ 1 \in Parser /\ value_index \in Nat
    BY <1>4 DEF CompareWithLeader, InRound, IInv, TypeOK, Idle, Parser
  <2>2. CASE UNCHANGED <<files, history>>
    BY <1>1, <2>1, <2>2 DEF history
  <2>3. CASE GenerateReport(value_index) /\ Different(Current(1), Current(i))
    <3>1. position[1] = value_index /\ position[i] = value_index
      <4>1. ~(1 < i /\ i < i) /\ ~(1 < 1 /\ 1 < i)
        BY <2>1 DEF Parser
      <4>2. \A k \in Parser :
              position[k] = IF 1 < k /\ k < i THEN value_index + 1
                                             ELSE value_index
        BY <2>1 DEF IInv, Lockstep
      <4> QED
        BY <2>1, <4>1, <4>2
    <3>2. DiffersAt(doc, value_index)
      BY <2>1, <2>3, <3>1 DEF DiffersAt, Current
    <3>3. \A r \in generated' \ generated : r.doc = doc /\ r.index = value_index
      <4>1. TypeOK /\ value_index \in Nat \cup {-1}
        BY <2>1 DEF IInv
      <4> QED
        BY <2>3, <4>1, ReportStep
    <3> QED
      BY <1>1, <2>1, <3>2, <3>3
  <2> QED
    BY <1>4, <2>2, <2>3 DEF CompareWithLeader
<1>5. CASE ReportDisagreement \/ GiveUpRejected
  <2>1. /\ parsers' = parsers /\ pc = "parse" /\ pc' \in {"mutate", "aborted"}
        /\ AllParsed /\ \E k \in Parser : parsing_state[k] # "ok"
    BY <1>5 DEF ReportDisagreement, GiveUpRejected, Disagree, AllReject,
                AllParsed, StatesAreSame, Return, Parser, IInv, TypeOK
  <2>2. ~Accepted(doc)
    BY <2>1 DEF IInv, Parsed, AllParsed, Accepted, Parser, TypeOK
  <2>3. CASE UNCHANGED <<files, history>>
    BY <1>1, <2>1, <2>3 DEF history
  <2>4. CASE GenerateReport(-1)
    <3>1. \A r \in generated' \ generated : r.doc = doc /\ r.index = -1
      BY <2>4, ReportStep DEF IInv
    <3> QED
      BY <1>1, <2>1, <2>2, <3>1
  <2> QED
    BY <1>5, <2>3, <2>4 DEF ReportDisagreement, GiveUpRejected, ReportGenerator
<1>6. CASE Tick \/ UNCHANGED vars
  <2>1. parsers' = parsers /\ pc' = pc /\ generated' = generated
    BY <1>6 DEF Tick, vars, history
  <2> QED
    BY <2>1 DEF TrueSoFar, ReportsAreTrue, Accepted, DiffersAt, ValueAt, Parser
<1>7. QED
  BY <1>2, <1>3, <1>4, <1>5, <1>6 DEF Next, Step, Terminated

\* Nothing is reported at first.
LEMMA InitTrue == Init => TrueSoFar
  BY DEF Init, TrueSoFar, ReportsAreTrue

-----------------------------------------------------------------------------
(***************************************************************************)
(* The properties of FuzzyJson, for every value of its constants.          *)
(***************************************************************************)

\* Every mutation starts from a document all parsers accept: a disputed or
\* rejected one is always replaced first (compare_parsing, reverse_mutation).
THEOREM KeepsAcceptedAlways == Spec => []KeepsAccepted
<1>1. IInv => KeepsAccepted
  BY DEF IInv, Fallback, KeepsAccepted
<1>2. QED  BY <1>1, Invariance, PTL

\* std::abort is reached before the first mutation or not at all, whether or
\* not the generator uncounts the mutations it reverses.
THEOREM AbortsOnlyAtStartAlways == Spec => []AbortsOnlyAtStart
<1>1. IInv => AbortsOnlyAtStart
  BY DEF IInv, Fallback
<1>2. QED  BY <1>1, Invariance, PTL

\* A process that dies leaves the document it died on in temp-<id>.json.
THEOREM EvidenceKeptAlways == Spec => []EvidenceKept
<1>1. IInv => EvidenceKept
  BY DEF IInv, Copied, EvidenceKept
<1>2. QED  BY <1>1, Invariance, PTL

\* No mismatch, of types or of values, puts the traversers out of step.
THEOREM LockstepAlways == Spec => []Lockstep
<1>1. IInv => Lockstep
  BY DEF IInv
<1>2. QED  BY <1>1, Invariance, PTL

\* generate_report is called for exactly the values that differ from the
\* leader's, whatever the streams and however many parsers there are.
THEOREM DifferencesFlaggedAlways == Spec => []DifferencesFlagged
<1>1. FlaggedSoFar => DifferencesFlagged
  BY DEF FlaggedSoFar
<1>2. QED  BY <1>1, InitFlagged, NextFlagged, Invariance, PTL DEF Spec

\* A report never names a document, or an index of it, on which the parsers
\* agree: it is about the document at hand before it is reversed, and the values
\* that were compared.
THEOREM ReportsAreTrueAlways == Spec => []ReportsAreTrue
<1>1. TrueSoFar => ReportsAreTrue
  BY DEF TrueSoFar
<1>2. QED  BY <1>1, InitTrue, NextTrue, Invariance, PTL DEF Spec

\* Without rapidjson among the parsers, every document generate_report is
\* called on has a report by the time compare_parsing is over.
THEOREM ReportedAlways == Spec => []ReportedWithoutRapidjson
<1>1. ReportedSoFar => ReportedWithoutRapidjson
  BY DEF ReportedSoFar, ReportedWithoutRapidjson, EveryDifferenceReported,
         NoRapidjson
<1>2. QED  BY <1>1, InitReported, NextReported, Invariance, PTL DEF Spec

\* A process that gives up on a document no rapidjson parser accepts leaves
\* that document among its reports.
THEOREM AbortIsReportedAlways == Spec => []AbortIsReported
<1>1. ReportedSoFar => AbortIsReported
  BY DEF ReportedSoFar
<1>2. QED  BY <1>1, InitReported, NextReported, Invariance, PTL DEF Spec

-----------------------------------------------------------------------------
(***************************************************************************)
(* The process implements the session.                                     *)
(***************************************************************************)

\* Which documents are accepted depends on the parsers alone.
LEMMA SameAccepted ==
  ASSUME parsers' = parsers
  PROVE  {d \in Doc : Accepted(d)}' = {d \in Doc : Accepted(d)}
  BY DEF Accepted, Parser

\* The process starts where the session does: no parser has joined yet, so
\* every document counts as accepted.
LEMMA InitSession == Init => Session!Init
<1> SUFFICES ASSUME Init PROVE Session!Init
  OBVIOUS
<1>1. {d \in Doc : Accepted(d)} = Doc
  BY DEF Init, Accepted, Parser
<1>2. QED
  BY <1>1 DEF Init, Session!Init, Phase

\* Every step is a step of the session, or leaves the session as it is.
LEMMA StepSession == IInv /\ [Next]_vars => [Session!Next]_(Session!vars)
<1> SUFFICES ASSUME IInv, [Next]_vars
             PROVE  Session!Next \/ UNCHANGED Session!vars
  OBVIOUS
<1> USE DEF Phase
<1>1. CASE AddParser
  <2>1. \A d \in Doc : Accepted(d)' => Accepted(d)
    <3>1. PICK name \in ParserName : parsers' = Append(parsers, name)
      BY <1>1 DEF AddParser
    <3>2. parsers \in Seq(ParserName)
      BY DEF IInv, TypeOK
    <3>3. \A k \in Parser : k \in Parser' /\ parsers'[k] = parsers[k]
      BY <3>1, <3>2 DEF Parser
    <3>4. QED
      BY <3>3 DEF Accepted
  <2>2. Session!Join
    BY <1>1, <2>1 DEF AddParser, Session!Join, random_json, files
  <2>3. QED
    BY <2>2 DEF Session!Next
<1>2. ASSUME parsers' = parsers
      PROVE  {d \in Doc : Accepted(d)}' = {d \in Doc : Accepted(d)}
  BY <1>2, SameAccepted
<1>3. CASE Fuzz
  BY <1>2, <1>3 DEF Fuzz, random_json, files, Session!Start, Session!Next
<1>4. CASE Save
  <2>1. no_mutation < MaxMutations
    BY <1>4, BoundsAssumption DEF Save, IInv, TypeOK
  <2>2. Session!Save
    BY <1>2, <1>4, <2>1 DEF Save, SaveCopy, random_json, Session!Save
  <2>3. QED  BY <2>2 DEF Session!Next
<1>5. CASE Mutate
  BY <1>2, <1>5 DEF Mutate, CountMutation, files, Session!Mutate, Session!Next
<1>6. CASE Finish
  BY <1>2, <1>6
     DEF Finish, RemoveCopy, random_json, Session!Finish, Session!Next
<1>7. CASE ParseNext
  <2>1. CASE pc' = "crashed"
    BY <1>2, <1>7, <2>1
       DEF ParseNext, random_json, files, Session!Die, Session!Next
  <2>2. CASE pc' # "crashed"
    BY <1>2, <1>7, <2>2 DEF ParseNext, random_json, files, Session!vars
  <2>3. QED  BY <2>1, <2>2
<1>8. CASE NoParser
  BY <1>2, <1>8 DEF NoParser, random_json, files, Session!Die, Session!Next
<1>9. CASE ScanRunsAway
  <2>1. pc \in {"parse", "compare"}
    BY <1>9 DEF ScanRunsAway, ReportDue, Disagree, AllReject, AllParsed, InRound
  <2>2. QED
    BY <1>2, <1>9, <2>1
       DEF ScanRunsAway, random_json, files, Session!Die, Session!Next
<1>10. CASE ReportDisagreement \/ GiveUpRejected
  <2>1. parsers' = parsers /\ no_mutation' = no_mutation /\ pc = "parse"
    BY <1>10
       DEF ReportDisagreement, GiveUpRejected, Disagree, AllReject, AllParsed
  <2>2. doc \in Doc /\ ~Accepted(doc)
    <3>1. PICK k \in Parser : parsing_state[k] # "ok"
      BY <1>10 DEF ReportDisagreement, GiveUpRejected, Disagree, AllReject,
         AllParsed, StatesAreSame, IInv, TypeOK, Parser
    <3>2. parsing_state[k] = Verdict[doc][parsers[k]]
      BY <1>10, <2>1, <3>1
         DEF ReportDisagreement, GiveUpRejected, Disagree, AllReject, AllParsed,
             IInv, Parsed, TypeOK, Parser
    <3>3. QED
      BY <3>1, <3>2 DEF IInv, TypeOK, Accepted
  <2>3. temp' = temp
    <3>1. CASE UNCHANGED files
      BY <3>1 DEF files
    <3>2. CASE GenerateReport(-1)
      BY <3>2, ReportStep DEF IInv
    <3>3. QED
      BY <1>10, <3>1, <3>2
         DEF ReportDisagreement, GiveUpRejected, ReportGenerator
  <2>4. CASE NothingToReverse
    <3>1. /\ pc' = "aborted" /\ UNCHANGED random_json /\ no_mutation = 0
      BY <1>10, <2>1, <2>4
         DEF ReportDisagreement, GiveUpRejected, NothingToReverse, IInv, Counted
    <3>2. Session!GiveUp
      BY <1>2, <2>1, <2>2, <2>3, <3>1 DEF Session!GiveUp, random_json
    <3>3. QED  BY <3>2 DEF Session!Next
  <2>5. CASE ~NothingToReverse
    <3>1. /\ pc' = "mutate" /\ doc' = previous /\ previous' = previous
      BY <1>10, <2>5
         DEF ReportDisagreement, GiveUpRejected, ReverseMutation, Return
    <3>2. no_mutation > 0
      BY <2>5 DEF NothingToReverse, IInv, Counted, TypeOK
    <3>3. Session!Revert
      BY <1>2, <2>1, <2>2, <2>3, <3>1, <3>2 DEF Session!Revert
    <3>4. QED  BY <3>3 DEF Session!Next
  <2>6. QED  BY <2>4, <2>5
<1>11. CASE StartComparing
  BY <1>2, <1>11 DEF StartComparing, AllParsed, random_json, files, Session!vars
<1>12. CASE CompareWithLeader
  <2>1. temp' = temp
    <3>1. CASE UNCHANGED <<files, history>>
      BY <3>1 DEF files
    <3>2. CASE GenerateReport(value_index)
      BY <3>2, ReportStep DEF IInv, TypeOK
    <3>3. QED
      BY <1>12, <3>1, <3>2 DEF CompareWithLeader
  <2>2. QED
    BY <1>2, <1>12, <2>1 DEF CompareWithLeader, InRound, random_json, Session!vars
<1>13. CASE AdvanceLeader
  BY <1>2, <1>13
     DEF AdvanceLeader, AllCompared, InRound, random_json, files, Session!vars
<1>14. CASE StopComparing
  <2>1. doc \in {d \in Doc : Accepted(d)}
    BY <1>14 DEF StopComparing, AllCompared, InRound, IInv, TypeOK, Fallback
  <2>2. Session!Keep
    BY <1>2, <1>14, <2>1
       DEF StopComparing, AllCompared, InRound, Return, random_json, files,
           Session!Keep
  <2>3. QED  BY <2>2 DEF Session!Next
<1>15. CASE Tick \/ UNCHANGED vars
  BY <1>2, <1>15 DEF Tick, vars, random_json, files, Session!vars
<1>16. QED
  BY <1>1, <1>3, <1>4, <1>5, <1>6, <1>7, <1>8, <1>9, <1>10, <1>11, <1>12,
     <1>13, <1>14, <1>15 DEF Next, Step, Terminated

\* Comparing the parsers step by step, reporting and the clock never do
\* anything the session of module FuzzSession does not allow.
THEOREM Refinement == Spec => ImplementsSession
  BY InitSession, StepSession, Invariance, PTL
     DEF Spec, ImplementsSession, Session!Spec
=============================================================================
