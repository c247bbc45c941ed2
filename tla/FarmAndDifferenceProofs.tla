---------------------- MODULE FarmAndDifferenceProofs ----------------------
(***************************************************************************)
(* Proofs about what surrounds the fuzz loop: the processes run.py starts  *)
(* (FuzzyFarm), and the two questions a process asks about a difference:   *)
(* are two floatings the same (FloatingComparison), and is it one rapidjson*)
(* is known for (KnownProblem). The three share nothing but this module.   *)
(*                                                                         *)
(* FuzzyFarm, for any number of processes, ids, rounds, reports and        *)
(* seconds: a process that shares its id with no other is left alone by    *)
(* every step of the others (OthersKeepOut), and what it does to its own   *)
(* files is right from one system call to the next, which CopyInv and      *)
(* ReportInv spell out for every place of fuzz().                          *)
(***************************************************************************)
EXTENDS FuzzyFarm, FloatingComparison, KnownProblem, TLAPS

-----------------------------------------------------------------------------
(***************************************************************************)
(* The inductive invariants.                                               *)
(***************************************************************************)

\* A process inside the loop has not had its last round.
RoundsLeft ==
  \A p \in Process : pc[p] \notin {"save", "done"} => round[p] # MaxMutations

TypeInv == TypeOK /\ RoundsLeft

Holding == {"parse", "complain", "compare"} \cup Reporting
CopyInv ==
  \A p \in Process : Alone(p) =>
    /\ pc[p] = "write_copy" => temp[id[p]] = {}
    /\ pc[p] \in Holding => temp[id[p]] = {DocOf(p)}

\* The two files of one name.
Paired(p, t) ==
  \/ /\ fuzzyreport[<<id[p], t>>] = NoFile
     /\ reportedjson[<<id[p], t>>] = NoFile
  \/ \E n \in 0 .. round[p] :
       /\ fuzzyreport[<<id[p], t>>] = {<<p, n>>}
       /\ reportedjson[<<id[p], t>>] = {<<p, n>>}

Torn == {"write_report", "save_json", "write_json"}
ReportInv ==
  \A p \in Process : Alone(p) =>
    /\ \A t \in 0 .. MaxTime : (pc[p] \in Torn => t # stamp[p]) => Paired(p, t)
    /\ pc[p] = "write_report" => fuzzyreport[ReportName(p)] = {}
    /\ pc[p] \in {"save_json", "write_json"} =>
         fuzzyreport[ReportName(p)] = {DocOf(p)}
    /\ pc[p] = "write_json" => reportedjson[ReportName(p)] = {}

-----------------------------------------------------------------------------
(***************************************************************************)
(* Types.                                                                  *)
(***************************************************************************)

LEMMA FileFacts ==
  ASSUME TypeOK, NEW p \in Process
  PROVE  /\ id[p] \in Id /\ stamp[p] \in 0 .. MaxTime
         /\ ReportName(p) \in Name
         /\ DocOf(p) \in Document
         /\ Opened \in File
         /\ \A file \in File : Written(file, DocOf(p)) \in File
<1>1. MaxTime \in Nat /\ now \in 0 .. MaxTime /\ stamp[p] \in 0 .. now
  BY FarmAssumption DEF TypeOK
<1>2. id[p] \in Id /\ stamp[p] \in 0 .. MaxTime
  BY <1>1 DEF TypeOK
<1>3. ReportName(p) \in Name
  BY <1>2 DEF ReportName, Name
<1>4. DocOf(p) \in Document
  BY DEF DocOf, Document, TypeOK
<1>5. Opened \in File
  BY DEF Opened, File
<1>6. \A file \in File : Written(file, DocOf(p)) \in File
  BY <1>4 DEF Written, File
<1> QED
  BY <1>2, <1>3, <1>4, <1>5, <1>6

LEMMA TypeStep == TypeInv /\ [Next]_vars => TypeInv'
<1> SUFFICES ASSUME TypeInv, [Next]_vars PROVE TypeInv'
  OBVIOUS
<1> USE DEF TypeInv
<1>1. TypeOK /\ RoundsLeft
  OBVIOUS
<1>2. ASSUME NEW p \in Process, OpenCopy(p) PROVE TypeInv'
  BY <1>1, <1>2, FileFacts, FarmAssumption
     DEF OpenCopy, At, Goto, CopyName, MoreMutations, TypeOK, RoundsLeft, Location
<1>3. ASSUME NEW p \in Process, WriteCopy(p) PROVE TypeInv'
  BY <1>1, <1>3, FileFacts
     DEF WriteCopy, At, Goto, CopyName, TypeOK, RoundsLeft, Location
<1>4. ASSUME NEW p \in Process, Parsed(p) PROVE TypeInv'
  BY <1>1, <1>4 DEF Parsed, At, Goto, files, TypeOK, RoundsLeft, Location
<1>5. ASSUME NEW p \in Process, Mutate(p) PROVE TypeInv'
  BY <1>1, <1>5, FarmAssumption
     DEF Mutate, CountMutation, At, Goto, files, TypeOK, RoundsLeft, Location
<1>6. ASSUME NEW p \in Process, Finish(p) PROVE TypeInv'
  BY <1>1, <1>6
     DEF Finish, At, Goto, CopyName, File, TypeOK, RoundsLeft, Location
<1>7. ASSUME NEW p \in Process, BeginReport(p) PROVE TypeInv'
  BY <1>1, <1>7, FarmAssumption
     DEF BeginReport, At, Goto, files, TypeOK, RoundsLeft, Location, Reporting
<1>8. ASSUME NEW p \in Process, OpenReport(p) PROVE TypeInv'
  BY <1>1, <1>8, FileFacts
     DEF OpenReport, At, Goto, TypeOK, RoundsLeft, Location, Reporting
<1>9. ASSUME NEW p \in Process, WriteReport(p) PROVE TypeInv'
  BY <1>1, <1>9, FileFacts
     DEF WriteReport, At, Goto, TypeOK, RoundsLeft, Location, Reporting
<1>10. ASSUME NEW p \in Process, OpenJson(p) PROVE TypeInv'
  BY <1>1, <1>10, FileFacts
     DEF OpenJson, JsonName, ReportName, At, Goto, TypeOK, RoundsLeft, Location,
         Reporting
<1>11. ASSUME NEW p \in Process, WriteJson(p) PROVE TypeInv'
  BY <1>1, <1>11, FileFacts
     DEF WriteJson, JsonName, ReportName, At, Goto, TypeOK, RoundsLeft, Location
<1>12. ASSUME NEW p \in Process, FailToAllocate(p) PROVE TypeInv'
  BY <1>1, <1>12 DEF FailToAllocate, At, Goto, files, TypeOK, RoundsLeft, Location
<1>13. ASSUME NEW p \in Process, Complain(p) PROVE TypeInv'
  BY <1>1, <1>13, FarmAssumption
     DEF Complain, At, Goto, files, TypeOK, RoundsLeft, Location
<1>14. ASSUME NEW p \in Process, Die(p) \/ RunnerReturns(p) PROVE TypeInv'
  BY <1>1, <1>14 DEF Die, RunnerReturns, files, TypeOK, RoundsLeft
<1>15. CASE Tick
  BY <1>1, <1>15, FarmAssumption DEF Tick, files, TypeOK, RoundsLeft
<1>16. CASE UNCHANGED vars
  BY <1>1, <1>16 DEF vars, files, TypeOK, RoundsLeft
<1> QED
  BY <1>2, <1>3, <1>4, <1>5, <1>6, <1>7, <1>8, <1>9, <1>10, <1>11, <1>12,
     <1>13, <1>14, <1>15, <1>16 DEF Next, Step, AllReturned

-----------------------------------------------------------------------------
(***************************************************************************)
(* Who touches what.                                                       *)
(***************************************************************************)

\* What Alone(q) protects.
LeftAlone(q) ==
  /\ pc'[q] = pc[q] /\ round'[q] = round[q] /\ stamp'[q] = stamp[q]
  /\ temp'[id[q]] = temp[id[q]]
  /\ \A t \in 0 .. MaxTime :
       /\ fuzzyreport'[<<id[q], t>>] = fuzzyreport[<<id[q], t>>]
       /\ reportedjson'[<<id[q], t>>] = reportedjson[<<id[q], t>>]

LEMMA OthersKeepOut ==
  ASSUME TypeInv, NEW p \in Process, NEW q \in Process, p # q, Alone(q), Step(p)
  PROVE  LeftAlone(q)
<1>1. id[p] # id[q]
  BY DEF Alone
<1>2. id[q] \in Id /\ \A t \in 0 .. MaxTime : <<id[q], t>> \in Name
  BY DEF TypeInv, TypeOK, Name
<1>3. TypeOK
  BY DEF TypeInv
<1>4. \A t \in 0 .. MaxTime : ReportName(p) # <<id[q], t>>
  BY <1>1 DEF ReportName
<1>5. CASE OpenCopy(p) \/ WriteCopy(p) \/ Finish(p)
  BY <1>1, <1>2, <1>3, <1>5
     DEF OpenCopy, WriteCopy, Finish, Goto, CopyName, LeftAlone, TypeOK
<1>6. CASE Parsed(p) \/ Mutate(p) \/ FailToAllocate(p) \/ Complain(p)
             \/ BeginReport(p)
  BY <1>2, <1>3, <1>6
     DEF Parsed, Mutate, CountMutation, FailToAllocate, Complain, BeginReport,
         Goto, files, LeftAlone, TypeOK
<1>7. CASE OpenReport(p) \/ WriteReport(p)
  BY <1>2, <1>3, <1>4, <1>7
     DEF OpenReport, WriteReport, Goto, LeftAlone, TypeOK
<1>8. CASE OpenJson(p) \/ WriteJson(p)
  BY <1>2, <1>3, <1>4, <1>8
     DEF OpenJson, WriteJson, JsonName, ReportName, Goto, LeftAlone, TypeOK
<1> QED
  BY <1>5, <1>6, <1>7, <1>8 DEF Step

\* So does everything but a step of the process itself.
LEMMA ElseKeepsOut ==
  ASSUME TypeInv, [Next]_vars, NEW q \in Process, Alone(q), ~Step(q)
  PROVE  LeftAlone(q)
<1>1. ASSUME NEW p \in Process, Step(p) PROVE LeftAlone(q)
  BY <1>1, OthersKeepOut
<1>2. ASSUME NEW p \in Process, Die(p) \/ RunnerReturns(p) PROVE LeftAlone(q)
  BY <1>2 DEF Die, RunnerReturns, files, LeftAlone
<1>3. CASE Tick \/ UNCHANGED vars
  BY <1>3 DEF Tick, vars, files, LeftAlone
<1> QED
  BY <1>1, <1>2, <1>3 DEF Next, AllReturned

LEMMA IdStays == [Next]_vars => id' = id
<1> SUFFICES ASSUME [Next]_vars PROVE id' = id
  OBVIOUS
<1>1. ASSUME NEW p \in Process, Step(p) PROVE id' = id
  BY <1>1
     DEF Step, OpenCopy, WriteCopy, Parsed, Mutate, Finish, BeginReport,
         OpenReport, WriteReport, OpenJson, WriteJson, FailToAllocate,
         Complain, Goto
<1> QED
  BY <1>1 DEF Next, AllReturned, Die, RunnerReturns, Tick, vars

LEMMA AloneStays == [Next]_vars => \A p \in Process : Alone(p)' <=> Alone(p)
BY IdStays DEF Alone

-----------------------------------------------------------------------------
(***************************************************************************)
(* The copy.                                                               *)
(***************************************************************************)

LEMMA CopyStep == TypeInv /\ CopyInv /\ [Next]_vars => CopyInv'
<1> SUFFICES ASSUME TypeInv, CopyInv, [Next]_vars,
                    NEW p \in Process, Alone(p)'
             PROVE  /\ pc'[p] = "write_copy" => temp'[id'[p]] = {}
                    /\ pc'[p] \in Holding => temp'[id'[p]] = {DocOf(p)'}
  BY DEF CopyInv
<1>1. Alone(p) /\ TypeOK /\ id[p] \in Id
  BY AloneStays DEF TypeInv, TypeOK
<1>2. /\ pc[p] = "write_copy" => temp[id[p]] = {}
      /\ pc[p] \in Holding => temp[id[p]] = {DocOf(p)}
  BY <1>1 DEF CopyInv
<1>3. CASE ~Step(p)
  <2>1. LeftAlone(p) /\ id' = id
    BY <1>1, <1>3, ElseKeepsOut, IdStays
  <2> QED
    BY <1>2, <2>1 DEF LeftAlone, DocOf
<1>4. CASE OpenCopy(p)
  BY <1>1, <1>4 DEF OpenCopy, Goto, CopyName, Opened, Holding, Reporting, TypeOK
<1>5. CASE WriteCopy(p)
  <2>1. {} # NoFile
    BY FarmAssumption
  <2> QED
    BY <1>1, <1>2, <1>5, <2>1
       DEF WriteCopy, At, Goto, CopyName, Written, DocOf, TypeOK
<1>6. CASE Mutate(p) \/ Finish(p)
  BY <1>1, <1>6 DEF Mutate, Finish, Goto, Holding, Reporting, TypeOK
<1>7. CASE Parsed(p) \/ FailToAllocate(p) \/ Complain(p) \/ BeginReport(p)
             \/ OpenReport(p) \/ WriteReport(p) \/ OpenJson(p) \/ WriteJson(p)
  <2>1. /\ pc[p] \in Holding /\ temp' = temp /\ round' = round /\ id' = id
        /\ pc'[p] # "write_copy"
    BY <1>1, <1>7
       DEF Parsed, FailToAllocate, Complain, BeginReport, OpenReport,
           WriteReport, OpenJson, WriteJson, At, Goto, files, Holding,
           Reporting, TypeOK
  <2> QED
    BY <1>2, <2>1 DEF DocOf
<1> QED
  BY <1>3, <1>4, <1>5, <1>6, <1>7 DEF Step

-----------------------------------------------------------------------------
(***************************************************************************)
(* The reports.                                                            *)
(***************************************************************************)

\* What ReportInv says of a process.
Reports(p) ==
  /\ \A t \in 0 .. MaxTime : (pc[p] \in Torn => t # stamp[p]) => Paired(p, t)
  /\ pc[p] = "write_report" => fuzzyreport[ReportName(p)] = {}
  /\ pc[p] \in {"save_json", "write_json"} =>
       fuzzyreport[ReportName(p)] = {DocOf(p)}
  /\ pc[p] = "write_json" => reportedjson[ReportName(p)] = {}

\* Steps that leave the reports alone.
LEMMA ReportsKept ==
  ASSUME TypeOK, NEW p \in Process, Reports(p), id' = id,
         pc[p] \notin Torn, pc'[p] \notin Torn, round[p] <= round'[p],
         round'[p] \in Nat,
         UNCHANGED <<fuzzyreport, reportedjson>>
  PROVE  Reports(p)'
<1>1. \A t \in 0 .. MaxTime : Paired(p, t)
  BY DEF Reports
<1>2. 0 .. round[p] \subseteq 0 .. round'[p]
  BY DEF TypeOK
<1>3. \A t \in 0 .. MaxTime : Paired(p, t)'
  BY <1>1, <1>2 DEF Paired
<1> QED
  BY <1>3 DEF Reports, Torn

LEMMA ReportStep == TypeInv /\ ReportInv /\ [Next]_vars => ReportInv'
<1> SUFFICES ASSUME TypeInv, ReportInv, [Next]_vars,
                    NEW p \in Process, Alone(p)'
             PROVE  Reports(p)'
  BY DEF ReportInv, Reports
<1>1. /\ Alone(p) /\ TypeOK /\ id' = id /\ id[p] \in Id
      /\ stamp[p] \in 0 .. MaxTime /\ ReportName(p) \in Name
      /\ round[p] \in Nat
  BY AloneStays, IdStays, FileFacts DEF TypeInv, TypeOK
<1>2. Reports(p)
  BY <1>1 DEF ReportInv, Reports
<1>3. \A t \in 0 .. MaxTime : <<id[p], t>> \in Name
  BY <1>1 DEF Name
<1>4. CASE ~Step(p)
  <2>1. LeftAlone(p)
    BY <1>1, <1>4, ElseKeepsOut
  <2>2. ReportName(p)' = ReportName(p) /\ DocOf(p)' = DocOf(p)
    BY <1>1, <2>1 DEF LeftAlone, ReportName, DocOf
  <2>3. /\ fuzzyreport'[ReportName(p)] = fuzzyreport[ReportName(p)]
        /\ reportedjson'[ReportName(p)] = reportedjson[ReportName(p)]
    BY <1>1, <2>1 DEF LeftAlone, ReportName
  <2>4. \A t \in 0 .. MaxTime : Paired(p, t) => Paired(p, t)'
    BY <1>1, <2>1 DEF LeftAlone, Paired
  <2> QED
    BY <1>2, <2>1, <2>2, <2>3, <2>4 DEF Reports, LeftAlone
<1>5. CASE OpenCopy(p) \/ WriteCopy(p) \/ Finish(p) \/ Parsed(p)
             \/ FailToAllocate(p) \/ Complain(p)
  <2>1. /\ pc[p] \notin Torn /\ pc'[p] \notin Torn /\ round' = round
        /\ UNCHANGED <<fuzzyreport, reportedjson>>
    BY <1>1, <1>5
       DEF OpenCopy, WriteCopy, Finish, Parsed, FailToAllocate, Complain, At,
           Goto, files, Torn, TypeOK
  <2> QED
    BY <1>1, <1>2, <2>1, ReportsKept
<1>6. CASE Mutate(p)
  <2>1. /\ pc[p] \notin Torn /\ pc'[p] \notin Torn /\ round'[p] = round[p] + 1
        /\ UNCHANGED <<fuzzyreport, reportedjson>>
    BY <1>1, <1>6 DEF Mutate, CountMutation, At, Goto, files, Torn, TypeOK
  <2> QED
    BY <1>1, <1>2, <2>1, ReportsKept
<1>7. CASE BeginReport(p)
  <2>1. /\ pc[p] \notin Torn /\ pc'[p] \notin Torn /\ round' = round
        /\ UNCHANGED <<fuzzyreport, reportedjson>>
    BY <1>1, <1>7 DEF BeginReport, At, Goto, files, Torn, TypeOK
  <2> QED
    BY <1>1, <1>2, <2>1, ReportsKept
<1>8. CASE OpenReport(p)
  <2>1. /\ pc[p] = "report" /\ pc'[p] = "write_report"
        /\ round' = round /\ stamp' = stamp /\ reportedjson' = reportedjson
        /\ fuzzyreport' = [fuzzyreport EXCEPT ![ReportName(p)] = {}]
    BY <1>1, <1>8 DEF OpenReport, At, Goto, Opened, TypeOK
  <2>2. ReportName(p)' = ReportName(p) /\ fuzzyreport'[ReportName(p)] = {}
    BY <1>1, <2>1 DEF ReportName, TypeOK
  <2>3. ASSUME NEW t \in 0 .. MaxTime, t # stamp[p] PROVE Paired(p, t)'
    <3>1. Paired(p, t)
      BY <1>2, <2>1 DEF Reports, Torn
    <3>2. fuzzyreport'[<<id[p], t>>] = fuzzyreport[<<id[p], t>>]
      BY <1>1, <1>3, <2>1, <2>3 DEF ReportName, TypeOK
    <3> QED
      BY <1>1, <2>1, <3>1, <3>2 DEF Paired
  <2> QED
    BY <2>1, <2>2, <2>3 DEF Reports, Torn
<1>9. CASE WriteReport(p)
  <2>1. /\ pc[p] = "write_report" /\ pc'[p] = "save_json"
        /\ round' = round /\ stamp' = stamp /\ reportedjson' = reportedjson
        /\ fuzzyreport' =
             [fuzzyreport EXCEPT ![ReportName(p)] = Written(@, DocOf(p))]
    BY <1>1, <1>9 DEF WriteReport, At, Goto, TypeOK
  <2>2. Written({}, DocOf(p)) = {DocOf(p)}
    <3>1. {} # NoFile
      BY FarmAssumption
    <3> QED
      BY <3>1 DEF Written
  <2>3. /\ ReportName(p)' = ReportName(p) /\ DocOf(p)' = DocOf(p)
        /\ fuzzyreport'[ReportName(p)] = {DocOf(p)}
    BY <1>1, <1>2, <2>1, <2>2 DEF Reports, ReportName, DocOf, TypeOK
  <2>4. ASSUME NEW t \in 0 .. MaxTime, t # stamp[p] PROVE Paired(p, t)'
    <3>1. Paired(p, t)
      BY <1>2, <2>4 DEF Reports
    <3>2. fuzzyreport'[<<id[p], t>>] = fuzzyreport[<<id[p], t>>]
      BY <1>1, <1>3, <2>1, <2>4 DEF ReportName, TypeOK
    <3> QED
      BY <1>1, <2>1, <3>1, <3>2 DEF Paired
  <2> QED
    BY <2>1, <2>3, <2>4 DEF Reports, Torn
<1>10. CASE OpenJson(p)
  <2>1. /\ pc[p] = "save_json" /\ pc'[p] = "write_json"
        /\ round' = round /\ stamp' = stamp /\ fuzzyreport' = fuzzyreport
        /\ reportedjson' = [reportedjson EXCEPT ![ReportName(p)] = {}]
    BY <1>1, <1>10 DEF OpenJson, JsonName, ReportName, At, Goto, Opened, TypeOK
  <2>2. /\ ReportName(p)' = ReportName(p) /\ DocOf(p)' = DocOf(p)
        /\ fuzzyreport'[ReportName(p)] = {DocOf(p)}
        /\ reportedjson'[ReportName(p)] = {}
    BY <1>1, <1>2, <2>1 DEF Reports, ReportName, DocOf, TypeOK
  <2>3. ASSUME NEW t \in 0 .. MaxTime, t # stamp[p] PROVE Paired(p, t)'
    <3>1. Paired(p, t)
      BY <1>2, <2>3 DEF Reports
    <3>2. reportedjson'[<<id[p], t>>] = reportedjson[<<id[p], t>>]
      BY <1>1, <1>3, <2>1, <2>3 DEF ReportName, TypeOK
    <3> QED
      BY <1>1, <2>1, <3>1, <3>2 DEF Paired
  <2> QED
    BY <2>1, <2>2, <2>3 DEF Reports, Torn
<1>11. CASE WriteJson(p)
  <2>1. /\ pc[p] = "write_json" /\ pc'[p] = "compare"
        /\ round' = round /\ stamp' = stamp /\ fuzzyreport' = fuzzyreport
        /\ reportedjson' =
             [reportedjson EXCEPT ![ReportName(p)] = Written(@, DocOf(p))]
    BY <1>1, <1>11 DEF WriteJson, JsonName, ReportName, At, Goto, TypeOK
  <2>2. Written({}, DocOf(p)) = {DocOf(p)}
    <3>1. {} # NoFile
      BY FarmAssumption
    <3> QED
      BY <3>1 DEF Written
  <2>3. /\ fuzzyreport'[<<id[p], stamp[p]>>] = {<<p, round[p]>>}
        /\ reportedjson'[<<id[p], stamp[p]>>] = {<<p, round[p]>>}
    BY <1>1, <1>2, <2>1, <2>2 DEF Reports, ReportName, DocOf, TypeOK
  <2>4. ASSUME NEW t \in 0 .. MaxTime PROVE Paired(p, t)'
    <3>1. CASE t = stamp[p]
      <4>1. round[p] \in 0 .. round'[p]
        BY <1>1, <2>1
      <4> QED
        BY <1>1, <2>1, <2>3, <3>1, <4>1 DEF Paired
    <3>2. CASE t # stamp[p]
      <4>1. Paired(p, t)
        BY <1>2, <3>2 DEF Reports
      <4>2. reportedjson'[<<id[p], t>>] = reportedjson[<<id[p], t>>]
        BY <1>1, <1>3, <2>1, <3>2 DEF ReportName, TypeOK
      <4> QED
        BY <1>1, <2>1, <4>1, <4>2 DEF Paired
    <3> QED
      BY <3>1, <3>2
  <2> QED
    BY <2>1, <2>4 DEF Reports
<1> QED
  BY <1>4, <1>5, <1>6, <1>7, <1>8, <1>9, <1>10, <1>11 DEF Step

-----------------------------------------------------------------------------
(***************************************************************************)
(* The theorems.                                                           *)
(***************************************************************************)

LEMMA InitInv == Init => TypeInv /\ CopyInv /\ ReportInv
<1> SUFFICES ASSUME Init PROVE TypeInv /\ CopyInv /\ ReportInv
  OBVIOUS
<1>1. id \in [Process -> Id]
  BY FarmAssumption DEF Init
<1>2. TypeInv
  BY <1>1, FarmAssumption
     DEF Init, TypeInv, TypeOK, RoundsLeft, Location, File
<1>3. CopyInv
  BY DEF Init, CopyInv, Holding, Reporting
<1>4. ReportInv
  BY <1>1 DEF Init, ReportInv, Paired, Torn, Name
<1> QED
  BY <1>2, <1>3, <1>4

\* Every variable keeps to its type; in particular no process goes on beyond
\* max_mutations, which the loop of fuzz() compares with !=.
THEOREM FarmTypes == Spec => []TypeInv
BY InitInv, TypeStep, PTL DEF Spec

THEOREM TypeOKAlways == Spec => []TypeOK
<1>1. TypeInv => TypeOK
  BY DEF TypeInv
<1> QED
  BY <1>1, FarmTypes, PTL

\* Whenever a process that shares its id with no other may die in a parser,
\* temp-<id>.json is the document it was comparing (save() in fuzz()).
THEOREM EvidenceIsolatedAlways == Spec => []EvidenceIsolated
<1>1. CopyInv => EvidenceIsolated
  BY DEF CopyInv, EvidenceIsolated, Holding
<1> QED
  BY <1>1, InitInv, TypeStep, CopyStep, PTL DEF Spec

\* The two files of one name are about the same document, and about it alone
\* (generate_report).
THEOREM ReportsPairedAlways == Spec => []ReportsPaired
<1>1. ReportInv => ReportsPaired
  BY DEF ReportInv, ReportsPaired, Paired, Torn, Reporting
<1> QED
  BY <1>1, InitInv, TypeStep, ReportStep, PTL DEF Spec
-----------------------------------------------------------------------------
(***************************************************************************)
(* floatings_are_equal, for all doubles and precisions: the cases of NaN   *)
(* and infinity are few, and the finite ones are linear once the products  *)
(* with the fraction are compared.                                         *)
(***************************************************************************)

\* A double is finite, one of the two infinities, or NaN.
LEMMA DoubleKinds ==
  ASSUME NEW x \in Double
  PROVE  \/ x.kind = "finite" /\ x.n \in Int /\ x = Finite(x.n)
         \/ x = Infinity(1) \/ x = Infinity(-1) \/ x = NaN
  BY DEF Double, Finite, Infinity, NaN

\* The comparison of finite doubles, without the detour over magnitudes.
LEMMA FiniteComparison ==
  ASSUME NEW a \in Int, NEW b \in Int, NEW p \in Fraction
  PROVE  FloatingsAreEqual(Finite(a), Finite(b), p) <=>
           Abs(a - b) * p.den <=
             p.num * (IF Abs(a) < Abs(b) THEN Abs(b) ELSE Abs(a))
<1>1. /\ Minus(Finite(a), Finite(b)) = Finite(a - b)
      /\ Fabs(Finite(a - b)) = Finite(Abs(a - b))
      /\ Fabs(Finite(a)) = Finite(Abs(a))
      /\ Fabs(Finite(b)) = Finite(Abs(b))
  BY DEF Minus, Fabs, Finite, NaN, Infinity
<1>2. Fmax(Finite(Abs(a)), Finite(Abs(b))) =
        Finite(IF Abs(a) < Abs(b) THEN Abs(b) ELSE Abs(a))
  BY DEF Fmax, Finite
<1>3. ASSUME NEW d, NEW m
      PROVE  Within(Finite(d), p, Finite(m)) <=> d * p.den <= p.num * m
  BY DEF Within, Finite
<1>4. QED
  BY <1>1, <1>2, <1>3 DEF FloatingsAreEqual

\* An infinity is taken for every other double but NaN.
LEMMA InfiniteComparison ==
  ASSUME NEW x \in Double, NEW y \in Double, NEW p \in Fraction,
         x # NaN, y # NaN, x # y, x.kind = "inf" \/ y.kind = "inf"
  PROVE  FloatingsAreEqual(x, y, p) <=> p.num > 0
<1>1. Minus(x, y) \in {Infinity(1), Infinity(-1)}
  BY DoubleKinds DEF Minus, Finite, Infinity, NaN
<1>2. Fabs(Infinity(1)).kind = "inf" /\ Fabs(Infinity(-1)).kind = "inf"
  BY DEF Fabs, Infinity
<1>3. ASSUME NEW d \in Double PROVE Fabs(d).kind = d.kind
  BY DoubleKinds DEF Fabs, Finite, Infinity, NaN
<1>4. Fabs(x).kind = "inf" \/ Fabs(y).kind = "inf"
  BY <1>3
<1>5. Fabs(x).kind \in {"finite", "inf"} /\ Fabs(y).kind \in {"finite", "inf"}
  BY <1>3, DoubleKinds DEF Finite, Infinity, NaN
<1>6. Fmax(Fabs(x), Fabs(y)).kind = "inf"
  BY <1>4, <1>5 DEF Fmax
<1>7. QED
  BY <1>1, <1>2, <1>6 DEF FloatingsAreEqual, Within

\* NaN differs from every double, itself included.
LEMMA NaNComparison ==
  ASSUME NEW x, NEW y, NEW p, Minus(x, y) = NaN
  PROVE  ~FloatingsAreEqual(x, y, p)
<1>1. Fabs(NaN).kind = "nan"
  BY DEF Fabs, NaN
<1>2. QED
  BY <1>1 DEF FloatingsAreEqual, Within

\* The order of the parsers does not matter to the comparison of two of them.
THEOREM ComparisonIsSymmetric ==
  ASSUME NEW x \in Double, NEW y \in Double, NEW p \in Fraction
  PROVE  FloatingsAreEqual(x, y, p) <=> FloatingsAreEqual(y, x, p)
<1>1. CASE x.kind = "finite" /\ y.kind = "finite"
  <2>1. x.n \in Int /\ y.n \in Int /\ x = Finite(x.n) /\ y = Finite(y.n)
    BY <1>1, DoubleKinds DEF Infinity, NaN
  <2>2. Abs(x.n - y.n) = Abs(y.n - x.n)
    BY <2>1 DEF Abs
  <2>3. (IF Abs(x.n) < Abs(y.n) THEN Abs(y.n) ELSE Abs(x.n)) =
        (IF Abs(y.n) < Abs(x.n) THEN Abs(x.n) ELSE Abs(y.n))
    BY <2>1 DEF Abs
  <2>4. QED
    BY <2>1, <2>2, <2>3, FiniteComparison
<1>2. CASE x = NaN \/ y = NaN
  <2>1. NaN.kind = "nan"
    BY DEF NaN
  <2>2. Minus(x, y) = NaN /\ Minus(y, x) = NaN
    BY <1>2, <2>1 DEF Minus
  <2>3. QED
    BY <2>2, NaNComparison
<1>3. CASE /\ x # NaN /\ y # NaN /\ x # y
           /\ x.kind = "inf" \/ y.kind = "inf"
  BY <1>3, InfiniteComparison
<1>4. CASE x = y
  BY <1>4
<1>5. QED
  BY <1>1, <1>2, <1>3, <1>4, DoubleKinds DEF Infinity
-----------------------------------------------------------------------------
\* Whatever doubles the parsers show and whatever the precision, the order of
\* two parsers does not matter to their comparison.
THEOREM SymmetricAlways == ComparisonSpec => []Symmetric
<1>1. Choose => Symmetric
  BY ComparisonIsSymmetric, ShownAssumption, PrecisionAssumption
    DEF Choose, Symmetric
<1>2. Symmetric /\ [Stay]_compared => Symmetric'
  BY DEF Symmetric, Stay, compared
<1>3. QED
  BY <1>1, <1>2, PTL DEF ComparisonSpec

\* The invariant the other properties need.
InRange ==
  /\ leader \in Double /\ other \in Double /\ third \in Double
  /\ precision \in Fraction

\* The doubles shown and the precision stay what the constants allow.
LEMMA AlwaysInRange == ComparisonSpec => []InRange
<1>1. Choose => InRange
  BY ShownAssumption, PrecisionAssumption DEF Choose, InRange
<1>2. InRange /\ [Stay]_compared => InRange'
  BY DEF InRange, Stay, compared
<1>3. QED
  BY <1>1, <1>2, PTL DEF ComparisonSpec

\* An infinity is taken for every double but itself and NaN, whatever the
\* precision above zero.
THEOREM InfinityInvertedAlways == ComparisonSpec => []InfinityInverted
<1>1. InRange => InfinityInverted
  <2> SUFFICES ASSUME InRange, leader.kind = "inf", precision.num > 0
               PROVE  FloatingsAreEqual(leader, other, precision) <=>
                        other # leader /\ other # NaN
    BY DEF InfinityInverted
  <2>1. leader # NaN
    BY DEF NaN
  <2>2. CASE other # leader /\ other # NaN
    BY <2>1, <2>2, InfiniteComparison DEF InRange
  <2>3. CASE other = leader \/ other = NaN
    <3>1. NaN.kind = "nan"
      BY DEF NaN
    <3>2. Minus(leader, other) = NaN
      BY <2>3, <3>1 DEF Minus
    <3>3. QED
      BY <2>3, <3>2, NaNComparison
  <2>4. QED
    BY <2>2, <2>3
<1>2. QED
  BY <1>1, AlwaysInRange, PTL

LEMMA SameSign ==
  ASSUME NEW a \in Int, NEW b \in Int, NEW n \in Nat, NEW d \in Nat, n < d,
         Abs(a - b) * d <= n * (IF Abs(a) < Abs(b) THEN Abs(b) ELSE Abs(a))
  PROVE  \/ a < 0 /\ b < 0
         \/ a > 0 /\ b > 0
         \/ a = 0 /\ b = 0
<1> DEFINE m == IF Abs(a) < Abs(b) THEN Abs(b) ELSE Abs(a)
           difference == Abs(a - b)
<1>1. m \in Nat /\ difference \in Nat
  BY DEF Abs
<1>2. SUFFICES ASSUME m <= difference, m # 0 PROVE FALSE
  BY <1>1 DEF Abs
<1>3. difference * d <= n * m
  OBVIOUS
<1> HIDE DEF m, difference
<1>4. n * m < d * m
  BY <1>1, <1>2
<1>5. d * m <= d * difference
  BY <1>1, <1>2
<1>6. /\ d * difference = difference * d
      /\ n * m \in Int /\ d * m \in Int /\ d * difference \in Int
  BY <1>1
<1> QED
  BY <1>3, <1>4, <1>5, <1>6

\* A wrong sign is never tolerated by a precision below 1.
THEOREM SignsAgreeAlways == ComparisonSpec => []SignsAgree
<1>1. InRange => SignsAgree
  <2> SUFFICES ASSUME InRange, AllFinite, Proper,
                      FloatingsAreEqual(leader, other, precision)
               PROVE  \/ leader.n < 0 /\ other.n < 0
                      \/ leader.n > 0 /\ other.n > 0
                      \/ leader.n = 0 /\ other.n = 0
    BY DEF SignsAgree
  <2>1. /\ leader.n \in Int /\ leader = Finite(leader.n)
        /\ other.n \in Int /\ other = Finite(other.n)
    BY DoubleKinds DEF InRange, AllFinite, Infinity, NaN
  <2>2. precision.num \in Nat /\ precision.den \in Nat
    BY DEF InRange, Proper, Fraction
  <2> DEFINE a == leader.n
             b == other.n
  <2>3. precision.num < precision.den /\ precision \in Fraction
    BY DEF InRange, Proper
  <2>4. FloatingsAreEqual(Finite(a), Finite(b), precision)
    BY <2>1
  <2>5. Abs(a - b) * precision.den <=
          precision.num * (IF Abs(a) < Abs(b) THEN Abs(b) ELSE Abs(a))
    BY <2>1, <2>3, <2>4, FiniteComparison
  <2>6. a \in Int /\ b \in Int
    BY <2>1
  <2> HIDE DEF a, b
  <2>7. \/ a < 0 /\ b < 0
        \/ a > 0 /\ b > 0
        \/ a = 0 /\ b = 0
    BY <2>2, <2>3, <2>5, <2>6, SameSign
  <2>8. QED
    BY <2>7 DEF a, b
<1>2. QED
  BY <1>1, AlwaysInRange, PTL

-----------------------------------------------------------------------------
(***************************************************************************)
(* Two that are both close to the leader. All three have one sign, so that *)
(* their magnitudes can be compared; if the leader is the largest, it is   *)
(* the fraction being below 1 that keeps it near the other two.            *)
(***************************************************************************)

LEMMA Products ==
  ASSUME NEW a \in Int, NEW b \in Int, NEW c \in Int
  PROVE  /\ a * b \in Int
         /\ (a - b) * c = c * a - c * b
         /\ c >= 0 /\ a <= b => c * a <= c * b
OBVIOUS

LEMMA NearTheLeader ==
  ASSUME NEW l \in Nat, NEW x \in Nat, NEW y \in Nat, y <= x,
         NEW n \in Nat, NEW d \in Nat, n < d,
         Abs(l - x) * d <= n * (IF l < x THEN x ELSE l),
         Abs(l - y) * d <= n * (IF l < y THEN y ELSE l)
  PROVE  (x - y) * d <= 2 * (n * x)
<1> DEFINE dl == d * l
           dx == d * x
           dy == d * y
           nl == n * l
           nx == n * x
<1>1. /\ dl \in Int /\ dx \in Int /\ dy \in Int /\ nl \in Int /\ nx \in Int
      /\ n * 0 <= nx
  BY Products
<1>2. 0 <= nx
  BY <1>1
<1>3. (x - y) * d = dx - dy /\ (x - l) * d = dx - dl /\ (l - y) * d = dl - dy
  BY Products
<1>4. l <= x => nl <= nx
  BY Products
<1>5. l <= y => dl <= dy
  BY Products
<1>6. x <= l => dx - nx <= dl - nl
  <2>1. x <= l => (d - n) * x <= (d - n) * l
    BY Products
  <2>2. (d - n) * x = x * d - x * n /\ (d - n) * l = l * d - l * n
    BY Products
  <2>3. x * d = dx /\ x * n = nx /\ l * d = dl /\ l * n = nl
    OBVIOUS
  <2> HIDE DEF dl, dx, nl, nx
  <2> QED
    BY <2>1, <2>2, <2>3
<1>7. l <= x => (x - l) * d <= nx
  BY DEF Abs
<1>8. y <= l => (l - y) * d <= nl
  BY DEF Abs
<1> HIDE DEF dl, dx, dy, nl, nx
<1>9. CASE l <= x
  <2>1. dx - dl <= nx
    BY <1>3, <1>7, <1>9
  <2>2. dl - dy <= nx
    <3>1. CASE l <= y
      BY <1>1, <1>2, <1>5, <3>1
    <3>2. CASE y <= l
      BY <1>1, <1>3, <1>4, <1>8, <1>9, <3>2
    <3> QED
      BY <3>1, <3>2
  <2>3. dx - dy <= 2 * nx
    BY <1>1, <2>1, <2>2
  <2> QED
    BY <1>3, <2>3 DEF nx
<1>10. CASE x <= l
  <2>1. dl - dy <= nl
    BY <1>3, <1>8, <1>10
  <2>2. dx - dy <= 2 * nx
    BY <1>1, <1>2, <1>6, <1>10, <2>1
  <2> QED
    BY <1>3, <2>2 DEF nx
<1> QED
  BY <1>9, <1>10

LEMMA NearEachOther ==
  ASSUME NEW l \in Int, NEW x \in Int, NEW y \in Int,
         NEW n \in Nat, NEW d \in Nat, n < d,
         Abs(l - x) * d <= n * (IF Abs(l) < Abs(x) THEN Abs(x) ELSE Abs(l)),
         Abs(l - y) * d <= n * (IF Abs(l) < Abs(y) THEN Abs(y) ELSE Abs(l))
  PROVE  Abs(x - y) * d <=
           2 * n * (IF Abs(x) < Abs(y) THEN Abs(y) ELSE Abs(x))
<1> DEFINE al == Abs(l)
           ax == Abs(x)
           ay == Abs(y)
<1>1. al \in Nat /\ ax \in Nat /\ ay \in Nat
  BY DEF Abs
<1>2. \/ l < 0 /\ x < 0 /\ y < 0
      \/ l > 0 /\ x > 0 /\ y > 0
      \/ l = 0 /\ x = 0 /\ y = 0
  BY SameSign
<1>3. /\ Abs(l - x) = Abs(al - ax)
      /\ Abs(l - y) = Abs(al - ay)
      /\ ay <= ax => Abs(x - y) = ax - ay
      /\ ax <= ay => Abs(x - y) = ay - ax
  BY <1>2 DEF Abs
<1>4. /\ Abs(al - ax) * d <= n * (IF al < ax THEN ax ELSE al)
      /\ Abs(al - ay) * d <= n * (IF al < ay THEN ay ELSE al)
  BY <1>3
<1>5. n * ax \in Int /\ n * ay \in Int
      /\ 2 * n * ax = 2 * (n * ax) /\ 2 * n * ay = 2 * (n * ay)
  BY <1>1
<1> HIDE DEF al, ax, ay
<1>6. CASE ay <= ax
  <2>1. (ax - ay) * d <= 2 * (n * ax)
    BY <1>1, <1>4, <1>6, NearTheLeader
  <2>2. (IF ax < ay THEN ay ELSE ax) = ax
    BY <1>1, <1>6
  <2>3. Abs(x - y) * d <= 2 * n * (IF ax < ay THEN ay ELSE ax)
    BY <1>3, <1>5, <1>6, <2>1, <2>2
  <2> QED
    BY <2>3 DEF ax, ay
<1>7. CASE ax < ay
  <2>1. (ay - ax) * d <= 2 * (n * ay)
    <3>1. ax <= ay
      BY <1>1, <1>7
    <3> QED
      BY <1>1, <1>4, <3>1, NearTheLeader
  <2>2. (IF ax < ay THEN ay ELSE ax) = ay
    BY <1>7
  <2>3. Abs(x - y) * d <= 2 * n * (IF ax < ay THEN ay ELSE ax)
    BY <1>1, <1>3, <1>5, <1>7, <2>1, <2>2
  <2> QED
    BY <2>3 DEF ax, ay
<1> QED
  BY <1>1, <1>6, <1>7

\* Two parsers that both agree with the leader are never compared with each
\* other by compare_parsing, and differ by at most twice the precision.
THEOREM SlackOfStarAlways == ComparisonSpec => []SlackOfStar
<1>1. InRange => SlackOfStar
  <2> DEFINE double == [precision EXCEPT !.num = 2 * @]
  <2> SUFFICES ASSUME InRange, AllFinite, Proper,
                      FloatingsAreEqual(leader, other, precision),
                      FloatingsAreEqual(leader, third, precision)
               PROVE  FloatingsAreEqual(other, third, double)
    BY DEF SlackOfStar
  <2>1. /\ leader.n \in Int /\ leader = Finite(leader.n)
        /\ other.n \in Int /\ other = Finite(other.n)
        /\ third.n \in Int /\ third = Finite(third.n)
    BY DoubleKinds DEF InRange, AllFinite, Infinity, NaN
  <2>2. /\ precision \in Fraction
        /\ precision.num \in Nat /\ precision.den \in Nat
        /\ precision.num < precision.den
    BY DEF InRange, Proper, Fraction
  <2>3. /\ double \in Fraction
        /\ double.num = 2 * precision.num /\ double.den = precision.den
    BY <2>2 DEF Fraction
  <2> HIDE DEF double
  <2> DEFINE l == leader.n
             x == other.n
             y == third.n
             n == precision.num
             d == precision.den
  <2>4. /\ FloatingsAreEqual(Finite(l), Finite(x), precision)
        /\ FloatingsAreEqual(Finite(l), Finite(y), precision)
    BY <2>1
  <2>5. l \in Int /\ x \in Int /\ y \in Int
    BY <2>1
  <2>6. /\ Abs(l - x) * d <=
              n * (IF Abs(l) < Abs(x) THEN Abs(x) ELSE Abs(l))
        /\ Abs(l - y) * d <=
              n * (IF Abs(l) < Abs(y) THEN Abs(y) ELSE Abs(l))
    BY <2>2, <2>4, <2>5, FiniteComparison
  <2>7. n \in Nat /\ d \in Nat /\ n < d
    BY <2>2
  <2>8. other = Finite(x) /\ third = Finite(y)
    BY <2>1
  <2>9. double.num = 2 * n /\ double.den = d
    BY <2>3
  <2> HIDE DEF l, x, y, n, d
  <2>10. Abs(x - y) * d <=
           2 * n * (IF Abs(x) < Abs(y) THEN Abs(y) ELSE Abs(x))
    BY <2>5, <2>6, <2>7, NearEachOther
  <2>11. FloatingsAreEqual(Finite(x), Finite(y), double)
    BY <2>3, <2>5, <2>9, <2>10, FiniteComparison
  <2> QED
    BY <2>8, <2>11
<1>2. QED
  BY <1>1, AlwaysInRange, PTL

-----------------------------------------------------------------------------
(***************************************************************************)
(* is_known_problem: no byte is three different ones, so that the scan has *)
(* one way out only, for documents of any size.                            *)
(***************************************************************************)

\* The condition of the loop is a tautology.
LEMMA AlwaysGoesOn == GoesOn
  BY DEF GoesOn

\* An accepted document is never answered for with FALSE.
THEOREM NeverUnknownAlways == KnownProblemSpec => []NeverUnknown
<1>1. Asked => NeverUnknown
  BY DEF Asked, NeverUnknown
<1>2. NeverUnknown /\ [Answering]_asked => NeverUnknown'
  <2> SUFFICES ASSUME NeverUnknown, [Answering]_asked PROVE NeverUnknown'
    OBVIOUS
  <2>1. CASE FirstByte
    BY <2>1 DEF FirstByte, Return, buffer, NeverUnknown
  <2>2. CASE Scan
    BY <2>2, AlwaysGoesOn DEF Scan, Return, buffer, NeverUnknown
  <2>3. CASE RunAway
    BY <2>3 DEF RunAway, NeverUnknown
  <2>4. CASE UNCHANGED asked
    BY <2>4 DEF asked, NeverUnknown
  <2>5. QED
    BY <2>1, <2>2, <2>3, <2>4 DEF Answering, Terminated
<1>3. QED
  BY <1>1, <1>2, PTL DEF KnownProblemSpec

\* Every byte the scan has left behind, from the end of the document down, is
\* no null byte: the scan would have stopped on it.
ScannedWithoutNull ==
  /\ size \in Nat
  /\ below \in Nat
  /\ i \in -below - 1 .. size - 1
  /\ \A p \in i + 1 .. size - 1 : json[p] # "null"
  /\ DiesWithoutNull

\* The scan dies only after it has read every byte in reach, the document's
\* and those below it, and found no null byte.
THEOREM DiesWithoutNullAlways == KnownProblemSpec => []DiesWithoutNull
<1>1. Asked => ScannedWithoutNull
  <2> SUFFICES ASSUME Asked PROVE ScannedWithoutNull
    OBVIOUS
  <2>1. size \in Nat /\ below \in Nat /\ i = size - 1
    <3>1. size \in 1 .. MaxSize /\ below \in 0 .. MaxBelow /\ i = size - 1
      BY DEF Asked, LastByte
    <3>2. QED  BY <3>1, SizeAssumption
  <2>2. i \in -below - 1 .. size - 1 /\ i + 1 .. size - 1 = {}
    BY <2>1
  <2>3. DiesWithoutNull
    BY DEF Asked, DiesWithoutNull
  <2>4. QED
    BY <2>1, <2>2, <2>3 DEF ScannedWithoutNull
<1>2. ScannedWithoutNull /\ [Answering]_asked => ScannedWithoutNull'
  <2> SUFFICES ASSUME ScannedWithoutNull, [Answering]_asked
               PROVE  ScannedWithoutNull'
    OBVIOUS
  <2> USE DEF ScannedWithoutNull
  <2>1. CASE FirstByte
    <3>1. stage' \in {"returned", "scan"}
      BY <2>1 DEF FirstByte, Return
    <3>2. QED  BY <2>1, <3>1 DEF FirstByte, buffer, DiesWithoutNull
  <2>2. CASE Scan
    <3>1. CASE i' = i /\ stage' = "returned"
      BY <2>2, <3>1 DEF Scan, buffer, DiesWithoutNull
    <3>2. CASE i' = i - 1 /\ stage' = "scan" /\ json[i] # "null"
      BY <2>2, <3>2 DEF Scan, Readable, buffer, DiesWithoutNull
    <3>3. QED
      BY <2>2, <3>1, <3>2, AlwaysGoesOn DEF Scan, Return
  <2>3. CASE RunAway
    <3>1. i = -below - 1
      BY <2>3 DEF RunAway, Readable
    <3>2. QED
      BY <2>3, <3>1 DEF RunAway, buffer, DiesWithoutNull, NullAt
  <2>4. CASE UNCHANGED asked
    BY <2>4 DEF asked, DiesWithoutNull, NullAt
  <2>5. QED
    BY <2>1, <2>2, <2>3, <2>4 DEF Answering, Terminated
<1>3. ScannedWithoutNull => DiesWithoutNull
  BY DEF ScannedWithoutNull
<1>4. QED
  BY <1>1, <1>2, <1>3, PTL DEF KnownProblemSpec
=============================================================================
