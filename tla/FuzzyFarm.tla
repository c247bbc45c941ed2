----------------------------- MODULE FuzzyFarm -----------------------------
(***************************************************************************)
(* Several fuzzing processes in one directory, as run.py starts them: what *)
(* each fuzz() (include/fuzzyjson.h) does to the files the processes may   *)
(* share, one system call at a time, while any of them may be killed; and  *)
(* the runner of run.py that waits for each process.                       *)
(*                                                                         *)
(* A process is started with an id, which names its files. run.py gives    *)
(* each process an id of its own; whoever starts them by hand, or starts   *)
(* run.py again beside the remains of an earlier run, may not. A file is   *)
(* the set of the documents written to it since it was last truncated: one *)
(* document if it is intact, none if its writer did not get to it, several *)
(* if writers got into each other's way.                                   *)
(***************************************************************************)
EXTENDS Naturals

CONSTANTS
  Process,
  Id,
  Started,       \* ids the processes may be started with
  MaxMutations,  \* settings.max_mutations
  MaxReports,    \* bound on the reports of one comparison
  PipeSize,      \* messages that fit into the pipe of a process's stderr
  MaxTime,       \* bound on the clock, in seconds
  NoFile

ASSUME FarmAssumption ==
  /\ Started \subseteq [Process -> Id]
  /\ MaxMutations \in Nat
  /\ MaxReports \in Nat
  /\ PipeSize \in Nat
  /\ MaxTime \in Nat
  /\ \A docs \in SUBSET (Process \X (0 .. MaxMutations)) : docs # NoFile

VARIABLES
  id,           \* per process: settings.id
  pc,           \* per process: where fuzz() stands
  killed,       \* processes that died, wherever they stood
  round,        \* per process: no_mutation
  written,      \* per process: reports begun in this comparison
  stamp,        \* per process: the second its last report is named after
  temp,         \* per id: the file temp-<id>.json
  fuzzyreport,  \* per id and second: the file <id><second>_fuzzyreport.json
  reportedjson, \* per id and second: the file <id><second>_reportedjson.json
  stderr,       \* per process: messages in the pipe, which nobody reads
  returned,     \* processes whose runner has returned
  now           \* the clock, in whole seconds

files == <<temp, fuzzyreport, reportedjson>>
vars == <<id, pc, killed, round, written, stamp, files, stderr, returned, now>>

Reporting == {"report", "write_report", "save_json", "write_json"}
Location ==
  {"save", "write_copy", "parse", "complain", "compare", "done"} \cup Reporting

\* Every process holds a document of its own, another one in each round.
DocOf(p) == <<p, round[p]>>
Document == Process \X (0 .. MaxMutations)
File == (SUBSET Document) \cup {NoFile}

\* The documents a file holds.
In(file) == IF file = NoFile THEN {} ELSE file
Name == Id \X (0 .. MaxTime)

OneCopyForAll(p) == CHOOSE name \in Id : TRUE \* mutant
CopyName(p) == id[p]

\* Both files of a report are named after the time taken first.
ReportName(p) == <<id[p], stamp[p]>>
TimeTakenAgain(p) == <<id[p], now>> \* mutant
JsonName(p) == <<id[p], stamp[p]>>

Init ==
  /\ id \in Started
  /\ pc = [p \in Process |-> "save"]
  /\ killed = {}
  /\ round = [p \in Process |-> 0]
  /\ written = [p \in Process |-> 0]
  /\ stamp = [p \in Process |-> 0]
  /\ temp = [name \in Id |-> NoFile]
  /\ fuzzyreport = [name \in Name |-> NoFile]
  /\ reportedjson = [name \in Name |-> NoFile]
  /\ stderr = [p \in Process |-> 0]
  /\ returned = {}
  /\ now = 0

-----------------------------------------------------------------------------
(***************************************************************************)
(* Files: opening one for output makes or truncates it, a write lands in   *)
(* it unless it was removed meanwhile.                                     *)
(***************************************************************************)

Opened == {}
Written(file, doc) == IF file = NoFile THEN NoFile ELSE file \cup {doc}

At(p, place) == p \notin killed /\ pc[p] = place
Goto(p, place) ==
  /\ pc' = [pc EXCEPT ![p] = place]
  /\ UNCHANGED <<id, killed, returned, now>>

-----------------------------------------------------------------------------
(***************************************************************************)
(* The loop of fuzz().                                                     *)
(***************************************************************************)

OnceMore(p) == round[p] <= MaxMutations \* mutant
MoreMutations(p) == round[p] # MaxMutations

\* random_json.save(copy_name)
OpenCopy(p) ==
  /\ At(p, "save")
  /\ MoreMutations(p)
  /\ temp' = [temp EXCEPT ![CopyName(p)] = Opened]
  /\ written' = [written EXCEPT ![p] = 0]
  /\ Goto(p, "write_copy")
  /\ UNCHANGED <<round, stamp, fuzzyreport, reportedjson, stderr>>

WriteCopy(p) ==
  /\ At(p, "write_copy")
  /\ temp' = [temp EXCEPT ![CopyName(p)] = Written(@, DocOf(p))]
  /\ Goto(p, "parse")
  /\ UNCHANGED <<round, written, stamp, fuzzyreport, reportedjson, stderr>>

\* The parsers have all been called.
Parsed(p) ==
  /\ At(p, "parse")
  /\ Goto(p, "compare")
  /\ UNCHANGED <<round, written, stamp, files, stderr>>

CountKept(p) == round' = round \* mutant
CountMutation(p) == round' = [round EXCEPT ![p] = @ + 1]

\* compare_parsing returns; random_json.mutate().
Mutate(p) ==
  /\ At(p, "compare")
  /\ CountMutation(p)
  /\ Goto(p, "save")
  /\ UNCHANGED <<written, stamp, files, stderr>>

\* std::remove(copy_name)
Finish(p) ==
  /\ At(p, "save")
  /\ ~MoreMutations(p)
  /\ temp' = [temp EXCEPT ![CopyName(p)] = NoFile]
  /\ Goto(p, "done")
  /\ UNCHANGED <<round, written, stamp, fuzzyreport, reportedjson, stderr>>

-----------------------------------------------------------------------------
(***************************************************************************)
(* generate_report, called any number of times during a comparison: the    *)
(* time is taken, then the two files are written one after the other.      *)
(***************************************************************************)

BeginReport(p) ==
  /\ At(p, "compare")
  /\ written[p] < MaxReports
  /\ written' = [written EXCEPT ![p] = @ + 1]
  /\ stamp' = [stamp EXCEPT ![p] = now]
  /\ Goto(p, "report")
  /\ UNCHANGED <<round, files, stderr>>

OpenReport(p) ==
  /\ At(p, "report")
  /\ fuzzyreport' = [fuzzyreport EXCEPT ![ReportName(p)] = Opened]
  /\ Goto(p, "write_report")
  /\ UNCHANGED <<round, written, stamp, temp, reportedjson, stderr>>

WriteReport(p) ==
  /\ At(p, "write_report")
  /\ fuzzyreport' = [fuzzyreport EXCEPT ![ReportName(p)] = Written(@, DocOf(p))]
  /\ Goto(p, "save_json")
  /\ UNCHANGED <<round, written, stamp, temp, reportedjson, stderr>>

OpenJson(p) ==
  /\ At(p, "save_json")
  /\ reportedjson' = [reportedjson EXCEPT ![JsonName(p)] = Opened]
  /\ Goto(p, "write_json")
  /\ UNCHANGED <<round, written, stamp, temp, fuzzyreport, stderr>>

WriteJson(p) ==
  /\ At(p, "write_json")
  /\ reportedjson' = [reportedjson EXCEPT ![JsonName(p)] = Written(@, DocOf(p))]
  /\ Goto(p, "compare")
  /\ UNCHANGED <<round, written, stamp, temp, fuzzyreport, stderr>>

-----------------------------------------------------------------------------
(***************************************************************************)
(* What goes wrong. simdjson says on stderr that it could not allocate     *)
(* memory, and the document counts as rejected; run.py made a pipe of      *)
(* stderr that it never reads, so that a process has to wait when it is    *)
(* full. A process may die anywhere: by a crash of a parser or abort()     *)
(* while it compares, at the hand of the user or the system elsewhere.     *)
(***************************************************************************)

FailToAllocate(p) ==
  /\ At(p, "parse")
  /\ Goto(p, "complain")
  /\ UNCHANGED <<round, written, stamp, files, stderr>>

Complain(p) ==
  /\ At(p, "complain")
  /\ stderr[p] < PipeSize
  /\ stderr' = [stderr EXCEPT ![p] = @ + 1]
  /\ Goto(p, "compare")
  /\ UNCHANGED <<round, written, stamp, files>>

Die(p) ==
  /\ p \notin killed
  /\ pc[p] # "done"
  /\ killed' = killed \cup {p}
  /\ UNCHANGED <<id, pc, round, written, stamp, files, stderr, returned, now>>

\* fuzzy_runner reads stdout until the process is gone.
Ended(p) == p \in killed \/ pc[p] = "done"

RunnerReturns(p) ==
  /\ p \notin returned
  /\ Ended(p)
  /\ returned' = returned \cup {p}
  /\ UNCHANGED <<id, pc, killed, round, written, stamp, files, stderr, now>>

Tick ==
  /\ now < MaxTime
  /\ now' = now + 1
  /\ UNCHANGED <<id, pc, killed, round, written, stamp, files, stderr, returned>>

AllReturned == returned = Process /\ UNCHANGED vars

Step(p) ==
  \/ OpenCopy(p) \/ WriteCopy(p) \/ Parsed(p) \/ Mutate(p) \/ Finish(p)
  \/ BeginReport(p) \/ OpenReport(p) \/ WriteReport(p)
  \/ OpenJson(p) \/ WriteJson(p)
  \/ FailToAllocate(p) \/ Complain(p)

Next ==
  \/ \E p \in Process : Step(p) \/ Die(p) \/ RunnerReturns(p)
  \/ Tick
  \/ AllReturned

Spec == Init /\ [][Next]_vars

\* Every process and every runner is scheduled as long as it can run; nobody
\* has to die.
FairSpec ==
  /\ Spec
  /\ \A p \in Process : WF_vars(Step(p)) /\ WF_vars(RunnerReturns(p))

-----------------------------------------------------------------------------
(***************************************************************************)
(* Properties.                                                             *)
(***************************************************************************)

TypeOK ==
  /\ id \in [Process -> Id]
  /\ pc \in [Process -> Location]
  /\ killed \subseteq Process
  /\ round \in [Process -> 0 .. MaxMutations]
  /\ written \in [Process -> 0 .. MaxReports]
  /\ stamp \in [Process -> 0 .. now]
  /\ temp \in [Id -> File]
  /\ fuzzyreport \in [Name -> File]
  /\ reportedjson \in [Name -> File]
  /\ stderr \in [Process -> 0 .. PipeSize]
  /\ returned \subseteq Process
  /\ now \in 0 .. MaxTime

Alone(p) == \A q \in Process \ {p} : id[q] # id[p]

\* The copy "in case of an unexpected crash" (README.md): whatever the other
\* processes do, and whenever it dies, a process that no other shares its id
\* with leaves in temp-<id>.json the very document it was comparing.
EvidenceIsolated ==
  \A p \in Process :
    Alone(p) /\ pc[p] \in {"parse", "complain", "compare"} \cup Reporting =>
      temp[id[p]] = {DocOf(p)}

\* "FuzzyJson generates a report and makes a copy of the json" (README.md):
\* the two files of one name are about the same document, and about it alone,
\* however many reports overwrote each other in that second, unless their
\* writer is in the middle of them or died there.
ReportsPaired ==
  \A p \in Process, t \in 0 .. MaxTime :
    Alone(p) /\ (pc[p] \in Reporting => t # stamp[p]) =>
      \/ /\ fuzzyreport[<<id[p], t>>] = NoFile
         /\ reportedjson[<<id[p], t>>] = NoFile
      \/ \E n \in 0 .. round[p] :
           /\ fuzzyreport[<<id[p], t>>] = {<<p, n>>}
           /\ reportedjson[<<id[p], t>>] = {<<p, n>>}

\* run.py comes to its end, whoever dies, unless a process waits for room in
\* the pipe of its stderr, which nobody empties.
FarmEnds ==
  <>(\A p \in Process :
       p \in returned \/ (pc[p] = "complain" /\ stderr[p] = PipeSize))
=============================================================================
