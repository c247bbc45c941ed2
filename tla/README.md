# FuzzyJson in TLA+

FuzzyJson looks for bugs in JSON parsers: it generates a document, has several
parsers parse it, compares what they make of it value by value, mutates the
document and starts again. These modules model that loop, the parsers and the
adapters that make them comparable, and the processes that run side by side;
check them with TLC; and prove the main properties with TLAPS.

Paths are relative to the repository; "the code" is `include/*.h`, "vendored" is
`dependencies/`.

## The system

| Part | State | Operations | Talks to |
|---|---|---|---|
| `FuzzyJson` (`fuzzyjson.h`) | parsers, counter of mutations; during a comparison the traversers, their positions, the value index | `add_parser`, `fuzz`, `compare_parsing`, `generate_report`, `is_known_problem`, `reverse_mutation` | calls the parsers and traversers; calls RandomJson; writes `temp-<id>.json` and two files per report |
| `Parser`, `Traverser` (`parser.h`) | name, parsing state | `parse`, `next`, a getter per type, `is_known_problem` | implemented by the three below |
| `RapidjsonTraverser` | a stack of iterators into a DOM, the current type | `next`, getters, `is_known_problem` | rapidjson |
| `SimdjsonTraverser` | an iterator over a tape, a stack of open containers, the current type | `next`, getters | `ParsedJson::Iterator` of simdjson |
| `SajsonTraverser` | a stack of indexed containers, the current type | `next`, getters | sajson |
| simdjson (vendored) | structural indexes, a label, the tape, the scopes that are open | stage 1, stage 2 (`UNIFIED_MACHINE`) | called by `SimdjsonParser::parse` |
| rapidjson (vendored) | a stream, the calls of `ParseObject` and `ParseArray` that have not returned, a stack of values | `GenericReader`, the handler of `GenericDocument` | called by `RapidjsonParser::parse` |
| sajson (vendored) | a label, a stack of elements, an AST that grows from its end | `parser::parse` | called by `SajsonParser::parse` |
| RandomJson (a submodule, not in the sources) | the document, the previous one, the count of mutations | `mutate`, `reverse_mutation`, `save`, getters | called by `FuzzyJson` |
| `run.py`, `fuzztest.cpp` | one process per processor, a runner for each; settings | start a fuzz, read its stdout | processes share a directory and a clock |

Each process runs in one thread. What is hard here is long sequences rather than
concurrency: a comparison advances several traversers in one loop that leaves
early in three ways; most mutations are reversed; most documents are not JSON,
and each parser is a machine with a stack of its own that has to refuse them; a
traverser is a stack machine whose caller may stop anywhere; a parser under test
may bring the process down; and reports are suppressed by a scan that reads raw
memory. Several processes then do this in one directory, where any may be killed
between two writes.

What makes each part correct:

* the fuzz: what is mutated is always a document all parsers accept; it gives up
  only where there is nothing to go back to; if it dies, the evidence is on
  disk; it ends;
* the comparison: the traversers stay in step, every value up to the bound is
  compared, and exactly the differing ones are reported;
* the report: written for every difference, showing the values that differ, not
  overwritten;
* a parser: accepts the texts it should, with its stacks, labels and counts in
  agreement with the brackets it has met, and leaves nothing allocated;
* a traverser: shows the events of the document in the order the unit tests
  spell out, and has something to read whenever a getter will be called;
* the farm: the files a process leaves behind are its own, and `run.py` ends;
* the comparison of doubles: symmetric, and no looser than its precision says.

## The modules

| Module | Models |
|---|---|
| `ParserTypes` | the enumerations of `parser.h` |
| `Floatings` | `floatings_are_equal`, with infinities and NaN |
| `FloatingComparison` | what that function means for three doubles |
| `FuzzSession` | abstract: what a fuzzing session promises |
| `FuzzyJson` | `fuzz` and everything it calls, as a state machine |
| `FuzzyJsonProofs` | the theorems about `FuzzyJson` |
| `KnownProblem` | the scan of `RapidjsonTraverser::is_known_problem` |
| `JsonText` | the tokens a text is made of |
| `TextEvents` | a reference: a text read token by token, and its events by position |
| `JsonGrammar` | a reference: which texts are JSON, and their events; sets of texts |
| `ParserLimits` | a reference: what each parser accepts beyond or short of the grammar |
| `Traversal` | abstract: one verdict, and then, after n calls of `next()`, event n of the text |
| `SimdjsonTape`, `RapidjsonDom`, `SajsonAst` | what a parsed text is for each parser |
| `SimdjsonParser`, `RapidjsonReader`, `SajsonParser` | the parsing machine of each parser |
| `SimdjsonTraverser`, `RapidjsonTraverser`, `SajsonTraverser` | `next()` and the getters of each traverser |
| `SimdjsonProofs`, `RapidjsonProofs`, `SajsonProofs` | the theorems and lemmas about the parser and the traverser of each |
| `StackLemmas` | what they share: sequences used as stacks, induction over finite sets |
| `DocumentComparison` | composes the parsers and traversers: `compare_parsing` on real texts, and what is on the heap |
| `DocumentComparisonProofs` | the theorems about the composition |
| `DocumentTextProofs` | the theorems about what the composition makes of the text |
| `FuzzyFarm` | the processes of `run.py` over one directory |
| `FarmAndDifferenceProofs` | the theorems about `FuzzyFarm`, `FloatingComparison` and `KnownProblem` |
| `MC*` | values of the constants for TLC |

`FuzzyJson` and `DocumentComparison` model the same loop from two sides. The first
has all of `fuzz` and takes what parsers say as a constant, so that it holds for
parsers that disagree in any way; the second has the parsers and traversers
themselves, and one document.

### FuzzyJson

`pc` is the place in the code: `setup` (parsers are added), `loop` (head of the
loop of `fuzz`), `parse` and `compare` (the two halves of `compare_parsing`),
`mutate` (its return), and the ends `done`, `aborted`, `crashed`. The actions are
the iterations of the loops and the branches between them:

| Action | Code |
|---|---|
| `AddParser`, `Fuzz` | `add_parser`, the call of `fuzz` |
| `Save`, `Mutate`, `Finish` | head, end and exit of the loop of `fuzz` |
| `ParseNext`, `NoParser` | one `parse()`; `traversers.at(0)` without parsers |
| `ReportDisagreement`, `GiveUpRejected` | the branches on the parsing states, with the report, the reversal or the abort |
| `StartComparing`, `CompareWithLeader`, `AdvanceLeader`, `StopComparing` | the two nested loops over values and parsers |
| `ScanRunsAway` | the scan of `is_known_problem` leaving the buffer |
| `Tick` | the clock, which names reports |

A document is a model value or a record whose bytes do not matter; what the
parsers do with it is given by the constants `Verdict`, `Stream` and `Crashes`, so
that everything holds for parsers that disagree in any way. Parsers are
deterministic. `RandomJson` is what the code needs of it: any document may come
out of `mutate()`, `reverse_mutation()` restores the one before, and whether it
lowers the count of mutations is left open, because the submodule is not there
to tell. `KnownToRapidjson` are the documents in which, or below which in memory,
the scan finds a zero byte.

The two files of a report are one: `generate_report` writes them one right after
the other under one name, and nothing but a crash of the operating system comes
between. Messages of the verbose mode are left out. `flagged` and `generated` are
history.

### Texts

A text is a sequence of tokens; the structural characters go by the names of
RFC 8259. Numbers are told apart by how the parsers store them (`narrow`, `wide`,
`huge`, `real`). Other tokens are what the parsers disagree on or stumble over: a
null byte, the first byte of a byte order mark (rapidjson skips each of its three
on its own), a string that is not closed, and anything else. There is none for a
number beyond a double, which rapidjson refuses as too big. White space, the contents of strings and the digits of numbers are
left out: a value is known by its position, which is how a mixed-up or repeated
value is noticed.

`JsonGrammar` decides which texts are JSON without a stack: it replaces the
container that closes first by a value until one value is left. Nothing of it
resembles the three parsers. `TextEvents` is a second reference, for the proofs: it
reads from left to right, as the parsers do, but keeps only what may come next
and the brackets that are open (`Run`), and says where the event is that is shown
after n calls of `next()` (`EventAfter`) and what is shown there (`EventAt`).

### The parsers

| Module | State | Steps |
|---|---|---|
| `SimdjsonParser` | `label`, `next_index`, `tape`, `scopes` (`containing_scope_offset` and `ret_address`) | one per label and structural character, as between two `UPDATE_CHAR` |
| `RapidjsonReader` | `state`, `at`, `frames` (calls that have not returned), `values` (the stack of the document) | one per decision of `ParseValue`, `ParseObject`, `ParseArray` |
| `SajsonParser` | `label`, `p`, `stack`, `ast`, `current_base`, `current_structure_type` | one per label and token |

simdjson reads on after its last index. What it finds there is modelled as the
code leaves it: the byte after the text is any token, the index after the last is
the 0 that stage 1 writes, and the one after that was never set: a read of it
fails or dies (`RunAway`). The AST of sajson is filled from its end with distances
from that end, which become distances from the container when that is installed;
the model keeps these numbers, since mixing them up is what could go wrong.

### The traversers

One call of `next()` is one step. The helper objects are records; iterators are
offsets. `current_type` and `container_stack` have the names of the code. The
getters appear as `Shown`, which is what the refinement compares with the
abstract `Traversal`. For simdjson the vendored iterator is modelled with the
tape it walks, since the traverser is a second stack machine on top of the
first; the raw bits of a number are made to look like the end of an array, so
that a step of the wrong width is noticed. The traverser of sajson has a helper
for scalar documents, which sajson never accepts; it is not modelled.

### DocumentComparison

The parsers of a session parse one text, one after the other, and construct their
traversers; if all accept, all traversers are advanced in step and then deleted.
`heap` is what is allocated, by name. `allocate_capacity` may fail (`NoMemory`) for
the texts in `OutOfMemory`. The copy of the text that
`json_parse_implementation` makes is freed when stage 2 returns
(`Stage2Returns`), not when stage 1 refuses. A session adds each parser at most
once (`DocumentAssumption`), as `fuzzytest.cpp` does. The loop is bounded by `MaxCalls[t]`, two calls more
than the text has tokens, so that the end of every document is reached and called
past; how `compare_parsing` itself stops is the business of `FuzzyJson`.

### FuzzyFarm

Each process runs the loop of `fuzz` one system call at a time: the copy, each
report and each saved document are opened (and truncated) by one step and written
by another. A file is the set of documents written to it since it was truncated.
A process may be killed between any two steps, and start with the id of another.
Ids, processes and the clock are bounded by constants; `MaxReports` bounds the
reports of one comparison, `PipeSize` the messages of simdjson that fit into the
pipe of stderr, which `run.py` opens and never reads.

### KnownProblem

Bytes are reduced to the kinds the scan tells apart, and what lies in memory
below the document is any readable bytes followed by an unreadable one: an
undefined read either continues with what is there or ends the process.

### Floatings

A double is an integer multiple of a small unit, an infinity or NaN; the
precision is a fraction. Rounding is left out.

## The runs

| Run | Shows | Bounds |
|---|---|---|
| `fuzz` | `TypeOK`, `KeepsAccepted`, `AbortsOnlyAtStart`, `EvidenceKept`, `Lockstep`, `DifferencesFlagged`, `ReportedWithoutRapidjson`, `AbortIsReported`, `ReportsAreTrue`, `ImplementsSession`, `Termination` | thirteen documents: seven, one per outcome, and six pairs of streams; up to two of three parsers; three mutations; two values compared; two seconds |
| `known_problem` | `NeverUnknown`, `DiesWithoutNull` | documents of up to three bytes, up to two readable bytes below |
| `documents` | `SimdjsonShowsEvents`, `RapidjsonShowsEvents`, `SajsonShowsEvents`, `OnlyWideIntegersDiffer`, `RunsAwayOnNoJson`, `AcceptedLeaveNothing`, `CountsMatchStack`, `StackFits`, `DepthIsNesting`, `InsideScopes`, `IteratorsNest`, `GettersAnswer`, `IndicesNest`, `ShowsInTurn`, `VerdictsFollowText` | about 7000 texts (below), the shipped pair of parsers, all three, and rapidjson last; two calls after the end |
| `simdjson` | `LabelsMatchBrackets`, `ScopesFit`, `NoInternalBug`, `TapeSufficesElsewhere` | every text of up to five structural characters and strings or six brackets, all that are a token away from a nested document, and arrays of 30 and 31 numbers, on both sides of the capacity of the tape; `max_depth` 5 |
| `farm` | `TypeOK`, `EvidenceIsolated`, `ReportsPaired`, `FarmEnds` | two processes with one id or two; the other bounds in `MCFuzzyFarm.cfg` |
| `floating_comparison` | `Symmetric`, `SlackOfStar`, `SignsAgree`, `InfinityInverted` | eleven finite values around the thresholds, both infinities, NaN; six precisions |

The bounds suffice for what can happen: three mutations allow an accepted, a
reversed and again an accepted or fatal document in each order; two parsers
are enough for every branch but the advance of the ones in between, which is
in `report_index` and in the proofs; streams of none to three values with a bound
of two include a stream that ends early, at the bound and beyond it.

The texts of `documents` are: all documents of up to three containers inside one
another with up to two elements, an empty one and a full one before, after and
inside another; every kind of scalar alone, first and second; every sequence of
up to four tokens of structure and of two of any; every text one token away
(replaced, inserted, removed) from an array, an object and a document with a mark
and a null byte; and towers of brackets below, at and beyond the nesting limit of
simdjson. Most are not JSON, and most of those break off in the middle, where a
machine that goes wrong would.

Two processes are enough for the farm: what a process may lose it loses to one
other. Two rounds and two seconds let a report of one round overwrite one of the
other, and let the clock move in the middle of a report.

Each property is violated when a plausible bug is put in place of a definition:
those bugs are the operators marked `mutant`, which nothing uses.

### Where code and documentation disagree

| Run | Property | What happens |
|---|---|---|
| `difference_reported` | `EveryDifferenceReported` | Once a rapidjson parser accepts the document, no difference is ever reported: the loop condition at `rapidjsonparser.h:257` is a tautology, so every problem is a known one, and the null byte "after the json data" it looks for (`rapidjsonparser.h:255`) may be anywhere. |
| `report_lost` | `NoReportLost` | Reports of one process in the same second overwrite each other; the README speaks of nanoseconds and of several processes. |
| `one_parser` | `OneParserNeverFinishes` | One parser does not crash the fuzz; none does. |
| `report_index` | `ReportsOneIndex` | With three parsers, a report shows values of two different indices under one `value_index`. |
| `refused_left` | `NothingLeft` | "The traverser will take ownership of it" (`simdjsonparser.h:130`), but of a text that simdjson refuses no traverser is made that does: the `ParsedJson` is never freed, nor, if stage 1 refused the text, the padded copy. |
| `tape_overflow` | `TapeSuffices` | A text of one-byte tokens takes up to three words of the tape more than it has bytes, where the comment at `simdjson.cpp:1103` (vendored, `singleheader`) counts one: an array of 31 digits is 63 bytes long, takes 66 words and gets 64 (line 1105). |

### Fairness

`Termination` assumes weak fairness of `Step`, the steps of the process: it is a
sequential program that no one else blocks. Nothing is assumed of the clock, nor
of the parsers beyond that `parse` and `next` return.

`FarmEnds` assumes weak fairness of the steps of each process and of its runner: the
operating system schedules them as long as they can run. Nobody has to die and
the clock need not move.

### What the composition shows

* simdjson accepts the JSON texts without a number beyond 64 bits whose nesting is
  at most `max_depth - 2`: the root takes a place, and one more is kept free.
  rapidjson accepts whatever is JSON between the first byte of a byte order mark
  and a null byte. sajson accepts the JSON texts that are a container. All of this
  is said of numbers that fit a double: rapidjson refuses the others as too big,
  and there is no token for them.
* The three show the same values in the same order, except for integers that do
  not fit an `int`, which sajson shows as floating: on every such number a session
  with sajson reports a difference on which all parsers agree.
* What simdjson keeps of a text it refuses (`refused_left`) is all that is ever left:
  the other parsers leave nothing of any text, and it nothing of a text it accepts.
* The tape of n tokens takes up to n + 3 words (`[1]` takes 6). The capacity is
  `len + 1` rounded up to a multiple of 64, so it suffices for a text of one byte
  per token unless its length is 62 or 63 above a multiple of 64
  (`TapeSufficesElsewhere`), and not for each of the others (`tape_overflow`).

## What is proved

With TLAPS, for every value of the constants.

About `FuzzyJson`, for every set of documents, every verdict, stream and crash, any
number of parsers and every bound:

* `TypeCorrect`, `KeepsAcceptedAlways`, `AbortsOnlyAtStartAlways`,
  `EvidenceKeptAlways`, `LockstepAlways` follow from one inductive
  invariant, `IInv` (`Invariance`). None of them is inductive alone. To abort at
  the start only, one has to know that the count of mutations is above zero
  whenever a comparison follows a mutation, although a reversal may have
  lowered it (`Counted`), and to keep what is mutated accepted, that the previous
  document is (`Fallback`), which in turn needs that the states at hand are those
  of the document at hand (`Parsed`).
* `DifferencesFlaggedAlways` needs a second invariant, `FlaggedSoFar`: in the middle
  of the loops, the indices flagged are those of the values done, and of the
  parsers done for the value at hand.
* `ReportedAlways` and `AbortIsReportedAlways` need a third, `ReportedSoFar`: nothing
  is flagged before the first comparison of a document ends or finds something,
  and `generate_report` leaves its report (`ReportWritten`) whenever no rapidjson
  traverser silences it.
* `ReportsAreTrueAlways` needs a fourth, `TrueSoFar`: a report, once written, stays
  true whatever the document at hand becomes, since it names its own. That it is
  true when written takes the order of the code: the report before the reversal,
  and at the index where the traversers stand (`Lockstep`).
* `Refinement`: every behaviour implements `FuzzSession`. The last accepted
  document is the one held while in `mutate`, and the previous one elsewhere;
  each step is a step of the session or leaves it as it is.
* `NeverUnknownAlways` (`KnownProblem`, in `FarmAndDifferenceProofs`): for documents of any size and any memory,
  from the lemma that the condition of the loop always holds; and
  `DiesWithoutNullAlways`, from the invariant that no byte the scan has left behind
  is a null byte (`ScannedWithoutNull`).
* `SymmetricAlways`, `InfinityInvertedAlways`, `SignsAgreeAlways`, `SlackOfStarAlways`
  (`FloatingComparison`, in `FarmAndDifferenceProofs`): for all doubles and fractions. The last needs that the
  three have one sign, and, if the leader is the largest, that the fraction is
  below 1.

About `SimdjsonParser`, for texts of any length, any `max_depth` and whatever follows
the text in memory: `LabelsMatchBracketsAlways`, `NoInternalBugAlways` and
`TapeSufficesElsewhereAlways` follow from `IInv`. It adds that the opening word of a scope stays
as it was written (`ScopesNest`), so that the label kept for a bracket goes on
fitting the bracket around it, that each label stands in a container of its kind
(`LabelFits`), and how far the tape may be ahead of what was read at each label
(`Ahead`): a number takes two words for one character, which only the character
after it makes up for (`WordsForTokens`: up to three words more than tokens, in a
text that is refused too). At the end of the text this rests on one more fact: the
first character, which the machine reads again there, opened a container
(`FirstOpens`). `ScopesFitAlways` needs a second invariant, `DepthInv`: at the
labels that read, one entry is free.

About each traverser alone, on any parsed document: `IteratorsNestAlways` and
`GettersAnswerAlways` (`RapidjsonProofs`, for any DOM) and `IndicesNestAlways`
(`SajsonProofs`, for any AST). `IsDom(V)` says that V is a set of values with the
elements of each of its members; every DOM has one, and `HaveValues` asks for the
same of an AST. The invariants add that a rapidjson helper is past its end only as
it is popped, and before its first element only as long as it is new, and that a
sajson helper that showed a key stands on a member (`Stands`): the value of that
key is shown without another look at the length.

About the two other parsers alone, for texts of any length:

* `CountsMatchStackAlways` (`RapidjsonProofs`). The reader counts and the document
  pops, and neither looks at the other. `ReaderInv` says that there are places on
  the stack, one for each call that has not returned and one for the next, each
  as far above the one before as that call has counted; that the height of the
  stack is the next place, give or take what the label says is pushed next; and
  that what is stacked is a DOM.
* `StackFitsAlways` (`SajsonProofs`). `ParserInv` says that the stack is a chain of
  parts, each with the base and the type of the one before in its first word and
  with keys and elements in turn (`Nest`), and that the AST written so far has the
  elements of each of its containers where their distances lead (`ElementsFit`).
  It takes both: the elements on the stack are references into the AST, and
  installing a container turns those of its part into distances.

About `DocumentComparison`, for all texts, sessions, limits of depth, memory that
fails and memory behind the text:

* `CountsMatchStackAlways` and `StackFitsAlways`, as above, wherever the parser has its
  turn; `IteratorsNestAlways`, `GettersAnswerAlways` and `IndicesNestAlways`, where the
  DOM or AST is not any more assumed but the one this parser has built
  (`RapidjsonInv`, `SajsonInv`): a traverser is constructed in the state its parser
  has accepted in, and the parser rests from then on.
* `DepthIsNestingAlways` and `InsideScopesAlways`: the two stacks of the simdjson
  traverser stay in step. This needs that the tape is a tree (`IsTape`): items that
  know their container, each followed by another item of it or by its end. The
  machine writes the end of a container long after its beginning, so while it runs
  only the containers that are closed have one, and those that are open are
  exactly the scopes (`TapeFits`, one lemma for each way to write: `WriteFits`,
  `OpenFits`, `CloseFits`, `SucceedFits`). On such a tape the iterator's scopes are
  the containers around its item, one inside the other (`Placed`, kept by `down`,
  `up` and `next`), and the stack of the traverser is the same list with at most
  an empty container on top (`WalkInv`); the depth is then its length.
* `RunsAwayOnNoJsonAlways`: the machine, which checks no index against the end of the
  text while it reads, gets to where it may die on no text that any parser could
  take. Two arguments meet. A text that is JSON is balanced: it was reduced to
  one value, and a reduction takes one bracket of each sort away
  (`ReductionBalances`, `JsonIsBalanced`; the brackets are counted by a function of
  heights, not by a cardinality, so that induction over the length is enough). And
  as long as the machine reads within a text that has heights, its scopes are as
  many as the open brackets and one (`HeightInv`, in `SimdjsonProofs`): where the text
  is balanced again the document is over, and it reads no further. What rapidjson
  takes may end at a null character; it is then a prefix that is balanced.
* `AcceptedLeaveNothingAlways`: what is left on the heap. `HeapInv` says what is there at
  every step from what each parser has said, whether its traverser is alive, and
  the label of the parser at work; it needs that a machine's label tells what it
  has said (`LabelsFit`) and that each parser has its turn once (`TurnsFit`).

About `DocumentComparison` and its texts (`DocumentTextProofs`), for the same values:

* `ShowsInTurnAlways`: after some calls of `next()`, each traverser shows the event
  the text has at that turn. Nothing is assumed of the DOM, the AST or the tape:
  that they hold the text is part of the argument (`ReadsInv`). While a parser
  reads, the text read so far can be continued as its label says, with its open
  containers those of the text; what is stacked or written has each value where
  the text has it, and knows which token it was; and once it has finished, each
  container holds the elements the text has between its brackets. A traverser
  that walks it is at the event whose turn it is, with the containers that are
  open there on its stack.
* `OnlyWideIntegersDifferAlways`: two traversers show events of one text at one turn,
  so that they differ only where the parsers store a number differently
  (`NoFalseDifference`).
* `VerdictsFollowTextAlways`: a parser that stops knows whether the text was one
  whole value (`VerdictsInv`). For simdjson this includes what it reads behind the
  end of a text that breaks off: it does not accept by it. rapidjson may stop at a
  null byte, and sajson, which wants a container, may not.

The lemmas about a component are used by `INSTANCE` with the variables of the
composition. An instance repeats the definitions of the module it instantiates, and
the provers take the repetitions for different: the lemmas `Same...` say that they
are equal.

About `FuzzyFarm`, for any number of processes, ids, mutations and reports:
`TypeOKAlways`, `EvidenceIsolatedAlways` and `ReportsPairedAlways`. The invariants say
what the copy and the two files of every second hold at each place in the code,
and that nobody else writes to the files of a process with an id of its own.

The assumptions are the named ones of each module: the constants have their
types, streams contain no end of document, `MaxValues` is positive, and `max_depth`
is above 2, which leaves room for the root and a container (the code has 1024; of
2 or less the machine would refuse every document, in an order of writing and
looking at the depth that the model does not follow).

Only model-checked:

* `Termination` and `FarmEnds`: liveness under fairness, which needs ENABLED.
* `SimdjsonShowsEvents`, `RapidjsonShowsEvents` and `SajsonShowsEvents`. What is proved
  is their content against a text that is read from left to right; that this
  reading agrees with the grammar of `JsonGrammar`, which reduces containers from
  the inside, is not. TLC compares them text by text.

The induction theorems of the library cannot be used, since they take an operator
as a parameter. Induction over the numbers is still there, stated with sets:
`SmallestElement` and `SetInduction` (`StackLemmas`), from which follow the lemmas about
the recursive functions `Below` and `Part` (`BelowIsPlace`, `PartIsPart`) and about the
reductions of `IsJson` (`ReductionsExist`).

## Not modelled

* Decoding: of strings, of numbers and of UTF-8, and the kernels of stage 1 of
  simdjson, which are modelled by the indexes they deliver. They keep no state
  between tokens.
* Whatever of the vendored libraries the code never calls: schemas, pointers,
  writers, other modes of parsing, tables, tests and tools. They are all but a
  small part of `dependencies/`, and most of the lines of the repository.
* RandomJson beyond what is said above: its sources are not there.
* Growth of the buffers of sajson, and failure to allocate anywhere but in simdjson.
* Which function frees the buffer of sajson (`delete[]` for `malloc`), and that its
  traverser reads the root from a document that was moved from.
* The contents of a report (`writer.Int` truncates integers to 32 bits).
* The command line (`src/fuzzytest.cpp`, `args`), which copies flags into settings, and
  `jsondocument.h`, which nothing includes.

## Plan

Done, in the order of importance: the loop and the comparison (`FuzzyJson`,
`FuzzSession`), the suppression of reports (`KnownProblem`), the traversers, the
comparison of doubles, the farm, the parsers and their composition. Next:

1. The contents of reports: which of the two integers of a difference survive
   32 bits.
2. A refinement from `DocumentComparison` to the streams of `FuzzyJson`.
3. A theorem that reading a text from left to right (`TextEvents`) and reducing it
   from the inside (`JsonGrammar`) agree, from which the three `...ShowsEvents` follow.
