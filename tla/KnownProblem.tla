---------------------------- MODULE KnownProblem ----------------------------
(***************************************************************************)
(* RapidjsonTraverser::is_known_problem (include/rapidjsonparser.h): is    *)
(* the difference FuzzyJson found one that rapidjson is known for?         *)
(*                                                                         *)
(* The document is a buffer of bytes, of which only the kind matters. What *)
(* lies in memory below the buffer is not the program's to choose: some    *)
(* readable bytes, then an address that cannot be read. Reading below the  *)
(* buffer is undefined; what a build does is read what is there, or die.   *)
(***************************************************************************)
EXTENDS Integers

CONSTANTS
  MaxSize,   \* bound on the size of the document
  MaxBelow   \* bound on the readable bytes below it

ASSUME SizeAssumption == MaxSize \in Nat \ {0} /\ MaxBelow \in Nat

\* Closing byte of an object, an array or a string; null; one of 0xbb, 0xbf
\* and 0xef; anything else.
Byte == {"brace", "bracket", "quote", "null", "mark", "other"}

VARIABLES
  parsing_state,  \* of the traverser that is asked
  size,           \* of the document
  below,          \* how many bytes below the document can be read
  json,           \* the bytes, from -below to size - 1
  stage,          \* "first byte", "scan", "returned", "died"
  i,              \* index of the scan
  answer          \* what is returned

asked == <<parsing_state, size, below, json, stage, i, answer>>
buffer == <<parsing_state, size, below, json>>

SecondLast == size - 2 \* mutant
LastByte == size - 1

Asked ==
  /\ parsing_state \in {"ok", "error"}
  /\ size \in 1 .. MaxSize
  /\ below \in 0 .. MaxBelow
  /\ json \in [-below .. size - 1 -> Byte]
  /\ stage = "first byte"
  /\ i = LastByte
  /\ answer = FALSE

Return(value) == stage' = "returned" /\ answer' = value

FirstByte ==
  /\ stage = "first byte"
  /\ CASE parsing_state = "error" -> Return(FALSE)
       [] parsing_state = "ok" /\ json[0] = "mark" -> Return(TRUE)
       [] OTHER -> stage' = "scan" /\ UNCHANGED answer
  /\ UNCHANGED <<buffer, i>>

Readable == i \in -below .. size - 1

\* The condition of the loop: a byte differs from one of the three or from
\* another.
OutsideStructure == \* mutant
  json[i] # "brace" /\ json[i] # "bracket" /\ json[i] # "quote"
GoesOn ==
  json[i] # "brace" \/ json[i] # "bracket" \/ json[i] # "quote"

\* One evaluation of the loop's condition, and the body if it holds.
Scan ==
  /\ stage = "scan"
  /\ Readable
  /\ CASE ~GoesOn -> Return(FALSE) /\ UNCHANGED i
       [] GoesOn /\ json[i] = "null" -> Return(TRUE) /\ UNCHANGED i
       [] OTHER -> i' = i - 1 /\ UNCHANGED <<stage, answer>>
  /\ UNCHANGED buffer

RunAway ==
  /\ stage = "scan"
  /\ ~Readable
  /\ stage' = "died"
  /\ UNCHANGED <<buffer, i, answer>>

Terminated == stage \in {"returned", "died"} /\ UNCHANGED asked

Answering == FirstByte \/ Scan \/ RunAway \/ Terminated

KnownProblemSpec == Asked /\ [][Answering]_asked

-----------------------------------------------------------------------------
(***************************************************************************)
(* Properties.                                                             *)
(***************************************************************************)

NullAt(range) == \E p \in range : json[p] = "null"

\* A traverser that accepted its document never answers that the problem is
\* unknown: generate_report, which asks before it writes, then never writes.
NeverUnknown == stage = "returned" /\ parsing_state = "ok" => answer

\* The process dies only if no null byte is in reach of the scan, in the
\* document or below it: a document with one is always answered for.
DiesWithoutNull == stage = "died" => ~NullAt(-below .. size - 1)

=============================================================================
