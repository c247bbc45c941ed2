--------------------------- MODULE SimdjsonProofs ---------------------------
(***************************************************************************)
(* Proofs about SimdjsonParser, its tape and SimdjsonTraverser, for every  *)
(* set of texts and every depth.                                           *)
(*                                                                         *)
(* The properties are not inductive as they stand. That the labels match   *)
(* the brackets needs that the words of the open brackets are never        *)
(* overwritten by others and that the label to return to is right already  *)
(* when a bracket opens (ScopesNest); the bound on the tape needs that the *)
(* machine is a word ahead at the labels where a value is complete, and    *)
(* there only (Ahead). What the traverser meets needs that the tape is a   *)
(* tree: an item is followed by another of its container or by its end,    *)
(* and the first item of a container stands behind its opening word        *)
(* (IsTape); while the machine runs, that holds of all but the containers  *)
(* that are open, which are those of the scopes (TreeInv). And it needs    *)
(* that the scopes of the traverser are the containers around the item it  *)
(* shows (Placed). How far the machine reads needs that its scopes are the *)
(* brackets that are open where it reads (HeightInv). That the traverser   *)
(* shows the text needs that the items on the tape are the events of the   *)
(* text in their order, and that the machine is where the text is as long  *)
(* as it reads within it (TapeReads); whether the text is taken is known   *)
(* from where it stops, and how deep it was (VerdictInv).                  *)
(***************************************************************************)
EXTENDS SimdjsonParser, StackLemmas, FiniteSetTheorems

-----------------------------------------------------------------------------
(***************************************************************************)
(* The inductive invariant.                                                *)
(***************************************************************************)

Label == Reading \cup Verdict \cup {"stage_1", "start_continue", "succeed"}
StoredPayload ==
  {NoPayload} \cup {Payload(kind, n) : kind \in ScalarKind, n \in Nat}
WordTypes == Opening \cup Closing \cup {"r", "quote", "t", "f", "n", "l", "d"}
TapeWord == [type : WordTypes, value : Nat, payload : StoredPayload]
Scope == [offset : Nat, ret : Label]

TypeOK ==
  /\ text \in Text
  /\ label \in Label
  /\ next_index \in Nat
  /\ tape \in Seq(TapeWord)
  /\ scopes \in Seq(Scope)

Running == label \notin Verdict \cup {"stage_1"}

ReturnOf(bracket) ==
  IF bracket = "begin_object" THEN "object_continue" ELSE "array_continue"

\* The first scope is the root's, the second returns to it, and every other
\* one to the bracket around it; all words they start with are on the tape.
ScopesNest ==
  /\ Len(scopes) >= 1
  /\ scopes[1].offset = 0
  /\ \A n \in 1 .. Len(scopes) : scopes[n].offset < Len(tape)
  /\ \A n \in 2 .. Len(scopes) : Bracket(scopes[n]) \in Opening
  /\ Len(scopes) >= 2 => scopes[2].ret = "start_continue"
  /\ \A n \in 3 .. Len(scopes) :
       scopes[n].ret = ReturnOf(Bracket(scopes[n - 1]))

LabelFits ==
  /\ label \in InObject =>
       Len(scopes) > 1 /\ Bracket(scopes[Len(scopes)]) = "begin_object"
  /\ label \in InArray =>
       Len(scopes) > 1 /\ Bracket(scopes[Len(scopes)]) = "begin_array"
  /\ label \in {"start", "start_continue", "succeed"} => Len(scopes) = 1

Complete == {"object_continue", "array_continue", "start_continue", "succeed"}
Ahead ==
  /\ label = "succeeded" => Len(tape) <= Len(text) + 3
  /\ label # "succeeded" => Len(tape) <= next_index + 2
  /\ label \notin Complete \cup {"succeeded", "failed", "died"} =>
       Len(tape) <= next_index + 1

IInv ==
  /\ TypeOK
  /\ Running => text # <<>> /\ ScopesNest /\ LabelFits
  /\ label # "internal_bug"
  /\ Ahead
  /\ label = "succeed" => next_index = Len(text)

-----------------------------------------------------------------------------
(***************************************************************************)
(* Sequences, words and characters.                                        *)
(***************************************************************************)

LEMMA OneOrMore ==
  ASSUME NEW n \in Nat, n >= 1
  PROVE  n = 1 \/ n >= 2
OBVIOUS

LEMMA TwoOrMore ==
  ASSUME NEW n \in Nat, n > 1
  PROVE  n = 2 \/ n >= 3
OBVIOUS

LEMMA WordType ==
  ASSUME NEW type \in WordTypes, NEW value \in Nat,
         NEW payload \in StoredPayload
  PROVE  /\ Word(type, value, payload) \in TapeWord
         /\ Word(type, value, payload).type = type
BY DEF Word, TapeWord

LEMMA PayloadType ==
  /\ NoPayload \in StoredPayload
  /\ \A kind \in ScalarKind, n \in Nat : Payload(kind, n) \in StoredPayload
BY DEF StoredPayload

\* A value that is no container takes one word or two.
LEMMA ScalarWordsType ==
  ASSUME NEW kind \in ScalarKind \ {"huge"}, NEW n \in Nat
  PROVE  /\ ScalarWords(kind, n) \in Seq(TapeWord)
         /\ Len(ScalarWords(kind, n)) \in 1 .. 2
<1> DEFINE word(type) == Word(type, 0, Payload(kind, n))
           bits == Word("end_array", 0, NoPayload)
<1>1. ASSUME NEW type \in WordTypes PROVE word(type) \in TapeWord
  <2>1. Payload(kind, n) \in StoredPayload
    BY PayloadType
  <2> QED
    BY <2>1, WordType
<1>2. bits \in TapeWord
  BY WordType, PayloadType DEF WordTypes, Opening, Closing
<1>3. \/ \E type \in WordTypes : ScalarWords(kind, n) = <<word(type)>>
      \/ \E type \in WordTypes : ScalarWords(kind, n) = <<word(type), bits>>
  BY DEF ScalarWords, Number, ScalarKind, AtomKind, NumberKind, WordTypes,
           Opening, Closing
<1> HIDE DEF word, bits
<1>4. CASE \E type \in WordTypes : ScalarWords(kind, n) = <<word(type)>>
  <2> PICK type \in WordTypes : ScalarWords(kind, n) = <<word(type)>>
    BY <1>4
  <2> QED
    BY <1>1
<1>5. CASE \E type \in WordTypes : ScalarWords(kind, n) = <<word(type), bits>>
  <2> PICK type \in WordTypes : ScalarWords(kind, n) = <<word(type), bits>>
    BY <1>5
  <2> QED
    BY <1>1, <1>2
<1> QED
  BY <1>3, <1>4, <1>5

LEMMA CharType ==
  ASSUME TypeOK, text # <<>>, next_index <= NumberOfIndexes,
         NEW c \in CharsAt(next_index)
  PROVE  c \in Token
<1>1. text \in Seq(Token) /\ Len(text) \in Nat \ {0}
  BY SimdjsonAssumption, EmptySeq DEF TypeOK
<1>2. \A n \in 1 .. Len(text) : text[n] \in Token
  BY <1>1, ElementOfSeq
<1> QED
  BY <1>1, <1>2 DEF CharsAt, NumberOfIndexes, TypeOK

-----------------------------------------------------------------------------
(***************************************************************************)
(* What each step does to the open scopes.                                 *)
(***************************************************************************)

\* The tape may change, but no word changes its type.
TypesKept ==
  /\ tape' \in Seq(TapeWord)
  /\ Len(tape') >= Len(tape)
  /\ \A k \in 1 .. Len(tape) : tape'[k].type = tape[k].type

\* The bracket of a scope after the step.
NewBracket(n) == tape'[scopes'[n].offset + 1].type

LEMMA ScopeFacts ==
  ASSUME TypeOK
  PROVE  /\ Len(tape) \in Nat /\ Len(scopes) \in Nat
         /\ \A n \in 1 .. Len(scopes) :
              /\ scopes[n] \in Scope
              /\ scopes[n].offset \in Nat
              /\ scopes[n].ret \in Label
<1>1. \A n \in 1 .. Len(scopes) : scopes[n] \in Scope
  BY ElementOfSeq DEF TypeOK
<1> QED
  BY <1>1, LenProperties DEF TypeOK, Scope

LEMMA BracketsKept ==
  ASSUME TypeOK, ScopesNest, TypesKept
  PROVE  \A n \in 1 .. Len(scopes) :
           tape'[scopes[n].offset + 1].type = Bracket(scopes[n])
<1> SUFFICES ASSUME NEW n \in 1 .. Len(scopes)
             PROVE  tape'[scopes[n].offset + 1].type = Bracket(scopes[n])
  OBVIOUS
<1>1. scopes[n].offset \in Nat /\ scopes[n].offset < Len(tape) /\ Len(tape) \in Nat
  BY ScopeFacts DEF ScopesNest
<1>2. scopes[n].offset + 1 \in 1 .. Len(tape)
  BY <1>1
<1> QED
  BY <1>2 DEF TypesKept, Bracket

LEMMA NestKept ==
  ASSUME TypeOK, ScopesNest, TypesKept, UNCHANGED scopes
  PROVE  ScopesNest' /\ \A n \in 1 .. Len(scopes) :
                           Bracket(scopes[n])' = Bracket(scopes[n])
<1>1. \A n \in 1 .. Len(scopes) : Bracket(scopes[n])' = Bracket(scopes[n])
  BY BracketsKept DEF Bracket
<1>2. Len(tape') \in Nat /\ Len(tape) \in Nat
  BY LenProperties DEF TypeOK, TypesKept
<1>3. \A n \in 1 .. Len(scopes) : scopes[n].offset < Len(tape')
  BY <1>2, ScopeFacts DEF ScopesNest, TypesKept
<1> HIDE DEF Bracket
<1> QED
  BY <1>1, <1>3, ScopeFacts DEF ScopesNest

\* Writing words at the end.
LEMMA WriteKeeps ==
  ASSUME TypeOK, NEW words \in Seq(TapeWord), tape' = tape \o words
  PROVE  TypesKept /\ Len(tape') = Len(tape) + Len(words)
<1>1. /\ tape' \in Seq(TapeWord)
      /\ Len(tape') = Len(tape) + Len(words)
      /\ \A k \in 1 .. Len(tape) + Len(words) :
           tape'[k] = IF k <= Len(tape) THEN tape[k] ELSE words[k - Len(tape)]
  BY ConcatProperties DEF TypeOK
<1>2. Len(tape) \in Nat /\ Len(words) \in Nat
  BY LenProperties DEF TypeOK
<1> QED
  BY <1>1, <1>2 DEF TypesKept

\* Where a container that opens here returns to.
ReturnHere ==
  IF Len(scopes) = 1 THEN "start_continue"
                     ELSE ReturnOf(Bracket(scopes[Len(scopes)]))

LEMMA OpenKeeps ==
  ASSUME TypeOK, ScopesNest, NEW c \in Opening, OpenScope(c, ReturnHere)
  PROVE  /\ tape' \in Seq(TapeWord) /\ scopes' \in Seq(Scope)
         /\ Len(tape') = Len(tape) + 1
         /\ ScopesNest' /\ LabelFits'
         /\ label' \in {"failed", "object_begin", "array_begin"}
<1> DEFINE scope == [offset |-> Len(tape), ret |-> ReturnHere]
<1>1. Len(tape) \in Nat /\ Len(scopes) \in Nat /\ Len(scopes) >= 1
  BY ScopeFacts DEF ScopesNest
<1>2. ReturnHere \in Label
  BY DEF ReturnHere, ReturnOf, Label, Reading
<1>3. scope \in Scope
  BY <1>1, <1>2 DEF Scope
<1>4. OpeningWords(c) \in Seq(TapeWord) /\ Len(OpeningWords(c)) = 1
        /\ OpeningWords(c)[1].type = c
  <2>1. Word(c, 0, NoPayload) \in TapeWord /\ Word(c, 0, NoPayload).type = c
    BY WordType, PayloadType DEF WordTypes, Opening, Closing
  <2> QED
    BY <2>1 DEF OpeningWords
<1>5. tape' = tape \o OpeningWords(c) /\ scopes' = Append(scopes, scope)
  BY DEF OpenScope, Opening
<1>6. TypesKept /\ Len(tape') = Len(tape) + 1
  BY <1>1, <1>4, <1>5, WriteKeeps
<1>7. tape'[Len(tape) + 1].type = c
  <2>1. \A k \in 1 .. Len(tape) + 1 :
          tape'[k] = IF k <= Len(tape) THEN tape[k]
                                       ELSE OpeningWords(c)[k - Len(tape)]
    BY <1>4, <1>5, ConcatProperties DEF TypeOK
  <2>2. Len(tape) + 1 \in 1 .. Len(tape) + 1 /\ ~(Len(tape) + 1 <= Len(tape))
          /\ Len(tape) + 1 - Len(tape) = 1
    BY <1>1
  <2>3. tape'[Len(tape) + 1] = OpeningWords(c)[1]
    BY <2>1, <2>2
  <2> QED
    BY <1>4, <2>3
<1> HIDE DEF scope
<1>8. /\ scopes' \in Seq(Scope)
      /\ Len(scopes') = Len(scopes) + 1
      /\ \A n \in 1 .. Len(scopes) : scopes'[n] = scopes[n]
      /\ scopes'[Len(scopes) + 1] = scope
  <2>1. /\ Append(scopes, scope) \in Seq(Scope)
        /\ Len(Append(scopes, scope)) = Len(scopes) + 1
        /\ \A n \in 1 .. Len(scopes) : Append(scopes, scope)[n] = scopes[n]
        /\ Append(scopes, scope)[Len(scopes) + 1] = scope
    BY <1>3, AppendProperties DEF TypeOK
  <2> QED
    BY <1>5, <2>1
<1>9. \A n \in 1 .. Len(scopes) : NewBracket(n) = Bracket(scopes[n])
  BY <1>6, <1>8, BracketsKept DEF NewBracket
<1>10. scope.offset = Len(tape) /\ scope.ret = ReturnHere
  BY DEF scope
<1>11. NewBracket(Len(scopes) + 1) = c
  <2>1. scopes'[Len(scopes) + 1].offset = Len(tape)
    BY <1>8, <1>10
  <2> QED
    BY <1>7, <2>1 DEF NewBracket
<1>12. ScopesNest'
  <2>1. Len(scopes') >= 1 /\ scopes'[1].offset = 0
    BY <1>1, <1>8 DEF ScopesNest
  <2>2. ASSUME NEW n \in 1 .. Len(scopes') PROVE scopes'[n].offset < Len(tape')
    BY <1>1, <1>6, <1>8, <1>10, ScopeFacts DEF ScopesNest
  <2>3. ASSUME NEW n \in 2 .. Len(scopes')
        PROVE  NewBracket(n) \in Opening
    <3>1. CASE n = Len(scopes) + 1
      BY <3>1, <1>11
    <3>2. CASE n # Len(scopes) + 1
      <4>1. n \in 2 .. Len(scopes)
        BY <1>1, <1>8, <3>2
      <4> QED
        BY <1>1, <1>9, <4>1 DEF ScopesNest
    <3> QED
      BY <3>1, <3>2
  <2>4. Len(scopes') >= 2 => scopes'[2].ret = "start_continue"
    <3>1. CASE Len(scopes) = 1
      <4>1. scopes'[2] = scope
        BY <1>8, <3>1
      <4> QED
        BY <1>10, <3>1, <4>1 DEF ReturnHere
    <3>2. CASE Len(scopes) >= 2
      <4>1. scopes'[2] = scopes[2]
        BY <1>1, <1>8, <3>2
      <4> QED
        BY <3>2, <4>1 DEF ScopesNest
    <3>3. Len(scopes) = 1 \/ Len(scopes) >= 2
      BY <1>1, OneOrMore
    <3> QED
      BY <3>1, <3>2, <3>3
  <2>5. ASSUME NEW n \in 3 .. Len(scopes')
        PROVE  scopes'[n].ret = ReturnOf(NewBracket(n - 1))
    <3>1. n - 1 \in 1 .. Len(scopes) /\ NewBracket(n - 1) = Bracket(scopes[n - 1])
      BY <1>1, <1>8, <1>9
    <3>2. CASE n = Len(scopes) + 1
      BY <1>1, <1>8, <1>10, <3>1, <3>2 DEF ReturnHere
    <3>3. CASE n # Len(scopes) + 1
      <4>1. n \in 3 .. Len(scopes) /\ n \in 1 .. Len(scopes)
        BY <1>1, <1>8, <3>3
      <4>2. scopes[n].ret = ReturnOf(Bracket(scopes[n - 1]))
        BY <4>1 DEF ScopesNest
      <4> QED
        BY <1>8, <3>1, <4>1, <4>2
    <3> QED
      BY <3>2, <3>3
  <2> QED
    BY <2>1, <2>2, <2>3, <2>4, <2>5 DEF ScopesNest, NewBracket, Bracket, ReturnOf
<1>13. /\ label' \in {"failed", "object_begin", "array_begin"}
       /\ label' = "object_begin" => c = "begin_object"
       /\ label' = "array_begin" => c = "begin_array"
  BY DEF OpenScope, Opening
<1>14. LabelFits'
  BY <1>1, <1>8, <1>11, <1>13 DEF LabelFits, InObject, InArray, NewBracket, Bracket
<1> QED
  BY <1>6, <1>8, <1>12, <1>13, <1>14 DEF TypesKept

\* The value of a word may be filled in later.
Filled(t, m, v) == [t EXCEPT ![m].value = v]

LEMMA FillKeeps ==
  ASSUME NEW t \in Seq(TapeWord), NEW m \in 1 .. Len(t), NEW v \in Nat
  PROVE  /\ Filled(t, m, v) \in Seq(TapeWord)
         /\ Len(Filled(t, m, v)) = Len(t)
         /\ \A k \in 1 .. Len(t) : Filled(t, m, v)[k].type = t[k].type
<1> DEFINE word == [t[m] EXCEPT !.value = v]
           filled == [t EXCEPT ![m] = word]
<1>1. t[m] \in TapeWord
  BY ElementOfSeq
<1>2. word \in TapeWord /\ word.type = t[m].type
  BY <1>1 DEF TapeWord
<1> HIDE DEF word
<1>3. /\ filled \in Seq(TapeWord)
      /\ Len(filled) = Len(t)
      /\ \A k \in 1 .. Len(t) : filled[k] = IF k = m THEN word ELSE t[k]
  BY <1>2, ExceptSeq
<1>4. Filled(t, m, v) = filled
  BY DEF Filled, word
<1> QED
  BY <1>2, <1>3, <1>4

LEMMA FillValue ==
  ASSUME NEW t \in Seq(TapeWord), NEW m \in 1 .. Len(t), NEW v \in Nat
  PROVE  /\ \A k \in 1 .. Len(t) : k # m => Filled(t, m, v)[k] = t[k]
         /\ Filled(t, m, v)[m].value = v
<1>1. t \in [1 .. Len(t) -> TapeWord] /\ t[m] \in TapeWord
  BY ElementOfSeq, LenProperties
<1> QED
  BY <1>1 DEF Filled, TapeWord

LEMMA AddWordKeeps ==
  ASSUME NEW t \in Seq(TapeWord), NEW u \in Seq(TapeWord), NEW word \in TapeWord,
         Len(u) = Len(t), \A k \in 1 .. Len(t) : u[k].type = t[k].type
  PROVE  /\ Append(u, word) \in Seq(TapeWord)
         /\ Len(Append(u, word)) = Len(t) + 1
         /\ \A k \in 1 .. Len(t) : Append(u, word)[k].type = t[k].type
BY AppendProperties

LEMMA CloseKeeps ==
  ASSUME TypeOK, ScopesNest, Len(scopes) > 1, NEW c \in Closing, CloseScope(c)
  PROVE  /\ tape' \in Seq(TapeWord) /\ scopes' \in Seq(Scope)
         /\ Len(tape') = Len(tape) + 1
         /\ ScopesNest' /\ LabelFits'
         /\ label' \in {"start_continue", "object_continue", "array_continue"}
<1> DEFINE depth == Len(scopes)
           scope == scopes[depth]
           closed == [tape EXCEPT ![scope.offset + 1].value = Len(tape) + 1]
           word == Word(c, scope.offset, NoPayload)
<1>1. /\ Len(tape) \in Nat /\ depth \in Nat
      /\ scope.offset \in Nat /\ scope.offset < Len(tape)
      /\ \A n \in 1 .. depth : scopes[n].offset < Len(tape)
  BY ScopeFacts DEF ScopesNest
<1>2. /\ tape' = Append(closed, word)
      /\ scopes' = Front(scopes)
      /\ label' = scope.ret
  BY DEF CloseScope, Last, ScopesAround
<1>3. word \in TapeWord
  BY <1>1, WordType, PayloadType DEF WordTypes, Opening, Closing
<1>4. /\ closed \in Seq(TapeWord) /\ Len(closed) = Len(tape)
      /\ \A k \in 1 .. Len(tape) : closed[k].type = tape[k].type
  <2>1. scope.offset + 1 \in 1 .. Len(tape) /\ Len(tape) + 1 \in Nat
    BY <1>1
  <2> HIDE DEF scope
  <2>2. tape \in Seq(TapeWord)
    BY DEF TypeOK
  <2>3. closed = Filled(tape, scope.offset + 1, Len(tape) + 1)
    BY DEF Filled
  <2> HIDE DEF closed
  <2> QED
    BY <2>1, <2>2, <2>3, FillKeeps
<1> HIDE DEF closed, word
<1>5. TypesKept /\ Len(tape') = Len(tape) + 1
  <2>1. /\ Append(closed, word) \in Seq(TapeWord)
        /\ Len(Append(closed, word)) = Len(tape) + 1
        /\ \A k \in 1 .. Len(tape) : Append(closed, word)[k].type = tape[k].type
    BY <1>3, <1>4, AddWordKeeps DEF TypeOK
  <2> QED
    BY <1>1, <1>2, <2>1 DEF TypesKept
<1>6. /\ scopes' \in Seq(Scope)
      /\ Len(scopes') = depth - 1
      /\ \A n \in 1 .. depth - 1 : scopes'[n] = scopes[n]
  <2>1. scopes # <<>> /\ scopes \in Seq(Scope)
    BY EmptySeq DEF TypeOK
  <2> QED
    BY <1>2, <2>1, FrontFacts
<1>7. \A n \in 1 .. depth - 1 : NewBracket(n) = Bracket(scopes[n])
  BY <1>1, <1>5, <1>6, BracketsKept DEF NewBracket
<1>8. depth - 1 \in Nat /\ depth - 1 >= 1
  BY <1>1
<1>9. ScopesNest'
  <2>1. Len(scopes') >= 1 /\ scopes'[1].offset = 0
    BY <1>6, <1>8 DEF ScopesNest
  <2>2. ASSUME NEW n \in 1 .. Len(scopes') PROVE scopes'[n].offset < Len(tape')
    BY <1>1, <1>5, <1>6, ScopeFacts
  <2>3. ASSUME NEW n \in 2 .. Len(scopes') PROVE NewBracket(n) \in Opening
    BY <1>1, <1>6, <1>7 DEF ScopesNest
  <2>4. Len(scopes') >= 2 => scopes'[2].ret = "start_continue"
    BY <1>1, <1>6 DEF ScopesNest
  <2>5. ASSUME NEW n \in 3 .. Len(scopes')
        PROVE  scopes'[n].ret = ReturnOf(NewBracket(n - 1))
    <3>1. n \in 3 .. depth /\ n \in 1 .. depth - 1 /\ n - 1 \in 1 .. depth - 1
      BY <1>1, <1>6
    <3>2. scopes[n].ret = ReturnOf(Bracket(scopes[n - 1]))
      BY <3>1 DEF ScopesNest
    <3> QED
      BY <1>6, <1>7, <3>1, <3>2
  <2> QED
    BY <2>1, <2>2, <2>3, <2>4, <2>5 DEF ScopesNest, NewBracket, Bracket, ReturnOf
<1>10. CASE depth = 2
  <2>1. label' = "start_continue" /\ Len(scopes') = 1
    BY <1>2, <1>6, <1>10 DEF ScopesNest
  <2> QED
    BY <1>5, <1>6, <1>9, <2>1 DEF LabelFits, InObject, InArray, TypesKept
<1>11. CASE depth >= 3
  <2>1. depth \in 3 .. depth /\ depth - 1 \in 2 .. depth
    BY <1>1, <1>11
  <2>2. label' = ReturnOf(Bracket(scopes[depth - 1]))
    BY <1>2, <2>1 DEF ScopesNest
  <2>3. Bracket(scopes[depth - 1]) \in Opening
    BY <2>1 DEF ScopesNest
  <2>4. NewBracket(Len(scopes')) = Bracket(scopes[depth - 1])
    BY <1>6, <1>7, <1>8
  <2>5. Len(scopes') > 1
    BY <1>6, <2>1
  <2>6. /\ label' \in {"object_continue", "array_continue"}
        /\ label' = "object_continue" => NewBracket(Len(scopes')) = "begin_object"
        /\ label' = "array_continue" => NewBracket(Len(scopes')) = "begin_array"
    BY <2>2, <2>3, <2>4 DEF ReturnOf, Opening
  <2>7. LabelFits'
    BY <2>5, <2>6 DEF LabelFits, InObject, InArray, NewBracket, Bracket
  <2> QED
    BY <1>5, <1>6, <1>9, <2>6, <2>7 DEF TypesKept
<1>12. depth = 2 \/ depth >= 3
  BY <1>1, TwoOrMore
<1> QED
  BY <1>10, <1>11, <1>12

-----------------------------------------------------------------------------
(***************************************************************************)
(* The invariant is kept by what a label does with the character it reads. *)
(***************************************************************************)

LEMMA ReadFacts ==
  ASSUME IInv, NEW here \in Reading, AtLabel(here), UpdateChar
  PROVE  /\ TypeOK /\ ScopesNest /\ LabelFits
         /\ label = here /\ text # <<>> /\ text' = text
         /\ next_index \in Nat /\ next_index' = next_index + 1
         /\ Len(tape) \in Nat /\ Len(tape) <= next_index + 2
         /\ here \notin Complete => Len(tape) <= next_index + 1
         /\ \A c \in CharsAt(next_index) : c \in Token
<1>1. TypeOK /\ label = here /\ next_index <= NumberOfIndexes
  BY DEF IInv, AtLabel
<1>2. text # <<>> /\ ScopesNest /\ LabelFits
  BY <1>1 DEF IInv, Running, Reading, Verdict
<1>3. /\ next_index \in Nat /\ Len(tape) \in Nat
      /\ text' = text /\ next_index' = next_index + 1
  BY <1>1, ScopeFacts DEF TypeOK, UpdateChar
<1>4. /\ Len(tape) <= next_index + 2
      /\ here \notin Complete => Len(tape) <= next_index + 1
  <2>1. Ahead
    BY DEF IInv
  <2> QED
    BY <1>1, <1>3, <2>1 DEF Ahead, Reading, Complete
<1>5. \A c \in CharsAt(next_index) : c \in Token
  BY <1>1, <1>2, CharType
<1> QED
  BY <1>1, <1>2, <1>3, <1>4, <1>5

\* What is left to show of a step that reads a character.
LEMMA ReadKeeps ==
  ASSUME TypeOK, text # <<>>, text' = text, next_index' = next_index + 1,
         tape' \in Seq(TapeWord), scopes' \in Seq(Scope),
         label' \in Reading \cup {"start_continue", "failed"},
         label' # "failed" => ScopesNest' /\ LabelFits',
         Len(tape') <= next_index + 3,
         label' \notin Complete \cup {"failed"} => Len(tape') <= next_index + 2
  PROVE  IInv'
<1>1. next_index \in Nat /\ next_index' \in Nat /\ Len(tape') \in Nat
  BY LenProperties DEF TypeOK
<1>2. TypeOK'
  BY <1>1 DEF TypeOK, Label, Verdict
<1>3. Running' => text' # <<>> /\ ScopesNest' /\ LabelFits'
  BY DEF Running, Verdict
<1>4. label' \notin {"internal_bug", "succeed", "succeeded"}
  BY DEF Reading
<1>5. Ahead'
  BY <1>1, <1>4 DEF Ahead, Complete
<1> QED
  BY <1>2, <1>3, <1>4, <1>5 DEF IInv

LEMMA FailStep ==
  ASSUME IInv, NEW here \in Reading, AtLabel(here), UpdateChar, Fail
  PROVE  IInv'
<1>1. label' = "failed" /\ tape' = tape /\ scopes' = scopes
  BY DEF Fail, Goto
<1>2. Len(tape') <= next_index + 3
  BY <1>1, ReadFacts
<1> QED
  BY <1>1, <1>2, ReadFacts, ReadKeeps DEF TypeOK

\* From a label of a container to another of the same.
LEMMA GotoStep ==
  ASSUME IInv, NEW here \in Reading, AtLabel(here), UpdateChar,
         NEW next \in Reading, Goto(next),
         \/ here \in InObject /\ next \in InObject
         \/ here \in InArray /\ next \in InArray
  PROVE  IInv'
<1>1. label' = next /\ tape' = tape /\ scopes' = scopes
  BY DEF Goto
<1>2. ScopesNest' /\ LabelFits'
  <2>1. ScopesNest /\ LabelFits /\ label = here
    BY ReadFacts
  <2>2. ScopesNest'
    BY <1>1, <2>1 DEF ScopesNest, Bracket
  <2>3. LabelFits'
    BY <1>1, <2>1 DEF LabelFits, InObject, InArray, Bracket
  <2> QED
    BY <2>2, <2>3
<1>3. Len(tape') <= next_index + 3 /\ Len(tape') <= next_index + 2
  BY <1>1, ReadFacts
<1> QED
  BY <1>1, <1>2, <1>3, ReadFacts, ReadKeeps DEF TypeOK

\* The words of a scalar or a key.
LEMMA WriteStep ==
  ASSUME IInv, NEW here \in Reading \ Complete, AtLabel(here), UpdateChar,
         NEW words \in Seq(TapeWord),
         NEW next \in Reading \cup {"start_continue"}, Write(words, next),
         \/ here \in InObject /\ next \in InObject
         \/ here \in InArray /\ next \in InArray
         \/ here = "start" /\ next = "start_continue",
         Len(words) \in 1 .. 2, next \notin Complete => Len(words) = 1
  PROVE  IInv'
<1>1. label' = next /\ tape' = tape \o words /\ scopes' = scopes
  BY DEF Write
<1>2. TypesKept /\ Len(tape') = Len(tape) + Len(words)
  BY <1>1, ReadFacts, WriteKeeps
<1>3. /\ ScopesNest'
      /\ \A n \in 1 .. Len(scopes) : Bracket(scopes[n])' = Bracket(scopes[n])
  BY <1>1, <1>2, ReadFacts, NestKept
<1>4. LabelFits /\ label = here /\ Len(scopes) \in Nat
  BY ReadFacts, ScopeFacts
<1>5. label \in InObject \cup InArray =>
        /\ Len(scopes) > 1
        /\ Bracket(scopes[Len(scopes)])' = Bracket(scopes[Len(scopes)])
  <2>1. label \in InObject \cup InArray => Len(scopes) > 1
    BY <1>4 DEF LabelFits
  <2>2. Len(scopes) > 1 => Len(scopes) \in 1 .. Len(scopes)
    BY <1>4
  <2> QED
    BY <1>1, <1>3, <2>1, <2>2
<1> HIDE DEF Bracket
<1>6. LabelFits'
  BY <1>1, <1>4, <1>5 DEF LabelFits, InObject, InArray
<1>7. /\ Len(tape') <= next_index + 3
      /\ label' \notin Complete \cup {"failed"} => Len(tape') <= next_index + 2
  <2>1. /\ next_index \in Nat /\ Len(tape) \in Nat
        /\ Len(tape) <= next_index + 1
    BY ReadFacts
  <2>2. Len(tape') <= next_index + 3
    <3>1. Len(words) = 1 \/ Len(words) = 2
      OBVIOUS
    <3>2. Len(tape') = Len(tape) + 1 \/ Len(tape') = Len(tape) + 2
      BY <1>2, <3>1
    <3> QED
      BY <2>1, <3>2
  <2>3. Len(words) = 1 => Len(tape') <= next_index + 2
    BY <1>2, <2>1
  <2> QED
    BY <1>1, <2>2, <2>3
<1> QED
  BY <1>1, <1>2, <1>3, <1>6, <1>7, ReadFacts, ReadKeeps DEF TypesKept, TypeOK

LEMMA KeyStep ==
  ASSUME IInv, NEW here \in {"object_begin", "object_comma"}, AtLabel(here),
         UpdateChar, NEW c \in CharsAt(next_index), ReadKey(c)
  PROVE  IInv'
<1>1. here \in (Reading \ Complete) \cap InObject
  BY DEF Reading, Complete, InObject
<1>2. CASE Fail
  BY <1>1, <1>2, FailStep
<1>3. CASE Write(<<KeyWord>>, "object_key")
  <2>1. KeyWord \in TapeWord
    <3>1. next_index + 1 \in Nat /\ "string" \in ScalarKind
      BY <1>1, ReadFacts DEF ScalarKind
    <3>2. Payload("string", next_index + 1) \in StoredPayload
      BY <3>1, PayloadType
    <3> QED
      BY <3>2, WordType DEF KeyWord, WordTypes
  <2>2. /\ <<KeyWord>> \in Seq(TapeWord)
        /\ Len(<<KeyWord>>) = 1 /\ Len(<<KeyWord>>) \in 1 .. 2
    BY <2>1
  <2> HIDE DEF KeyWord
  <2>3. "object_key" \in Reading \cap InObject /\ "object_key" \notin Complete
    BY DEF Reading, InObject, Complete
  <2> QED
    BY <1>1, <1>3, <2>2, <2>3, WriteStep
<1> QED
  BY <1>2, <1>3 DEF ReadKey

LEMMA CloseStep ==
  ASSUME IInv, NEW here \in InObject \cup InArray, AtLabel(here), UpdateChar,
         NEW c \in Closing, CloseScope(c)
  PROVE  IInv'
<1>1. here \in Reading
  BY DEF Reading, InObject, InArray
<1>2. Len(scopes) > 1
  BY <1>1, ReadFacts DEF LabelFits
<1>3. /\ tape' \in Seq(TapeWord) /\ scopes' \in Seq(Scope)
      /\ Len(tape') = Len(tape) + 1
      /\ ScopesNest' /\ LabelFits'
      /\ label' \in {"start_continue", "object_continue", "array_continue"}
  BY <1>1, <1>2, ReadFacts, CloseKeeps
<1>4. /\ label' \in Reading \cup {"start_continue", "failed"}
      /\ label' \in Complete
  BY <1>3 DEF Reading, Complete
<1>5. Len(tape') <= next_index + 3
  BY <1>1, <1>3, ReadFacts
<1> QED
  BY <1>1, <1>3, <1>4, <1>5, ReadFacts, ReadKeeps

LEMMA ValueStep ==
  ASSUME IInv, AtLabel(label), UpdateChar,
         NEW c \in CharsAt(next_index), NEW ret, ReadValue(c, ret),
         \/ label = "start" /\ ret = "start_continue"
         \/ label = "object_value" /\ ret = "object_continue"
         \/ label \in {"array_begin", "array_switch"} /\ ret = "array_continue"
  PROVE  IInv'
<1>1. label \in Reading \ Complete
  BY DEF Reading, Complete
<1>2. CASE c \in Opening /\ OpenScope(c, ret)
  <2>1. ret = ReturnHere
    BY <1>1, ReadFacts
       DEF LabelFits, ReturnHere, ReturnOf, InObject, InArray
  <2>2. /\ tape' \in Seq(TapeWord) /\ scopes' \in Seq(Scope)
        /\ Len(tape') = Len(tape) + 1
        /\ ScopesNest' /\ LabelFits'
        /\ label' \in {"failed", "object_begin", "array_begin"}
    BY <1>1, <1>2, <2>1, ReadFacts, OpenKeeps
  <2>3. label' \in Reading \cup {"start_continue", "failed"}
    BY <2>2 DEF Reading
  <2>4. Len(tape') <= next_index + 2 /\ Len(tape') <= next_index + 3
    BY <1>1, <2>2, ReadFacts
  <2> QED
    BY <1>1, <2>2, <2>3, <2>4, ReadFacts, ReadKeeps
<1>3. CASE /\ c \in ScalarKind \ {"huge"}
           /\ Write(ScalarWords(c, next_index + 1), ret)
  <2>1. next_index + 1 \in Nat
    BY <1>1, ReadFacts
  <2>2. /\ ScalarWords(c, next_index + 1) \in Seq(TapeWord)
        /\ Len(ScalarWords(c, next_index + 1)) \in 1 .. 2
    BY <1>3, <2>1, ScalarWordsType
  <2>3. /\ ret \in Reading \cup {"start_continue"}
        /\ ret \in Complete
        /\ \/ label \in InObject /\ ret \in InObject
           \/ label \in InArray /\ ret \in InArray
           \/ label = "start" /\ ret = "start_continue"
    BY DEF Reading, Complete, InObject, InArray
  <2> QED
    BY <1>1, <1>3, <2>2, <2>3, WriteStep
<1>4. CASE Fail
  BY <1>1, <1>4, FailStep
<1> QED
  BY <1>2, <1>3, <1>4 DEF ReadValue

-----------------------------------------------------------------------------
(***************************************************************************)
(* The invariant, one action after the other.                              *)
(***************************************************************************)

LEMMA InitIInv == Init => IInv
<1> SUFFICES ASSUME Init PROVE IInv
  OBVIOUS
<1>1. label = "stage_1" /\ next_index = 0 /\ tape = <<>> /\ scopes = <<>>
  BY DEF Init
<1>2. TypeOK
  BY <1>1, EmptySeq DEF Init, TypeOK, Label
<1>3. Len(tape) <= next_index + 1
  BY <1>1
<1>4. Ahead
  BY <1>1, <1>3 DEF Ahead, Complete
<1> QED
  BY <1>1, <1>2, <1>4 DEF IInv, Running

LEMMA Stage1Keeps == IInv /\ Stage1 => IInv'
<1> SUFFICES ASSUME IInv, Stage1 PROVE IInv'
  OBVIOUS
<1> DEFINE word == Word("r", 0, NoPayload)
           scope == [offset |-> 0, ret |-> "start_continue"]
<1>1. TypeOK /\ label = "stage_1" /\ text' = text /\ next_index' = next_index
  BY DEF IInv, Stage1
<1>2. next_index \in Nat /\ Len(tape) \in Nat /\ Len(tape) <= next_index + 1
  BY <1>1, ScopeFacts DEF IInv, TypeOK, Ahead, Complete
<1>3. CASE ~Stage1Accepts /\ label' = "failed" /\ UNCHANGED <<tape, scopes>>
  BY <1>1, <1>2, <1>3
     DEF IInv, TypeOK, Running, Ahead, Label, Verdict, Complete
<1>4. CASE /\ Stage1Accepts
           /\ tape' = <<word>> /\ scopes' = <<scope>>
           /\ label' = IF 1 >= DepthCapacity THEN "failed" ELSE "start"
  <2>1. word \in TapeWord
    BY WordType, PayloadType DEF WordTypes
  <2>2. scope \in Scope /\ scope.offset = 0
    BY DEF Scope, Label
  <2> HIDE DEF word, scope
  <2>3. /\ tape' \in Seq(TapeWord) /\ Len(tape') = 1
        /\ scopes' \in Seq(Scope) /\ Len(scopes') = 1 /\ scopes'[1] = scope
    BY <1>4, <2>1, <2>2
  <2>4. text' # <<>>
    BY <1>1, <1>4 DEF Stage1Accepts
  <2>5. label' \in {"failed", "start"}
    BY <1>4
  <2>6. ScopesNest'
    BY <2>2, <2>3 DEF ScopesNest
  <2>7. LabelFits'
    BY <2>3, <2>5 DEF LabelFits, InObject, InArray
  <2>8. TypeOK'
    BY <1>1, <2>3, <2>5 DEF TypeOK, Label, Reading, Verdict
  <2>9. Ahead'
    BY <1>1, <1>2, <2>3, <2>5 DEF Ahead, Complete
  <2> QED
    BY <2>4, <2>5, <2>6, <2>7, <2>8, <2>9 DEF IInv
<1> QED
  BY <1>3, <1>4 DEF Stage1

LEMMA StartKeeps == IInv /\ Start => IInv'
BY ValueStep DEF Start, AtLabel

LEMMA ObjectBeginKeeps == IInv /\ ObjectBegin => IInv'
<1> SUFFICES ASSUME IInv, AtLabel("object_begin"), UpdateChar,
                    NEW c \in CharsAt(next_index),
                    IF c = "end_object" THEN CloseScope(c) ELSE ReadKey(c)
             PROVE  IInv'
  BY DEF ObjectBegin
<1>1. CASE CloseScope("end_object")
  BY <1>1, CloseStep DEF Closing, InObject
<1>2. CASE ReadKey(c)
  BY <1>2, KeyStep
<1> QED
  BY <1>1, <1>2

LEMMA ObjectKeyKeeps == IInv /\ ObjectKey => IInv'
<1> SUFFICES ASSUME IInv, AtLabel("object_key"), UpdateChar,
                    Goto("object_value") \/ Fail
             PROVE  IInv'
  BY DEF ObjectKey
<1>1. /\ "object_key" \in Reading \cap InObject
      /\ "object_value" \in Reading \cap InObject
  BY DEF Reading, InObject
<1> QED
  BY <1>1, GotoStep, FailStep

LEMMA ObjectValueKeeps == IInv /\ ObjectValue => IInv'
BY ValueStep DEF ObjectValue, AtLabel, ReturnToObject

LEMMA ObjectContinueKeeps == IInv /\ ObjectContinue => IInv'
<1> SUFFICES ASSUME IInv, AtLabel("object_continue"), UpdateChar,
                    Goto("object_comma") \/ CloseScope("end_object") \/ Fail
             PROVE  IInv'
  BY DEF ObjectContinue
<1>1. /\ "object_continue" \in Reading \cap InObject
      /\ "object_comma" \in Reading \cap InObject
      /\ "end_object" \in Closing
  BY DEF Reading, InObject, Closing
<1> QED
  BY <1>1, GotoStep, CloseStep, FailStep

LEMMA ObjectCommaKeeps == IInv /\ ObjectComma => IInv'
BY KeyStep DEF ObjectComma

LEMMA ArrayBeginKeeps == IInv /\ ArrayBegin => IInv'
<1> SUFFICES ASSUME IInv, AtLabel("array_begin"), UpdateChar,
                    NEW c \in CharsAt(next_index),
                    IF c = "end_array" THEN CloseScope(c)
                                       ELSE ReadValue(c, "array_continue")
             PROVE  IInv'
  BY DEF ArrayBegin
<1>1. CASE CloseScope("end_array")
  BY <1>1, CloseStep DEF Closing, InArray
<1>2. CASE ReadValue(c, "array_continue")
  BY <1>2, ValueStep DEF AtLabel
<1> QED
  BY <1>1, <1>2

LEMMA ArraySwitchKeeps == IInv /\ ArraySwitch => IInv'
BY ValueStep DEF ArraySwitch, AtLabel

LEMMA ArrayContinueKeeps == IInv /\ ArrayContinue => IInv'
<1> SUFFICES ASSUME IInv, AtLabel("array_continue"), UpdateChar,
                    Goto("array_switch") \/ CloseScope("end_array") \/ Fail
             PROVE  IInv'
  BY DEF ArrayContinue
<1>1. /\ "array_continue" \in Reading \cap InArray
      /\ "array_switch" \in Reading \cap InArray
      /\ "end_array" \in Closing
  BY DEF Reading, InArray, Closing
<1> QED
  BY <1>1, GotoStep, CloseStep, FailStep

LEMMA RunAwayKeeps == IInv /\ RunAway => IInv'
<1> SUFFICES ASSUME IInv, RunAway PROVE IInv'
  OBVIOUS
<1>1. /\ label \in Reading /\ label' \in {"failed", "died"}
      /\ text' = text /\ next_index' = next_index
      /\ tape' = tape /\ scopes' = scopes
  BY DEF RunAway
<1>2. next_index \in Nat /\ Len(tape) \in Nat
  BY ScopeFacts DEF IInv, TypeOK
<1>3. Len(tape) <= next_index + 2
  BY <1>1, <1>2 DEF IInv, Ahead, Reading
<1> QED
  BY <1>1, <1>3 DEF IInv, TypeOK, Running, Ahead, Label, Verdict, Complete

LEMMA StartContinueKeeps == IInv /\ StartContinue => IInv'
<1> SUFFICES ASSUME IInv, StartContinue PROVE IInv'
  OBVIOUS
<1>1. /\ label = "start_continue"
      /\ text' = text /\ next_index' = next_index
      /\ tape' = tape /\ scopes' = scopes
      /\ label' = "failed" \/ (label' = "succeed" /\ AllRead)
  BY DEF StartContinue, Fail, Goto
<1>2. TypeOK /\ ScopesNest /\ LabelFits /\ text # <<>>
  BY <1>1 DEF IInv, Running, Verdict
<1>3. next_index \in Nat /\ Len(text) \in Nat
  <2>1. text \in Seq(Token)
    BY <1>2, SimdjsonAssumption DEF TypeOK
  <2> QED
    BY <1>2, <2>1, LenProperties DEF TypeOK
<1>4. label' = "succeed" => next_index' = Len(text')
  BY <1>1, <1>3 DEF AllRead, NumberOfIndexes
<1>5. Len(tape) <= next_index + 2
  BY <1>1 DEF IInv, Ahead, Complete
<1>6. TypeOK' /\ Ahead'
  BY <1>1, <1>2, <1>5 DEF TypeOK, Label, Verdict, Ahead, Complete
<1>7. ScopesNest' /\ LabelFits'
  BY <1>1, <1>2 DEF ScopesNest, LabelFits, Bracket, InObject, InArray
<1> QED
  BY <1>1, <1>2, <1>4, <1>6, <1>7 DEF IInv

LEMMA SucceedKeeps == IInv /\ Succeed => IInv'
<1> SUFFICES ASSUME IInv, Succeed PROVE IInv'
  OBVIOUS
<1> DEFINE word == Word("r", 0, NoPayload)
<1>1. label = "succeed" /\ text' = text /\ next_index' = next_index
  BY DEF Succeed
<1>2. TypeOK /\ ScopesNest /\ Len(scopes) = 1 /\ scopes[1].offset = 0
  BY <1>1 DEF IInv, Running, Verdict, ScopesNest, LabelFits
<1>3. /\ tape' = Append(Filled(tape, 1, Len(tape)), word)
      /\ scopes' = <<>> /\ label' = "succeeded"
  BY <1>2 DEF Succeed, Filled
<1>4. Len(tape) \in Nat /\ 1 \in 1 .. Len(tape)
  <2>1. scopes[1].offset < Len(tape) /\ Len(tape) \in Nat
    BY <1>2, ScopeFacts DEF ScopesNest
  <2> QED
    BY <1>2, <2>1
<1>5. word \in TapeWord
  BY WordType, PayloadType DEF WordTypes
<1> HIDE DEF word
<1>6. tape' \in Seq(TapeWord) /\ Len(tape') = Len(tape) + 1
  <2>1. tape \in Seq(TapeWord)
    BY <1>2 DEF TypeOK
  <2>2. /\ Filled(tape, 1, Len(tape)) \in Seq(TapeWord)
        /\ Len(Filled(tape, 1, Len(tape))) = Len(tape)
    BY <1>4, <2>1, FillKeeps
  <2> QED
    BY <1>3, <1>5, <2>2, AppendProperties
<1>7. next_index = Len(text) /\ Len(tape) <= next_index + 2 /\ next_index \in Nat
  BY <1>1, <1>2 DEF IInv, Ahead, Complete, TypeOK
<1>8. TypeOK'
  BY <1>1, <1>2, <1>3, <1>6, EmptySeq DEF TypeOK, Label, Verdict
<1>9. Ahead'
  <2>1. Len(tape') <= Len(text') + 3
    BY <1>1, <1>4, <1>6, <1>7
  <2> HIDE DEF word
  <2>2. label' = "succeeded"
    BY <1>3
  <2> QED
    BY <2>1, <2>2 DEF Ahead
<1> QED
  BY <1>3, <1>8, <1>9 DEF IInv, Running, Verdict

LEMMA ParseKeeps == IInv /\ Parse => IInv'
BY Stage1Keeps, StartKeeps, ObjectBeginKeeps, ObjectKeyKeeps, ObjectValueKeeps,
   ObjectContinueKeeps, ObjectCommaKeeps, ArrayBeginKeeps, ArraySwitchKeeps,
   ArrayContinueKeeps, RunAwayKeeps, StartContinueKeeps, SucceedKeeps DEF Parse

\* Every step of the machine keeps the inductive invariant.
THEOREM IInvAlways == Spec => []IInv
<1>1. Init => IInv
  BY InitIInv
<1>2. IInv /\ [Next]_vars => IInv'
  <2> SUFFICES ASSUME IInv, [Next]_vars PROVE IInv'
    OBVIOUS
  <2>1. CASE Parse
    BY <2>1, ParseKeeps
  <2>2. CASE UNCHANGED vars
    BY <2>2 DEF vars, IInv, TypeOK, Running, ScopesNest, LabelFits, Bracket,
                Ahead, Complete, InObject, InArray
  <2> QED
    BY <2>1, <2>2 DEF Next, Ended
<1> QED
  BY <1>1, <1>2, PTL DEF Spec

-----------------------------------------------------------------------------
(***************************************************************************)
(* The depth. While the machine runs there is room for one more scope.     *)
(***************************************************************************)

DepthInv ==
  /\ Len(scopes) <= DepthCapacity
  /\ Running => Len(scopes) + 1 <= DepthCapacity

LEMMA OpenDepth ==
  ASSUME IInv, DepthInv, Running, NEW c, NEW ret, OpenScope(c, ret)
  PROVE  DepthInv'
<1> DEFINE scope == [offset |-> Len(tape), ret |-> ret]
<1>1. scopes' = Append(scopes, scope)
  BY DEF OpenScope
<1> HIDE DEF scope
<1>2. Len(scopes) \in Nat /\ scopes \in Seq(Scope) /\ DepthCapacity \in Nat
  BY ScopeFacts, SimdjsonAssumption DEF IInv, TypeOK
<1>3. Len(scopes') = Len(scopes) + 1
  <2>1. scopes \in Seq(Scope \cup {scope}) /\ scope \in Scope \cup {scope}
    BY <1>2, SeqMonotonic
  <2> QED
    BY <1>1, <2>1, AppendProperties
<1>4. Len(scopes') <= DepthCapacity
  BY <1>2, <1>3 DEF DepthInv
<1>5. CASE TooDeep
  <2>1. label' = "failed"
    BY <1>5 DEF OpenScope
  <2> QED
    BY <1>4, <2>1 DEF DepthInv, Running, Verdict
<1>6. CASE ~TooDeep
  <2>1. Len(scopes') + 1 <= DepthCapacity
    BY <1>2, <1>3, <1>6 DEF TooDeep
  <2> QED
    BY <1>4, <2>1 DEF DepthInv
<1> QED
  BY <1>5, <1>6

LEMMA CloseDepth ==
  ASSUME IInv, DepthInv, Running, NEW c, CloseScope(c)
  PROVE  DepthInv'
<1>1. scopes' = Front(scopes)
  BY DEF CloseScope, ScopesAround
<1>2. /\ Len(scopes) \in Nat /\ Len(scopes) >= 1
      /\ scopes \in Seq(Scope) /\ DepthCapacity \in Nat
  BY ScopeFacts, SimdjsonAssumption DEF IInv, TypeOK, ScopesNest
<1>3. Len(scopes') = Len(scopes) - 1
  <2>1. scopes # <<>>
    BY <1>2, EmptySeq
  <2> QED
    BY <1>1, <1>2, <2>1, FrontFacts
<1>4. Len(scopes') + 1 <= DepthCapacity
  BY <1>2, <1>3 DEF DepthInv
<1> QED
  BY <1>2, <1>3, <1>4 DEF DepthInv

\* A step either leaves the scopes alone or opens or closes one.
LEMMA DepthStep == IInv /\ DepthInv /\ [Next]_vars => DepthInv'
<1> SUFFICES ASSUME IInv, DepthInv, [Next]_vars PROVE DepthInv'
  OBVIOUS
<1>1. ASSUME UNCHANGED scopes, Running' => Running
      PROVE  DepthInv'
  BY <1>1 DEF DepthInv
<1>2. label \in Reading \cup {"start_continue", "succeed"} => Running
  BY DEF Running, Reading, Verdict
<1>3. CASE Stage1
  <2>1. DepthCapacity \in Nat /\ 1 <= DepthCapacity
    BY SimdjsonAssumption
  <2>2. CASE scopes' = scopes /\ label' = "failed"
    BY <2>2 DEF DepthInv, Running, Verdict
  <2>3. CASE /\ scopes' = <<[offset |-> 0, ret |-> "start_continue"]>>
             /\ label' = IF 1 >= DepthCapacity THEN "failed" ELSE "start"
    <3>1. Len(scopes') = 1
      BY <2>3
    <3>2. CASE 1 >= DepthCapacity
      BY <2>1, <2>3, <3>1, <3>2 DEF DepthInv, Running, Verdict
    <3>3. CASE ~(1 >= DepthCapacity)
      <4>1. 1 + 1 <= DepthCapacity
        BY <2>1, <3>3
      <4> QED
        BY <2>1, <3>1, <4>1 DEF DepthInv
    <3> QED
      BY <3>2, <3>3
  <2> QED
    BY <1>3, <2>2, <2>3 DEF Stage1
<1>4. CASE /\ label \in Reading
           /\ \/ \E words, next : Write(words, next)
              \/ \E next : Goto(next)
              \/ \E c, ret : OpenScope(c, ret)
              \/ \E c : CloseScope(c)
  BY <1>1, <1>2, <1>4, OpenDepth, CloseDepth DEF Write, Goto
<1>5. ASSUME NEW c, NEW ret, ReadValue(c, ret), label \in Reading
      PROVE  DepthInv'
  BY <1>4, <1>5 DEF ReadValue, Fail
<1>6. ASSUME NEW c, ReadKey(c), label \in Reading
      PROVE  DepthInv'
  BY <1>4, <1>6 DEF ReadKey, Fail
<1>7. CASE Start \/ ObjectValue \/ ArraySwitch
  BY <1>5, <1>7 DEF Start, ObjectValue, ArraySwitch, AtLabel, Reading
<1>8. CASE ObjectComma
  BY <1>6, <1>8 DEF ObjectComma, AtLabel, Reading
<1>9. CASE ObjectBegin \/ ArrayBegin
  BY <1>4, <1>5, <1>6, <1>9 DEF ObjectBegin, ArrayBegin, AtLabel, Reading
<1>10. CASE ObjectKey \/ ObjectContinue \/ ArrayContinue
  BY <1>4, <1>10
     DEF ObjectKey, ObjectContinue, ArrayContinue, AtLabel, Fail, Reading
<1>11. CASE RunAway \/ StartContinue
  BY <1>1, <1>2, <1>11 DEF RunAway, StartContinue, Goto, Fail
<1>12. CASE Succeed
  <2>1. /\ scopes' = scopes \/ scopes' = <<>>
        /\ label' \in {"internal_bug", "succeeded"}
    BY <1>12 DEF Succeed, Goto
  <2>2. Len(scopes') <= DepthCapacity
    BY <2>1, SimdjsonAssumption DEF DepthInv
  <2> QED
    BY <2>1, <2>2 DEF DepthInv, Running, Verdict
<1>13. CASE UNCHANGED vars
  BY <1>1, <1>13 DEF vars, Running
<1> QED
  BY <1>3, <1>7, <1>8, <1>9, <1>10, <1>11, <1>12, <1>13 DEF Next, Ended, Parse

-----------------------------------------------------------------------------
(***************************************************************************)
(* The properties.                                                         *)
(***************************************************************************)

\* The label to return to is always one for the bracket which, on the tape,
\* encloses the container that returns to it (ret_address of UNIFIED_MACHINE).
THEOREM LabelsMatchBracketsAlways == Spec => []LabelsMatchBrackets
<1>1. IInv => LabelsMatchBrackets
  BY DEF IInv, Running, ScopesNest, LabelFits, LabelsMatchBrackets, Last,
         ReturnOf
<1> QED
  BY <1>1, IInvAlways, PTL

\* The arrays of max_depth entries are never written beyond their end
\* (containing_scope_offset, ret_address).
THEOREM ScopesFitAlways == Spec => []ScopesFit
<1>1. Init => DepthInv
  BY SimdjsonAssumption DEF Init, DepthInv, Running
<1>2. DepthInv => ScopesFit
  BY DEF DepthInv, ScopesFit
<1> QED
  BY <1>1, <1>2, DepthStep, IInvAlways, PTL DEF Spec

\* The machine never gets to its abort() (simdjson.cpp, "Internal bug").
THEOREM NoInternalBugAlways == Spec => []NoInternalBug
<1>1. IInv => NoInternalBug
  BY DEF IInv, NoInternalBug
<1> QED
  BY <1>1, IInvAlways, PTL

-----------------------------------------------------------------------------
(***************************************************************************)
(* Where a step of the machine leads.                                      *)
(***************************************************************************)

LEMMA ClosedLabel ==
  ASSUME IInv, label \in InObject \cup InArray, NEW c, CloseScope(c)
  PROVE  label' \in {"object_continue", "array_continue", "start_continue"}
<1>1. ScopesNest /\ LabelFits /\ Len(scopes) \in Nat
  BY ScopeFacts DEF IInv, Running, Verdict, InObject, InArray
<1>2. Len(scopes) > 1
  BY <1>1 DEF LabelFits
<1>3. label' = scopes[Len(scopes)].ret
  BY DEF CloseScope, Last
<1>4. CASE Len(scopes) = 2
  BY <1>1, <1>3, <1>4 DEF ScopesNest
<1>5. CASE Len(scopes) >= 3
  <2>1. Len(scopes) \in 3 .. Len(scopes)
    BY <1>1, <1>5
  <2> QED
    BY <1>1, <1>3, <2>1 DEF ScopesNest, ReturnOf
<1> QED
  BY <1>1, <1>2, <1>4, <1>5, TwoOrMore

LEMMA ValueLabel ==
  ASSUME NEW c, NEW ret, ret \notin {"stage_1", "start"}, ReadValue(c, ret)
  PROVE  label' \notin {"stage_1", "start"}
BY DEF ReadValue, OpenScope, Opening, Write, Fail, Goto

\* Stage 1 comes first and once, and the machine stops at a verdict.
LEMMA StepLabels ==
  ASSUME IInv, Parse
  PROVE  /\ UNCHANGED text
         /\ label \notin Verdict
         /\ label' # "stage_1"
         /\ label' = "start" => label = "stage_1"
         /\ label = "stage_1" =>
              label' \in IF Stage1Accepts THEN {"start", "failed"} ELSE {"failed"}
<1>1. CASE Stage1
  BY <1>1 DEF Stage1, Verdict
<1>2. CASE Start
  BY <1>2, ValueLabel DEF Start, AtLabel, UpdateChar, Verdict
<1>3. CASE ObjectBegin
  BY <1>3, ClosedLabel
     DEF ObjectBegin, AtLabel, UpdateChar, Verdict, InObject, ReadKey, Write, Fail, Goto
<1>4. CASE ObjectKey
  BY <1>4 DEF ObjectKey, AtLabel, UpdateChar, Verdict, Fail, Goto
<1>5. CASE ObjectValue
  BY <1>5, ValueLabel DEF ObjectValue, ReturnToObject, AtLabel, UpdateChar, Verdict
<1>6. CASE ObjectContinue
  BY <1>6, ClosedLabel
     DEF ObjectContinue, AtLabel, UpdateChar, Verdict, InObject, Fail, Goto
<1>7. CASE ObjectComma
  BY <1>7 DEF ObjectComma, AtLabel, UpdateChar, Verdict, ReadKey, Write, Fail, Goto
<1>8. CASE ArrayBegin
  BY <1>8, ClosedLabel, ValueLabel
     DEF ArrayBegin, AtLabel, UpdateChar, Verdict, InArray
<1>9. CASE ArraySwitch
  BY <1>9, ValueLabel DEF ArraySwitch, AtLabel, UpdateChar, Verdict
<1>10. CASE ArrayContinue
  BY <1>10, ClosedLabel
     DEF ArrayContinue, AtLabel, UpdateChar, Verdict, InArray, Fail, Goto
<1>11. CASE RunAway \/ StartContinue \/ Succeed
  BY <1>11 DEF RunAway, StartContinue, Succeed, Reading, Verdict, Fail, Goto
<1> QED
  BY <1>1, <1>2, <1>3, <1>4, <1>5, <1>6, <1>7, <1>8, <1>9, <1>10, <1>11
     DEF Parse

-----------------------------------------------------------------------------
(***************************************************************************)
(* The tape. Beyond the text the machine reads two characters: the byte    *)
(* after it and, once more, its first one. That one has opened a container *)
(* if the machine is not yet done with the text, and makes it fail or adds *)
(* one word, but not the two of a number.                                  *)
(***************************************************************************)

FirstOpens ==
  /\ label \in {"stage_1", "start"} => next_index = 0
  /\ label \in InObject \cup InArray => text[1] \in Opening

LEMMA InitFirst == Init => FirstOpens
BY DEF Init, FirstOpens, InObject, InArray

LEMMA FirstOpensStep == IInv /\ FirstOpens /\ [Next]_vars => FirstOpens'
<1> SUFFICES ASSUME IInv, FirstOpens, [Next]_vars PROVE FirstOpens'
  OBVIOUS
<1>1. CASE Stage1
  BY <1>1 DEF Stage1, FirstOpens, InObject, InArray
<1>2. CASE Start
  <2>1. PICK c \in CharsAt(next_index) : ReadValue(c, "start_continue")
    BY <1>2 DEF Start
  <2>2. label = "start" /\ text' = text /\ next_index = 0
    BY <1>2 DEF Start, AtLabel, UpdateChar, FirstOpens
  <2>3. text # <<>> /\ Len(text) \in Nat
    BY <2>2, ScopeFacts DEF IInv, Running, Verdict
  <2>4. 0 < Len(text)
    BY <2>2, <2>3, EmptySeq, SimdjsonAssumption DEF IInv, TypeOK
  <2>5. c = text[1]
    BY <2>1, <2>2, <2>3, <2>4 DEF CharsAt
  <2>6. c \notin Opening => label' \in {"start_continue", "failed"}
    BY <2>1 DEF ReadValue, Write, Fail, Goto
  <2>7. label' \notin {"stage_1", "start"}
    BY <2>1, ValueLabel
  <2> QED
    BY <2>2, <2>5, <2>6, <2>7 DEF FirstOpens, InObject, InArray
<1>3. CASE Parse /\ label \in InObject \cup InArray
  BY <1>3, StepLabels DEF FirstOpens, InObject, InArray
<1>4. CASE RunAway \/ StartContinue \/ Succeed
  BY <1>4 DEF RunAway, StartContinue, Succeed, FirstOpens, InObject, InArray,
              Goto, Fail
<1>5. CASE UNCHANGED vars
  BY <1>5 DEF vars, FirstOpens
<1>6. CASE \/ ObjectBegin \/ ObjectKey \/ ObjectValue \/ ObjectContinue
           \/ ObjectComma \/ ArrayBegin \/ ArraySwitch \/ ArrayContinue
  <2>1. Parse
    BY <1>6 DEF Parse
  <2>2. label \in InObject \cup InArray
    BY <1>6 DEF ObjectBegin, ObjectKey, ObjectValue, ObjectContinue, ObjectComma,
      ArrayBegin, ArraySwitch, ArrayContinue, AtLabel, InObject, InArray
  <2> QED
    BY <1>3, <2>1, <2>2
<1> QED
  BY <1>1, <1>2, <1>4, <1>5, <1>6 DEF Next, Ended, Parse

LEMMA LastRead ==
  ASSUME IInv, text[1] \in Opening, next_index = Len(text) + 1,
         \/ ObjectBegin \/ ObjectKey \/ ObjectValue \/ ObjectContinue
         \/ ObjectComma \/ ArrayBegin \/ ArraySwitch \/ ArrayContinue
  PROVE  \/ tape' = tape
         \/ Len(tape') = Len(tape) + 1 /\ label \in Reading \ Complete
<1>1. PICK c : c = text[1]
  OBVIOUS
<1>2. tape \in Seq(TapeWord) /\ Len(text) \in Nat
  BY ScopeFacts, SimdjsonAssumption, LenProperties DEF IInv, TypeOK
<1>3. CharsAt(next_index) = {c}
  BY <1>1, <1>2 DEF CharsAt
<1>4. c \in Opening /\ c \notin ScalarKind
  BY <1>1, TokenNames
<1>5. ASSUME NEW ret, ReadValue(c, ret) PROVE Len(tape') = Len(tape) + 1
  <2>1. tape' = tape \o <<Word(c, 0, NoPayload)>>
    BY <1>4, <1>5 DEF ReadValue, OpenScope, OpeningWords
  <2>2. Word(c, 0, NoPayload) \in TapeWord
    BY <1>4, WordType, PayloadType DEF WordTypes
  <2> QED
    BY <1>2, <2>1, <2>2
<1>6. ReadKey(c) => tape' = tape
  BY <1>4 DEF ReadKey, Fail, Goto, Opening
<1>7. CASE ObjectValue \/ ArraySwitch
  BY <1>3, <1>5, <1>7 DEF ObjectValue, ArraySwitch, AtLabel, Reading, Complete
<1>8. CASE ObjectComma
  BY <1>3, <1>6, <1>8 DEF ObjectComma
<1>9. CASE ObjectBegin
  BY <1>3, <1>4, <1>6, <1>9 DEF ObjectBegin, Opening
<1>10. CASE ArrayBegin
  BY <1>3, <1>4, <1>5, <1>10 DEF ArrayBegin, AtLabel, Reading, Complete, Opening
<1>11. CASE ObjectKey \/ ObjectContinue \/ ArrayContinue
  BY <1>3, <1>4, <1>11
     DEF ObjectKey, ObjectContinue, ArrayContinue, Fail, Goto, Opening
<1> QED
  BY <1>7, <1>8, <1>9, <1>10, <1>11

\* A text of n tokens makes the machine write at most n + 3 words.
WordsForTokens == Len(tape) <= Len(text) + 3

LEMMA WordsStep ==
  ASSUME IInv, IInv', FirstOpens, WordsForTokens, [Next]_vars
  PROVE  WordsForTokens'
<1>1. /\ Len(text) \in Nat /\ Len(tape) \in Nat /\ next_index \in Nat
      /\ Len(text)' \in Nat /\ Len(tape)' \in Nat /\ next_index' \in Nat
  BY SimdjsonAssumption, LenProperties DEF IInv, TypeOK
<1>2. Ahead /\ Ahead'
  BY DEF IInv
<1>3. text' = text
  BY StepLabels DEF Next, Ended, vars
<1>4. CASE label' = "succeeded"
  BY <1>1, <1>2, <1>4 DEF Ahead, WordsForTokens
<1>5. CASE label' # "succeeded" /\ next_index' <= Len(text) + 1
  BY <1>1, <1>2, <1>3, <1>5 DEF Ahead, WordsForTokens
<1>6. CASE tape' = tape
  BY <1>3, <1>6 DEF WordsForTokens
<1>7. CASE Stage1 \/ Start
  <2>1. next_index = 0 /\ next_index' \in {next_index, next_index + 1}
    BY <1>7 DEF Stage1, Start, AtLabel, UpdateChar, FirstOpens
  <2>2. next_index' <= Len(text) + 1
    BY <1>1, <2>1
  <2> QED
    BY <1>4, <1>5, <2>2
<1>8. CASE RunAway \/ StartContinue \/ Succeed \/ UNCHANGED vars
  BY <1>4, <1>6, <1>8 DEF RunAway, StartContinue, Succeed, Goto, Fail, vars
<1>9. CASE \/ ObjectBegin \/ ObjectKey \/ ObjectValue \/ ObjectContinue
           \/ ObjectComma \/ ArrayBegin \/ ArraySwitch \/ ArrayContinue
  <2>1. /\ label \in InObject \cup InArray
        /\ next_index <= Len(text) + 1 /\ next_index' = next_index + 1
    BY <1>9 DEF ObjectBegin, ObjectKey, ObjectValue, ObjectContinue, ObjectComma,
      ArrayBegin, ArraySwitch, ArrayContinue, AtLabel, UpdateChar,
      NumberOfIndexes, InObject, InArray
  <2>2. CASE next_index < Len(text) + 1
    <3>1. next_index' <= Len(text) + 1
      BY <1>1, <2>1, <2>2
    <3> QED
      BY <1>4, <1>5, <3>1
  <2>3. CASE next_index = Len(text) + 1
    <3>1. text[1] \in Opening
      BY <2>1 DEF FirstOpens
    <3>2. CASE Len(tape') = Len(tape) + 1 /\ label \in Reading \ Complete
      <4>1. Len(tape) <= next_index + 1
        BY <1>2, <3>2 DEF Ahead, Reading
      <4> QED
        BY <1>1, <1>3, <2>3, <3>2, <4>1 DEF WordsForTokens
    <3> QED
      BY <1>6, <1>9, <2>3, <3>1, <3>2, LastRead
  <2> QED
    BY <1>1, <2>1, <2>2, <2>3
<1> QED
  BY <1>7, <1>8, <1>9 DEF Next, Ended, Parse

\* The tape that allocate_capacity makes for the length of a text is long enough
\* for whatever the text makes the machine write, unless that length is one of
\* the last two before a multiple of 64 (write_tape, which does not look).
THEOREM TapeSufficesElsewhereAlways == Spec => []TapeSufficesElsewhere
<1>1. Init => WordsForTokens
  <2> SUFFICES ASSUME Init PROVE WordsForTokens
    OBVIOUS
  <2>1. Len(text) \in Nat /\ Len(tape) = 0
    BY SimdjsonAssumption, LenProperties DEF Init
  <2> QED
    BY <2>1 DEF WordsForTokens
<1>2. IInv /\ WordsForTokens => TapeSufficesElsewhere
  <2> SUFFICES ASSUME IInv, WordsForTokens,
                      NEW len \in Len(text) .. Len(text) + 63, len % 64 < 62
               PROVE  Len(tape) <= TapeCapacity(len)
    BY DEF TapeSufficesElsewhere
  <2>1. Len(text) \in Nat /\ Len(tape) \in Nat
    BY SimdjsonAssumption, LenProperties DEF IInv, TypeOK
  <2>2. len \in Nat /\ Len(tape) <= len + 3
    BY <2>1 DEF WordsForTokens
  <2>3. len + 3 <= 64 * (len \div 64 + 1)
    BY <2>2
  <2> QED
    BY <2>1, <2>2, <2>3 DEF TapeCapacity
<1> QED
  BY <1>1, <1>2, InitFirst, FirstOpensStep, WordsStep, IInvAlways, PTL DEF Spec

-----------------------------------------------------------------------------
(***************************************************************************)
(* The machine and the brackets of the text. As long as it reads inside of *)
(* the text, it has as many scopes as there are brackets left open, and a  *)
(* text whose brackets all close has no character it reads after them.     *)
(***************************************************************************)

\* h[n]: how many brackets are open after n tokens of s.
Heights(s, length, h) ==
  /\ h \in [0 .. length -> Int]
  /\ h[0] = 0
  /\ \A n \in 1 .. length :
       h[n] = h[n - 1] + (IF s[n] \in Opening THEN 1
                          ELSE IF s[n] \in Closing THEN -1 ELSE 0)

Matched(length, h) ==
  /\ label \in {"stage_1", "start"} => next_index = 0
  /\ Running /\ next_index <= length => Len(scopes) = 1 + h[next_index]
  /\ label \in (Reading \ {"start"}) \cup {"died"} =>
       \A n \in 1 .. length : n <= next_index => h[n] # 0
  /\ label = "died" => next_index > Len(text)

HeightInv ==
  \A length \in 0 .. Len(text) : \A h :
    Heights(text, length, h) => Matched(length, h)

\* A character leads to where another is read, with the scopes it asks for.
Inside == (Reading \ {"start"}) \cup {"start_continue", "failed"}
ScopesFollowRead(c) ==
  /\ label' \in Inside
  /\ \/ label' = "failed"
     \/ c \notin Opening \cup Closing /\ Len(scopes') = Len(scopes)
     \/ c \in Opening /\ Len(scopes') = Len(scopes) + 1
     \/ c \in Closing /\ Len(scopes') = Len(scopes) - 1

LEMMA OpenFollows ==
  ASSUME IInv, NEW c \in Opening, NEW ret, OpenScope(c, ret)
  PROVE  ScopesFollowRead(c)
<1> DEFINE scope == [offset |-> Len(tape), ret |-> ret]
<1>1. scopes' = Append(scopes, scope)
  BY DEF OpenScope
<1> HIDE DEF scope
<1>2. scopes \in Seq(Scope \cup {scope}) /\ scope \in Scope \cup {scope}
  BY SeqMonotonic DEF IInv, TypeOK
<1>3. Len(scopes') = Len(scopes) + 1
  BY <1>1, <1>2, AppendProperties
<1>4. label' \in Inside
  BY DEF OpenScope, Opening, Inside, Reading
<1> QED
  BY <1>3, <1>4 DEF ScopesFollowRead

LEMMA CloseFollows ==
  ASSUME IInv, label \in InObject \cup InArray, NEW c \in Closing, CloseScope(c)
  PROVE  ScopesFollowRead(c)
<1>1. scopes' = Front(scopes)
  BY DEF CloseScope, ScopesAround
<1>2. Len(scopes) \in Nat /\ Len(scopes) >= 1 /\ scopes \in Seq(Scope)
  BY ScopeFacts DEF IInv, TypeOK, ScopesNest, Running, Verdict, InObject, InArray
<1>3. scopes # <<>>
  BY <1>2, EmptySeq
<1>4. Len(scopes') = Len(scopes) - 1
  BY <1>1, <1>2, <1>3, FrontFacts
<1>5. label' \in Inside
  BY ClosedLabel DEF Inside, Reading
<1> QED
  BY <1>4, <1>5 DEF ScopesFollowRead

LEMMA StayFollows ==
  ASSUME NEW c \in Token \ (Opening \cup Closing), NEW words, NEW next \in Inside,
         Goto(next) \/ Write(words, next)
  PROVE  ScopesFollowRead(c)
BY DEF Goto, Write, ScopesFollowRead

LEMMA FailFollows ==
  ASSUME NEW c, Fail
  PROVE  ScopesFollowRead(c)
BY DEF Fail, Goto, ScopesFollowRead, Inside

LEMMA ValueFollows ==
  ASSUME IInv, NEW c \in Token, NEW ret \in Inside, ReadValue(c, ret)
  PROVE  ScopesFollowRead(c)
<1>1. CASE c \in Opening
  BY <1>1, OpenFollows DEF ReadValue, Opening, ScalarKind, AtomKind, NumberKind
<1>2. CASE c \in ScalarKind \ {"huge"}
  <2>1. c \in Token \ (Opening \cup Closing)
    BY <1>2 DEF ScalarKind, AtomKind, NumberKind, Opening, Closing
  <2>2. Write(ScalarWords(c, next_index + 1), ret)
    BY <1>2, <2>1 DEF ReadValue
  <2> QED
    BY <2>1, <2>2, StayFollows
<1>3. CASE c \notin Opening \cup (ScalarKind \ {"huge"})
  BY <1>3, FailFollows DEF ReadValue
<1> QED
  BY <1>1, <1>2, <1>3

LEMMA KeyFollows ==
  ASSUME NEW c \in Token, ReadKey(c)
  PROVE  ScopesFollowRead(c)
<1>1. CASE c = "string"
  <2>1. c \notin Opening \cup Closing
    BY <1>1 DEF Opening, Closing
  <2>2. Write(<<KeyWord>>, "object_key") /\ "object_key" \in Inside
    BY <1>1 DEF ReadKey, Inside, Reading
  <2> QED
    BY <2>1, <2>2, StayFollows
<1>2. CASE c # "string"
  BY <1>2, FailFollows DEF ReadKey
<1> QED
  BY <1>1, <1>2

\* One character.
ReadStep ==
  /\ label \in Reading
  /\ next_index <= NumberOfIndexes
  /\ next_index' = next_index + 1
  /\ \E c \in CharsAt(next_index) : ScopesFollowRead(c)

LEMMA ReadSteps ==
  ASSUME IInv,
         \/ Start \/ ObjectBegin \/ ObjectKey \/ ObjectValue \/ ObjectContinue
         \/ ObjectComma \/ ArrayBegin \/ ArraySwitch \/ ArrayContinue
  PROVE  ReadStep
<1>1. /\ label \in Reading /\ next_index <= NumberOfIndexes
      /\ next_index' = next_index + 1
  BY DEF Start, ObjectBegin, ObjectKey, ObjectValue, ObjectContinue, ObjectComma,
    ArrayBegin, ArraySwitch, ArrayContinue, AtLabel, UpdateChar, Reading
<1>2. \A c \in CharsAt(next_index) : c \in Token
  BY <1>1, CharType DEF IInv, Running, Reading, Verdict
<1> SUFFICES \E c \in CharsAt(next_index) : ScopesFollowRead(c)
  BY <1>1 DEF ReadStep
<1>3. /\ "start_continue" \in Inside /\ "array_continue" \in Inside
      /\ ReturnToObject \in Inside
      /\ {"object_value", "object_comma", "array_switch"} \subseteq Inside
  BY DEF Inside, Reading, ReturnToObject
<1>4. "colon" \in Token \ (Opening \cup Closing)
        /\ "comma" \in Token \ (Opening \cup Closing)
        /\ "end_object" \in Closing /\ "end_array" \in Closing
  BY DEF Token, Punctuation, Opening, Closing
<1>5. CASE Start \/ ObjectValue \/ ArraySwitch
  BY <1>2, <1>3, <1>5, ValueFollows DEF Start, ObjectValue, ArraySwitch
<1>6. CASE ObjectBegin \/ ObjectComma
  BY <1>2, <1>4, <1>6, CloseFollows, KeyFollows
     DEF ObjectBegin, ObjectComma, AtLabel, InObject
<1>7. CASE ArrayBegin
  BY <1>2, <1>3, <1>4, <1>7, CloseFollows, ValueFollows
     DEF ArrayBegin, AtLabel, InArray
<1>8. CASE ObjectKey
  BY <1>2, <1>3, <1>4, <1>8, StayFollows, FailFollows DEF ObjectKey
<1>9. CASE ObjectContinue
  BY <1>2, <1>3, <1>4, <1>9, StayFollows, FailFollows, CloseFollows
     DEF ObjectContinue, AtLabel, InObject
<1>10. CASE ArrayContinue
  BY <1>2, <1>3, <1>4, <1>10, StayFollows, FailFollows, CloseFollows
     DEF ArrayContinue, AtLabel, InArray
<1> QED
  BY <1>5, <1>6, <1>7, <1>8, <1>9, <1>10

LEMMA ReadMatched ==
  ASSUME IInv, IInv', ReadStep, text' = text,
         NEW length \in 0 .. Len(text), NEW h,
         Heights(text, length, h), Matched(length, h)
  PROVE  Matched(length, h)'
<1>1. /\ Len(text) \in Nat \ {0} /\ next_index \in Nat /\ Len(scopes) \in Nat
      /\ next_index' = next_index + 1 /\ label \in Reading /\ Running
      /\ text \in Seq(Token)
  BY ScopeFacts, EmptySeq, SimdjsonAssumption
     DEF ReadStep, IInv, TypeOK, Running, Reading, Verdict
<1>2. PICK c \in CharsAt(next_index) : ScopesFollowRead(c)
  BY DEF ReadStep
<1>3. label' \in Inside
  BY <1>2 DEF ScopesFollowRead
<1>4. ASSUME Running', next_index + 1 <= length
      PROVE  Len(scopes') = 1 + h[next_index + 1]
  <2>1. label' # "failed"
    BY <1>4 DEF Running, Verdict
  <2>2. c = text[next_index + 1]
    BY <1>1, <1>4 DEF CharsAt
  <2>3. /\ next_index + 1 \in 1 .. length /\ next_index + 1 - 1 = next_index
        /\ next_index \in 0 .. length
    BY <1>1, <1>4
  <2>4. Len(scopes) = 1 + h[next_index] /\ h[next_index] \in Int
    BY <1>1, <2>3 DEF Matched, Heights
  <2>5. h[next_index + 1] = h[next_index] +
          (IF c \in Opening THEN 1 ELSE IF c \in Closing THEN -1 ELSE 0)
    BY <2>2, <2>3 DEF Heights
  <2>6. c \in Opening => c \notin Closing
    BY DEF Opening, Closing
  <2> QED
    BY <1>1, <1>2, <2>1, <2>4, <2>5, <2>6 DEF ScopesFollowRead
<1>5. ASSUME label' \in Reading \ {"start"},
             NEW n \in 1 .. length, n <= next_index + 1
      PROVE  h[n] # 0
  <2>1. label = "start" => next_index = 0
    BY DEF Matched
  <2>2. CASE n <= next_index
    BY <1>1, <1>5, <2>1, <2>2 DEF Matched
  <2>3. CASE n = next_index + 1
    <3>1. Running'
      BY <1>5 DEF Running, Reading, Verdict
    <3>2. Len(scopes') = 1 + h[n]
      BY <1>4, <1>5, <2>3, <3>1
    <3>3. Len(scopes') \in Nat /\ Len(scopes') > 1
      <4>1. TypeOK' /\ LabelFits'
        BY <3>1 DEF IInv
      <4>2. scopes' \in Seq(Scope)
        BY <4>1 DEF TypeOK
      <4> QED
        BY <1>5, <4>1, <4>2, LenProperties DEF LabelFits, Reading, InObject, InArray
    <3> QED
      BY <3>2, <3>3
  <2> QED
    BY <1>1, <1>5, <2>2, <2>3
<1>6. label' \notin {"stage_1", "start", "died"}
  BY <1>3 DEF Inside, Reading
<1> QED
  BY <1>1, <1>4, <1>5, <1>6 DEF Matched

LEMMA HeightKeeps == IInv /\ HeightInv /\ Parse => HeightInv'
<1> SUFFICES ASSUME IInv, HeightInv, Parse,
                    NEW length \in 0 .. Len(text), NEW h, Heights(text, length, h)
             PROVE  Matched(length, h)'
  BY StepLabels DEF HeightInv, Heights
<1>1. IInv' /\ text' = text /\ Matched(length, h)
  BY ParseKeeps, StepLabels DEF HeightInv
<1>2. CASE Stage1
  <2>1. next_index' = next_index /\ next_index = 0 /\ h[0] = 0
    BY <1>1, <1>2 DEF Stage1, Matched, Heights
  <2>2. CASE label' = "failed"
    BY <2>2 DEF Matched, Running, Reading, Verdict
  <2>3. CASE label' = "start" /\ Len(scopes') = 1
    BY <2>1, <2>3 DEF Matched
  <2>4. label' = "failed" \/ (label' = "start" /\ Len(scopes') = 1)
    <3>1. Len(<<[offset |-> 0, ret |-> "start_continue"]>>) = 1
      OBVIOUS
    <3> QED
      BY <1>2, <3>1 DEF Stage1
  <2> QED
    BY <2>2, <2>3, <2>4
<1>3. CASE \/ Start \/ ObjectBegin \/ ObjectKey \/ ObjectValue \/ ObjectContinue
           \/ ObjectComma \/ ArrayBegin \/ ArraySwitch \/ ArrayContinue
  BY <1>1, <1>3, ReadSteps, ReadMatched
<1>4. CASE RunAway
  <2>1. /\ label \in Reading /\ next_index > NumberOfIndexes
        /\ label' \in {"failed", "died"}
        /\ next_index' = next_index /\ text' = text
    BY <1>4 DEF RunAway
  <2>2. Len(text) \in Nat /\ next_index \in Nat
    BY SimdjsonAssumption, LenProperties DEF IInv, TypeOK
  <2>3. label # "start"
    BY <1>1, <2>1, <2>2 DEF Matched, NumberOfIndexes
  <2> QED
    BY <1>1, <2>1, <2>2, <2>3 DEF Matched, NumberOfIndexes, Running, Reading, Verdict
<1>5. CASE StartContinue
  BY <1>1, <1>5 DEF StartContinue, Goto, Fail, Matched, Running, Reading, Verdict
<1>6. CASE Succeed
  BY <1>6 DEF Succeed, Goto, Matched, Running, Reading, Verdict
<1> QED
  BY <1>2, <1>3, <1>4, <1>5, <1>6 DEF Parse

\* Before anything is read.
LEMMA HeightStarts ==
  ASSUME label = "stage_1", next_index = 0
  PROVE  HeightInv
BY DEF HeightInv, Matched, Running, Reading, Verdict

-----------------------------------------------------------------------------
(***************************************************************************)
(* The tape as a tree. An item is a value or a key, known by its location; *)
(* a holder says of each item in which container it is, by the location of *)
(* the opening word, and 0 for the root's value. While the machine runs,   *)
(* the containers that are open have no end yet (TapeFits); when it has    *)
(* succeeded, each has one, and each item is followed by another of its    *)
(* container or by the end of it (IsTape). That is what a traverser needs. *)
(***************************************************************************)

ItemTypes == Opening \cup {"quote", "t", "f", "n", "l", "d"}

\* The word at a location of tape t, and what ParsedJson::Iterator makes of it.
Cell(t, v) == t[v + 1]
IsOpening(t, v) == Cell(t, v).type \in Opening
After(t, v) ==
  CASE IsOpening(t, v) -> Cell(t, v).value
    [] Cell(t, v).type \in {"d", "l"} -> v + 2
    [] OTHER -> v + 1
EndOf(t, v) == Cell(t, v).value - 1

Items(h, t, length) ==
  \A v \in DOMAIN h :
    /\ v \in 1 .. length - 1
    /\ Cell(t, v).type \in ItemTypes
    /\ h[v] \in 0 .. v - 1
    /\ h[v] # 0 => h[v] \in DOMAIN h /\ IsOpening(t, h[v])

\* At location v is an item of container c.
ItemIn(h, c, v) == v \in DOMAIN h /\ h[v] = c

\* Container v has an end, and its first item, if it has one, comes first.
Closed(h, t, v, length) ==
  /\ EndOf(t, v) \in v + 1 .. length - 1
  /\ Cell(t, EndOf(t, v)).type \in Closing
  /\ v + 1 = EndOf(t, v) \/ ItemIn(h, v, v + 1)

\* The words of v are followed by another item of its container or by e.
Followed(h, t, v, e) ==
  /\ After(t, v) \in v + 1 .. e
  /\ After(t, v) = e \/ ItemIn(h, h[v], After(t, v))

IsTape(h, t) ==
  LET length == Cell(t, 0).value
  IN  /\ 1 \in DOMAIN h
      /\ length \in Nat
      /\ Items(h, t, length)
      /\ \A v \in DOMAIN h :
           /\ Cell(t, v).value \in Nat
           /\ IsOpening(t, v) => Closed(h, t, v, length)
           /\ h[v] # 0 => Followed(h, t, v, EndOf(t, h[v]))

Offset(s, n) == s[n].offset
Open(s) == {Offset(s, n) : n \in 1 .. Len(s)}
Innermost(s) == Offset(s, Len(s))

\* The open containers: each in the one around it, with its first item, but
\* for the innermost, which may have none yet.
Chain(h, t, s) ==
  /\ Len(s) \in Nat \ {0}
  /\ Offset(s, 1) = 0
  /\ \A n \in 1 .. Len(s) : Offset(s, n) \in 0 .. Len(t) - 1
  /\ \A n \in 2 .. Len(s) :
       /\ ItemIn(h, Offset(s, n - 1), Offset(s, n))
       /\ IsOpening(t, Offset(s, n))
       /\ \/ ItemIn(h, Offset(s, n), Offset(s, n) + 1)
          \/ n = Len(s) /\ Offset(s, n) + 1 = Len(t)
  /\ \A m, n \in 1 .. Len(s) : m < n => Offset(s, m) < Offset(s, n)

\* The others, and the values that are no containers.
Whole(h, t, s) ==
  \A v \in DOMAIN h \ Open(s) :
    /\ IsOpening(t, v) => Closed(h, t, v, Len(t))
    /\ h[v] # 0 /\ h[v] \notin Open(s) => Followed(h, t, v, EndOf(t, h[v]))
    /\ h[v] # 0 /\ h[v] \in Open(s) =>
         /\ Followed(h, t, v, Len(t))
         /\ h[v] # Innermost(s) => After(t, v) # Len(t)

TapeFits(h, t, s) == Items(h, t, Len(t)) /\ Chain(h, t, s) /\ Whole(h, t, s)

\* Tape u has all words of t, and more.
Extends(t, u) ==
  /\ Len(t) < Len(u)
  /\ \A v \in 0 .. Len(t) - 1 : Cell(u, v) = Cell(t, v)

\* The same after an item at the end of tape t was added in container c.
WithItem(h, t, c) ==
  [v \in DOMAIN h \cup {Len(t)} |-> IF v = Len(t) THEN c ELSE h[v]]

LEMMA SameCell ==
  ASSUME NEW t, NEW u, NEW v, Cell(u, v) = Cell(t, v)
  PROVE  /\ IsOpening(u, v) <=> IsOpening(t, v)
         /\ After(u, v) = After(t, v)
         /\ EndOf(u, v) = EndOf(t, v)
BY DEF IsOpening, After, EndOf

LEMMA TapeLocations ==
  ASSUME NEW h, NEW t \in Seq(TapeWord), NEW s, TapeFits(h, t, s)
  PROVE  /\ Len(t) \in Nat
         /\ Len(t) \notin DOMAIN h
         /\ Len(t) \notin Open(s)
         /\ \A v \in DOMAIN h : v \in 1 .. Len(t) - 1 /\ v \in 0 .. Len(t) - 1
         /\ \A v \in DOMAIN h : h[v] # 0 => h[v] \in DOMAIN h
         /\ \A v \in DOMAIN h : h[v] \in 0 .. v - 1
<1>1. Len(t) \in Nat
  BY LenProperties
<1>2. Items(h, t, Len(t)) /\ Chain(h, t, s)
  BY DEF TapeFits
<1>3. \A v \in DOMAIN h : v \in 1 .. Len(t) - 1 /\ v \in 0 .. Len(t) - 1
  BY <1>1, <1>2 DEF Items
<1>4. Len(t) \notin DOMAIN h
  BY <1>1, <1>3
<1>5. Len(t) \notin Open(s)
  <2>1. \A n \in 1 .. Len(s) : Offset(s, n) \in 0 .. Len(t) - 1
    BY <1>2 DEF Chain
  <2>2. \A n \in 1 .. Len(s) : Offset(s, n) # Len(t)
    BY <1>1, <2>1
  <2> QED
    BY <2>2 DEF Open
<1> QED
  BY <1>1, <1>2, <1>3, <1>4, <1>5 DEF Items

\* What an item at the end of the tape does to the rest of the tree.
Joins(g, h, t, c) ==
  /\ DOMAIN g = DOMAIN h \cup {Len(t)}
  /\ g[Len(t)] = c
  /\ \A v \in DOMAIN h : g[v] = h[v]
  /\ ItemIn(g, c, Len(t))
  /\ \A b, v : ItemIn(h, b, v) => ItemIn(g, b, v)

LEMMA ItemJoins ==
  ASSUME NEW h, NEW t \in Seq(TapeWord), NEW s, TapeFits(h, t, s), NEW c
  PROVE  Joins(WithItem(h, t, c), h, t, c)
<1>1. Len(t) \notin DOMAIN h
  BY TapeLocations
<1> QED
  BY <1>1 DEF WithItem, ItemIn, Joins

LEMMA ItemsJoined ==
  ASSUME NEW h, NEW t \in Seq(TapeWord), NEW s, TapeFits(h, t, s),
         NEW u \in Seq(TapeWord), Extends(t, u),
         Cell(u, Len(t)).type \in ItemTypes, Len(t) >= 1
  PROVE  Items(WithItem(h, t, Innermost(s)), u, Len(u))
<1> DEFINE c == Innermost(s)
           g == WithItem(h, t, c)
<1>1. Joins(g, h, t, c)
  BY ItemJoins
<1> HIDE DEF g
<1>2. /\ DOMAIN g = DOMAIN h \cup {Len(t)}
      /\ g[Len(t)] = c
      /\ \A v \in DOMAIN h : g[v] = h[v]
  BY <1>1 DEF Joins
<1>3. Len(t) \in Nat /\ Len(u) \in Nat /\ Len(t) < Len(u)
  BY LenProperties DEF Extends
<1>4. Items(h, t, Len(t)) /\ Chain(h, t, s)
  BY DEF TapeFits
<1>5. \A v \in DOMAIN h : v \in 1 .. Len(t) - 1 /\ v \in 0 .. Len(t) - 1
  BY TapeLocations
<1>6. \A v \in DOMAIN h : Cell(u, v) = Cell(t, v)
  BY <1>5 DEF Extends
<1>7. ASSUME NEW v \in DOMAIN h
      PROVE  /\ v \in 1 .. Len(u) - 1
             /\ Cell(u, v).type \in ItemTypes
             /\ g[v] \in 0 .. v - 1
             /\ g[v] # 0 => g[v] \in DOMAIN g /\ IsOpening(u, g[v])
  <2>1. v \in 1 .. Len(u) - 1
    BY <1>3, <1>5
  <2>2. /\ Cell(t, v).type \in ItemTypes
        /\ h[v] \in 0 .. v - 1
        /\ h[v] # 0 => h[v] \in DOMAIN h /\ IsOpening(t, h[v])
    BY <1>4 DEF Items
  <2>3. h[v] # 0 => IsOpening(u, h[v])
    BY <1>6, <2>2 DEF IsOpening
  <2> QED
    BY <1>2, <1>6, <2>1, <2>2, <2>3
<1>8. c \in 0 .. Len(t) - 1 /\ (c # 0 => c \in DOMAIN h /\ IsOpening(t, c))
  <2>1. /\ Offset(s, 1) = 0 /\ Len(s) \in Nat \ {0}
        /\ \A n \in 1 .. Len(s) : Offset(s, n) \in 0 .. Len(t) - 1
        /\ \A n \in 2 .. Len(s) : /\ Offset(s, n) \in DOMAIN h
                                  /\ IsOpening(t, Offset(s, n))
    BY <1>4 DEF Chain, ItemIn
  <2>2. CASE Len(s) = 1
    BY <2>1, <2>2 DEF Innermost
  <2>3. CASE Len(s) # 1
    <3>1. PICK depth \in Nat \ {0} : depth = Len(s)
      BY <2>1
    <3>2. depth \in 1 .. depth /\ depth \in 2 .. depth
      BY <2>3, <3>1
    <3> QED
      BY <2>1, <3>1, <3>2 DEF Innermost
  <2> QED
    BY <2>2, <2>3
<1> HIDE DEF c
<1>9. c # 0 => c \in DOMAIN g /\ IsOpening(u, c)
  BY <1>2, <1>6, <1>8 DEF IsOpening
<1>10. Len(t) \in 1 .. Len(u) - 1
  BY <1>3
<1> QED
  BY <1>2, <1>7, <1>8, <1>9, <1>10 DEF Items, g, c

LEMMA WholeJoined ==
  ASSUME NEW h, NEW t \in Seq(TapeWord), NEW s, TapeFits(h, t, s),
         NEW u \in Seq(TapeWord), Extends(t, u), NEW v \in DOMAIN h \ Open(s)
  PROVE  LET g == WithItem(h, t, Innermost(s))
         IN  /\ IsOpening(u, v) => Closed(g, u, v, Len(u))
             /\ h[v] # 0 /\ h[v] \notin Open(s) =>
                  Followed(g, u, v, EndOf(u, h[v]))
             /\ h[v] # 0 /\ h[v] \in Open(s) =>
                  /\ Followed(g, u, v, Len(u))
                  /\ After(u, v) # Len(u)
<1> DEFINE g == WithItem(h, t, Innermost(s))
<1>1. Joins(g, h, t, Innermost(s))
  BY ItemJoins
<1> HIDE DEF g
<1>2. /\ g[v] = h[v]
      /\ ItemIn(g, Innermost(s), Len(t))
      /\ \A b, w : ItemIn(h, b, w) => ItemIn(g, b, w)
  BY <1>1 DEF Joins
<1>3. Len(t) \in Nat /\ Len(u) \in Nat /\ Len(t) < Len(u)
  BY LenProperties DEF Extends
<1>4. v \in 1 .. Len(t) - 1 /\ Cell(u, v) = Cell(t, v)
  <2>1. v \in 1 .. Len(t) - 1 /\ v \in 0 .. Len(t) - 1
    BY TapeLocations
  <2> QED
    BY <2>1 DEF Extends
<1>5. /\ IsOpening(u, v) <=> IsOpening(t, v)
      /\ After(u, v) = After(t, v)
      /\ EndOf(u, v) = EndOf(t, v)
  BY <1>4, SameCell
<1>6. /\ IsOpening(t, v) => Closed(h, t, v, Len(t))
      /\ h[v] # 0 /\ h[v] \notin Open(s) => Followed(h, t, v, EndOf(t, h[v]))
      /\ h[v] # 0 /\ h[v] \in Open(s) =>
           /\ Followed(h, t, v, Len(t))
           /\ h[v] # Innermost(s) => After(t, v) # Len(t)
  BY DEF TapeFits, Whole
<1>7. ASSUME IsOpening(t, v), Closed(h, t, v, Len(t))
      PROVE  Closed(g, u, v, Len(u))
  <2>1. EndOf(t, v) \in v + 1 .. Len(t) - 1
    BY <1>7 DEF Closed
  <2>2. EndOf(t, v) \in v + 1 .. Len(u) - 1 /\ EndOf(t, v) \in 0 .. Len(t) - 1
    BY <1>3, <1>4, <2>1
  <2>3. Cell(u, EndOf(t, v)) = Cell(t, EndOf(t, v))
    BY <2>2 DEF Extends
  <2> QED
    BY <1>2, <1>5, <1>7, <2>2, <2>3 DEF Closed
<1>8. ASSUME h[v] # 0, Followed(h, t, v, EndOf(t, h[v]))
      PROVE  Followed(g, u, v, EndOf(u, h[v]))
  <2>1. h[v] \in DOMAIN h
    BY <1>8, TapeLocations
  <2>2. h[v] \in 0 .. Len(t) - 1
    BY <2>1, TapeLocations
  <2>3. EndOf(u, h[v]) = EndOf(t, h[v])
    BY <2>2 DEF Extends, EndOf
  <2> QED
    BY <1>2, <1>5, <1>8, <2>3 DEF Followed
<1>9. ASSUME h[v] # 0, Followed(h, t, v, Len(t)),
             h[v] # Innermost(s) => After(t, v) # Len(t)
      PROVE  Followed(g, u, v, Len(u)) /\ After(u, v) # Len(u)
  <2>1. /\ After(t, v) \in v + 1 .. Len(t)
        /\ After(t, v) = Len(t) \/ ItemIn(h, h[v], After(t, v))
    BY <1>9 DEF Followed
  <2>2. ItemIn(g, h[v], After(t, v))
    BY <1>2, <1>9, <2>1
  <2>3. After(t, v) \in v + 1 .. Len(u) /\ After(t, v) # Len(u)
    BY <1>3, <1>4, <2>1
  <2> QED
    BY <1>2, <1>5, <2>2, <2>3 DEF Followed
<1> QED
  BY <1>5, <1>6, <1>7, <1>8, <1>9 DEF g

LEMMA ChainJoined ==
  ASSUME NEW h, NEW t \in Seq(TapeWord), NEW s, TapeFits(h, t, s),
         NEW u \in Seq(TapeWord), Extends(t, u), NEW n \in 2 .. Len(s)
  PROVE  LET g == WithItem(h, t, Innermost(s))
         IN  /\ ItemIn(g, Offset(s, n - 1), Offset(s, n))
             /\ IsOpening(u, Offset(s, n))
             /\ ItemIn(g, Offset(s, n), Offset(s, n) + 1)
<1> DEFINE g == WithItem(h, t, Innermost(s))
<1>1. /\ ItemIn(g, Innermost(s), Len(t))
      /\ \A b, w : ItemIn(h, b, w) => ItemIn(g, b, w)
  BY ItemJoins DEF Joins
<1> HIDE DEF g
<1>2. /\ ItemIn(h, Offset(s, n - 1), Offset(s, n))
      /\ IsOpening(t, Offset(s, n))
      /\ \/ ItemIn(h, Offset(s, n), Offset(s, n) + 1)
         \/ n = Len(s) /\ Offset(s, n) + 1 = Len(t)
  BY DEF TapeFits, Chain
<1>3. Offset(s, n) \in DOMAIN h
  BY <1>2 DEF ItemIn
<1>4. Offset(s, n) \in 0 .. Len(t) - 1
  BY <1>3, TapeLocations
<1>5. IsOpening(u, Offset(s, n))
  BY <1>2, <1>4 DEF Extends, IsOpening
<1> QED
  BY <1>1, <1>2, <1>5 DEF g, Innermost

\* A scalar or a key is written.
LEMMA WriteFits ==
  ASSUME NEW h, NEW t \in Seq(TapeWord), NEW s, TapeFits(h, t, s),
         NEW u \in Seq(TapeWord), Extends(t, u), Len(t) >= 1,
         Cell(u, Len(t)).type \in ItemTypes \ Opening,
         After(u, Len(t)) = Len(u)
  PROVE  TapeFits(WithItem(h, t, Innermost(s)), u, s)
<1> DEFINE g == WithItem(h, t, Innermost(s))
<1>1. Items(g, u, Len(u))
  BY ItemsJoined
<1>2. Joins(g, h, t, Innermost(s))
  BY ItemJoins
<1>3. ASSUME NEW v \in DOMAIN h \ Open(s)
      PROVE  /\ IsOpening(u, v) => Closed(g, u, v, Len(u))
             /\ h[v] # 0 /\ h[v] \notin Open(s) =>
                  Followed(g, u, v, EndOf(u, h[v]))
             /\ h[v] # 0 /\ h[v] \in Open(s) =>
                  /\ Followed(g, u, v, Len(u))
                  /\ After(u, v) # Len(u)
  BY WholeJoined
<1>4. ASSUME NEW n \in 2 .. Len(s)
      PROVE  /\ ItemIn(g, Offset(s, n - 1), Offset(s, n))
             /\ IsOpening(u, Offset(s, n))
             /\ ItemIn(g, Offset(s, n), Offset(s, n) + 1)
  BY ChainJoined
<1> HIDE DEF g
<1>5. Len(t) \in Nat /\ Len(u) \in Nat /\ Len(t) < Len(u)
  BY LenProperties DEF Extends
<1>6. /\ Len(s) \in Nat \ {0}
      /\ Offset(s, 1) = 0
      /\ \A n \in 1 .. Len(s) : Offset(s, n) \in 0 .. Len(t) - 1
      /\ \A m, n \in 1 .. Len(s) : m < n => Offset(s, m) < Offset(s, n)
  BY DEF TapeFits, Chain
<1>7. Chain(g, u, s)
  <2>1. \A n \in 1 .. Len(s) : Offset(s, n) \in 0 .. Len(u) - 1
    BY <1>5, <1>6
  <2> QED
    BY <1>4, <1>6, <2>1 DEF Chain
<1>8. Whole(g, u, s)
  <2>1. Innermost(s) \in Open(s)
    <3>1. PICK depth \in Nat \ {0} : depth = Len(s)
      BY <1>6
    <3>2. depth \in 1 .. depth
      OBVIOUS
    <3> QED
      BY <3>1, <3>2 DEF Innermost, Open
  <2>2. /\ ~IsOpening(u, Len(t))
        /\ After(u, Len(t)) = Len(u)
        /\ Len(u) \in Len(t) + 1 .. Len(u)
    BY <1>5 DEF IsOpening
  <2>3. /\ DOMAIN g = DOMAIN h \cup {Len(t)}
        /\ g[Len(t)] = Innermost(s)
        /\ \A v \in DOMAIN h : g[v] = h[v]
    BY <1>2 DEF Joins
  <2>4. Followed(g, u, Len(t), Len(u))
    BY <2>2 DEF Followed
  <2>5. ASSUME NEW v \in DOMAIN g \ Open(s)
        PROVE  /\ IsOpening(u, v) => Closed(g, u, v, Len(u))
               /\ g[v] # 0 /\ g[v] \notin Open(s) =>
                    Followed(g, u, v, EndOf(u, g[v]))
               /\ g[v] # 0 /\ g[v] \in Open(s) =>
                    /\ Followed(g, u, v, Len(u))
                    /\ g[v] # Innermost(s) => After(u, v) # Len(u)
    <3>1. CASE v = Len(t)
      BY <2>1, <2>2, <2>3, <2>4, <3>1
    <3>2. CASE v \in DOMAIN h \ Open(s)
      BY <1>3, <2>3, <3>2
    <3> QED
      BY <2>3, <3>1, <3>2
  <2> QED
    BY <2>5 DEF Whole
<1> QED
  BY <1>1, <1>7, <1>8 DEF TapeFits, g

\* A container is opened: it is an item of the one around it.
LEMMA OpenFits ==
  ASSUME NEW h, NEW t \in Seq(TapeWord), NEW s, TapeFits(h, t, s),
         NEW u \in Seq(TapeWord), Extends(t, u), Len(u) = Len(t) + 1,
         Len(t) >= 1, IsOpening(u, Len(t)),
         NEW z, Len(z) = Len(s) + 1, Offset(z, Len(s) + 1) = Len(t),
         \A n \in 1 .. Len(s) : Offset(z, n) = Offset(s, n)
  PROVE  TapeFits(WithItem(h, t, Innermost(s)), u, z)
<1> DEFINE g == WithItem(h, t, Innermost(s))
<1>1. Items(g, u, Len(u))
  BY ItemsJoined DEF IsOpening, ItemTypes
<1>2. Joins(g, h, t, Innermost(s))
  BY ItemJoins
<1>3. ASSUME NEW v \in DOMAIN h \ Open(s)
      PROVE  /\ IsOpening(u, v) => Closed(g, u, v, Len(u))
             /\ h[v] # 0 /\ h[v] \notin Open(s) =>
                  Followed(g, u, v, EndOf(u, h[v]))
             /\ h[v] # 0 /\ h[v] \in Open(s) =>
                  /\ Followed(g, u, v, Len(u))
                  /\ After(u, v) # Len(u)
  BY WholeJoined
<1>4. ASSUME NEW n \in 2 .. Len(s)
      PROVE  /\ ItemIn(g, Offset(s, n - 1), Offset(s, n))
             /\ IsOpening(u, Offset(s, n))
             /\ ItemIn(g, Offset(s, n), Offset(s, n) + 1)
  BY ChainJoined
<1> HIDE DEF g
<1>5. Len(t) \in Nat /\ Len(u) \in Nat
  BY LenProperties
<1>6. /\ Offset(s, 1) = 0
      /\ \A n \in 1 .. Len(s) : Offset(s, n) \in 0 .. Len(t) - 1
      /\ \A m, n \in 1 .. Len(s) : m < n => Offset(s, m) < Offset(s, n)
  BY DEF TapeFits, Chain
<1>7. PICK depth \in Nat \ {0} : depth = Len(s)
  BY DEF TapeFits, Chain
<1>8. ItemIn(g, Innermost(s), Len(t))
  BY <1>2 DEF Joins
<1>9. Chain(g, u, z)
  <2>1. Len(z) \in Nat \ {0} /\ Offset(z, 1) = 0
    <3>1. 1 \in 1 .. depth /\ depth + 1 \in Nat \ {0}
      OBVIOUS
    <3> QED
      BY <1>6, <1>7, <3>1
  <2>2. ASSUME NEW n \in 1 .. depth + 1
        PROVE  Offset(z, n) \in 0 .. Len(u) - 1
    <3>1. CASE n \in 1 .. depth
      <4>1. Offset(z, n) \in 0 .. Len(t) - 1
        BY <1>6, <1>7, <3>1
      <4> QED
        BY <1>5, <4>1
    <3>2. CASE n = depth + 1
      BY <1>5, <1>7, <3>2
    <3> QED
      BY <3>1, <3>2
  <2>3. ASSUME NEW n \in 2 .. depth + 1
        PROVE  /\ ItemIn(g, Offset(z, n - 1), Offset(z, n))
               /\ IsOpening(u, Offset(z, n))
               /\ \/ ItemIn(g, Offset(z, n), Offset(z, n) + 1)
                  \/ n = depth + 1 /\ Offset(z, n) + 1 = Len(u)
    <3>1. n - 1 \in 1 .. depth /\ Offset(z, n - 1) = Offset(s, n - 1)
      BY <1>7
    <3>2. CASE n \in 2 .. depth
      <4>1. Offset(z, n) = Offset(s, n)
        BY <1>7, <3>2
      <4> QED
        BY <1>4, <1>7, <3>1, <3>2, <4>1
    <3>3. CASE n = depth + 1
      <4>1. Offset(z, n) = Len(t) /\ Offset(z, n - 1) = Innermost(s)
        BY <1>7, <3>1, <3>3 DEF Innermost
      <4> QED
        BY <1>8, <3>3, <4>1
    <3> QED
      BY <3>2, <3>3
  <2>4. ASSUME NEW m \in 1 .. depth + 1, NEW n \in 1 .. depth + 1, m < n
        PROVE  Offset(z, m) < Offset(z, n)
    <3>1. m \in 1 .. depth /\ Offset(z, m) = Offset(s, m)
      BY <1>7, <2>4
    <3>2. CASE n \in 1 .. depth
      BY <1>6, <1>7, <2>4, <3>1, <3>2
    <3>3. CASE n = depth + 1
      <4>1. Offset(s, m) \in 0 .. Len(t) - 1
        BY <1>6, <1>7, <3>1
      <4> QED
        BY <1>5, <1>7, <3>1, <3>3, <4>1
    <3> QED
      BY <3>2, <3>3
  <2> QED
    BY <1>7, <2>1, <2>2, <2>3, <2>4 DEF Chain
<1>10. Open(z) = Open(s) \cup {Len(t)}
  <2>1. 1 .. depth + 1 = 1 .. depth \cup {depth + 1}
    OBVIOUS
  <2> QED
    BY <1>7, <2>1 DEF Open
<1>11. Whole(g, u, z)
  <2>1. /\ DOMAIN g = DOMAIN h \cup {Len(t)}
        /\ \A v \in DOMAIN h : g[v] = h[v]
    BY <1>2 DEF Joins
  <2>2. ASSUME NEW v \in DOMAIN g \ Open(z)
        PROVE  /\ IsOpening(u, v) => Closed(g, u, v, Len(u))
               /\ g[v] # 0 /\ g[v] \notin Open(z) =>
                    Followed(g, u, v, EndOf(u, g[v]))
               /\ g[v] # 0 /\ g[v] \in Open(z) =>
                    /\ Followed(g, u, v, Len(u))
                    /\ g[v] # Innermost(z) => After(u, v) # Len(u)
    <3>1. v \in DOMAIN h \ Open(s) /\ g[v] = h[v]
      BY <1>10, <2>1
    <3>2. h[v] # 0 => h[v] \in DOMAIN h
      BY <3>1, TapeLocations
    <3>3. Len(t) \notin DOMAIN h
      BY TapeLocations
    <3> QED
      BY <1>3, <1>10, <3>1, <3>2, <3>3
  <2> QED
    BY <2>2 DEF Whole
<1> QED
  BY <1>1, <1>9, <1>11 DEF TapeFits, g

\* Tape u is tape t with the end of container o, which t does not have yet.
Ends(t, u, o) ==
  /\ Len(u) = Len(t) + 1
  /\ \A v \in 0 .. Len(t) - 1 :
       /\ Cell(u, v).type = Cell(t, v).type
       /\ v # o => Cell(u, v) = Cell(t, v)
  /\ Cell(u, o).value = Len(t) + 1
  /\ Cell(u, Len(t)).type \in Closing

\* The innermost container is closed: it becomes one of the others.
LEMMA CloseFits ==
  ASSUME NEW h, NEW t \in Seq(TapeWord), NEW s, TapeFits(h, t, s), Len(s) > 1,
         NEW u \in Seq(TapeWord), Ends(t, u, Innermost(s)),
         NEW z, Len(z) = Len(s) - 1,
         \A n \in 1 .. Len(s) - 1 : Offset(z, n) = Offset(s, n)
  PROVE  TapeFits(h, u, z)
<1>1. Len(t) \in Nat /\ Len(u) \in Nat /\ Len(u) = Len(t) + 1
  BY LenProperties DEF Ends
<1>2. PICK depth \in Nat \ {0, 1} : depth = Len(s)
  BY DEF TapeFits, Chain
<1>3. PICK o : o = Innermost(s) /\ o = Offset(s, depth)
  BY <1>2 DEF Innermost
<1>4. /\ Offset(s, 1) = 0
      /\ \A n \in 1 .. depth : Offset(s, n) \in 0 .. Len(t) - 1
      /\ \A n \in 2 .. depth :
           /\ ItemIn(h, Offset(s, n - 1), Offset(s, n))
           /\ IsOpening(t, Offset(s, n))
           /\ \/ ItemIn(h, Offset(s, n), Offset(s, n) + 1)
              \/ n = depth /\ Offset(s, n) + 1 = Len(t)
      /\ \A m, n \in 1 .. depth : m < n => Offset(s, m) < Offset(s, n)
  BY <1>2 DEF TapeFits, Chain
<1>5. depth \in 2 .. depth /\ depth \in 1 .. depth /\ depth - 1 \in 1 .. depth - 1
  OBVIOUS
<1>6. /\ o \in 0 .. Len(t) - 1
      /\ ItemIn(h, Offset(s, depth - 1), o)
      /\ IsOpening(t, o)
      /\ ItemIn(h, o, o + 1) \/ o + 1 = Len(t)
  BY <1>3, <1>4, <1>5
<1>7. \A v \in 0 .. Len(t) - 1 :
        /\ IsOpening(u, v) <=> IsOpening(t, v)
        /\ v # o => Cell(u, v) = Cell(t, v)
  BY <1>3 DEF Ends, IsOpening
<1>8. /\ o \notin Open(z)
      /\ Open(s) = Open(z) \cup {o}
      /\ Innermost(z) = Offset(s, depth - 1)
      /\ Len(z) \in Nat \ {0}
      /\ Len(z) = depth - 1
      /\ \A n \in 1 .. depth - 1 : Offset(z, n) = Offset(s, n)
  <2>1. Len(z) = depth - 1 /\ Len(z) \in Nat \ {0}
    BY <1>2
  <2>2. Innermost(z) = Offset(s, depth - 1)
    BY <1>2, <1>5, <2>1 DEF Innermost
  <2>3. 1 .. depth = (1 .. depth - 1) \cup {depth}
    OBVIOUS
  <2>4. Open(s) = Open(z) \cup {o}
    BY <1>2, <1>3, <2>1, <2>3 DEF Open
  <2>5. ASSUME NEW n \in 1 .. depth - 1 PROVE Offset(z, n) # o
    <3>1. n \in 1 .. depth /\ n < depth
      OBVIOUS
    <3>2. Offset(s, n) < o /\ Offset(s, n) \in 0 .. Len(t) - 1
      BY <1>3, <1>4, <1>5, <3>1
    <3> QED
      BY <1>1, <1>2, <1>6, <3>2
  <2>6. o \notin Open(z)
    BY <2>1, <2>5 DEF Open
  <2> QED
    BY <1>2, <2>1, <2>2, <2>4, <2>6
<1>9. Items(h, u, Len(u))
  <2>1. ASSUME NEW v \in DOMAIN h
        PROVE  /\ v \in 1 .. Len(u) - 1
               /\ Cell(u, v).type \in ItemTypes
               /\ h[v] \in 0 .. v - 1
               /\ h[v] # 0 => h[v] \in DOMAIN h /\ IsOpening(u, h[v])
    <3>1. /\ v \in 1 .. Len(t) - 1 /\ v \in 0 .. Len(t) - 1
          /\ h[v] # 0 => h[v] \in DOMAIN h /\ h[v] \in 0 .. Len(t) - 1
      BY TapeLocations
    <3>2. /\ Cell(t, v).type \in ItemTypes
          /\ h[v] \in 0 .. v - 1
          /\ h[v] # 0 => IsOpening(t, h[v])
      BY DEF TapeFits, Items
    <3>3. v \in 1 .. Len(u) - 1
      BY <1>1, <3>1
    <3>4. Cell(u, v).type = Cell(t, v).type
      BY <3>1 DEF Ends
    <3> QED
      BY <1>7, <3>1, <3>2, <3>3, <3>4
  <2> QED
    BY <2>1 DEF Items
<1>10. Chain(h, u, z)
  <2>1. ASSUME NEW n \in 1 .. depth - 1
        PROVE  Offset(z, n) \in 0 .. Len(u) - 1
    <3>1. n \in 1 .. depth
      OBVIOUS
    <3>2. Offset(z, n) \in 0 .. Len(t) - 1
      BY <1>4, <1>8, <3>1
    <3> QED
      BY <1>1, <3>2
  <2>2. ASSUME NEW n \in 2 .. depth - 1
        PROVE  /\ ItemIn(h, Offset(z, n - 1), Offset(z, n))
               /\ IsOpening(u, Offset(z, n))
               /\ ItemIn(h, Offset(z, n), Offset(z, n) + 1)
    <3>1. n \in 2 .. depth /\ n # depth /\ n \in 1 .. depth - 1
            /\ n \in 1 .. depth /\ n - 1 \in 1 .. depth - 1
      OBVIOUS
    <3>2. Offset(z, n) = Offset(s, n) /\ Offset(z, n - 1) = Offset(s, n - 1)
      BY <1>8, <3>1
    <3>3. Offset(s, n) \in 0 .. Len(t) - 1
      BY <1>4, <3>1
    <3> QED
      BY <1>4, <1>7, <3>1, <3>2, <3>3
  <2>3. ASSUME NEW m \in 1 .. depth - 1, NEW n \in 1 .. depth - 1, m < n
        PROVE  Offset(z, m) < Offset(z, n)
    <3>1. m \in 1 .. depth /\ n \in 1 .. depth
      OBVIOUS
    <3> QED
      BY <1>4, <1>8, <2>3, <3>1
  <2>4. Offset(z, 1) = 0
    <3>1. 1 \in 1 .. depth - 1
      OBVIOUS
    <3> QED
      BY <1>4, <1>8, <3>1
  <2> QED
    BY <1>8, <2>1, <2>2, <2>3, <2>4 DEF Chain
<1>11. Whole(h, u, z)
  <2>1. Closed(h, u, o, Len(u)) /\ EndOf(u, o) = Len(t)
    <3>1. EndOf(u, o) = Len(t)
      BY <1>1, <1>3 DEF Ends, EndOf
    <3>2. EndOf(u, o) \in o + 1 .. Len(u) - 1
      BY <1>1, <1>6, <3>1
    <3>3. Cell(u, EndOf(u, o)).type \in Closing
      BY <3>1 DEF Ends
    <3> QED
      BY <1>6, <3>1, <3>2, <3>3 DEF Closed
  <2>2. After(u, o) = Len(u) /\ Followed(h, u, o, Len(u))
    <3>1. After(u, o) = Len(u)
      <4>1. IsOpening(u, o)
        BY <1>6, <1>7
      <4>2. Cell(u, o).value = Len(u)
        BY <1>1, <1>3 DEF Ends
      <4> QED
        BY <4>1, <4>2 DEF After, IsOpening, Opening
    <3>2. Len(u) \in o + 1 .. Len(u)
      BY <1>1, <1>6
    <3> QED
      BY <3>1, <3>2 DEF Followed
  <2>3. h[o] = Innermost(z) /\ Innermost(z) \in Open(z) /\ o \in DOMAIN h
    <3>1. h[o] = Innermost(z) /\ o \in DOMAIN h
      BY <1>6, <1>8 DEF ItemIn
    <3>2. Innermost(z) = Offset(z, depth - 1)
      BY <1>5, <1>8
    <3>3. depth - 1 \in 1 .. Len(z)
      BY <1>5, <1>8
    <3> QED
      BY <3>1, <3>2, <3>3 DEF Open
  <2>4. ASSUME NEW v \in DOMAIN h \ Open(s)
        PROVE  /\ IsOpening(u, v) => Closed(h, u, v, Len(u))
               /\ h[v] # 0 /\ h[v] \notin Open(z) =>
                    Followed(h, u, v, EndOf(u, h[v]))
               /\ h[v] # 0 /\ h[v] \in Open(z) =>
                    /\ Followed(h, u, v, Len(u))
                    /\ After(u, v) # Len(u)
    <3>1. /\ v \in 1 .. Len(t) - 1 /\ v \in 0 .. Len(t) - 1
          /\ v # o /\ Cell(u, v) = Cell(t, v)
      <4>1. v \in 1 .. Len(t) - 1 /\ v \in 0 .. Len(t) - 1 /\ v # o
        BY <1>8, TapeLocations
      <4> QED
        BY <1>7, <4>1
    <3>2. After(u, v) = After(t, v) /\ EndOf(u, v) = EndOf(t, v)
      BY <3>1, SameCell
    <3>3. /\ IsOpening(t, v) => Closed(h, t, v, Len(t))
          /\ h[v] # 0 /\ h[v] \notin Open(s) => Followed(h, t, v, EndOf(t, h[v]))
          /\ h[v] # 0 /\ h[v] \in Open(s) =>
               /\ Followed(h, t, v, Len(t))
               /\ h[v] # o => After(t, v) # Len(t)
      BY <1>3 DEF TapeFits, Whole
    <3>4. ASSUME Closed(h, t, v, Len(t)) PROVE Closed(h, u, v, Len(u))
      <4>1. EndOf(t, v) \in v + 1 .. Len(t) - 1
        BY <3>4 DEF Closed
      <4>2. EndOf(t, v) \in v + 1 .. Len(u) - 1 /\ EndOf(t, v) \in 0 .. Len(t) - 1
        BY <1>1, <3>1, <4>1
      <4>3. Cell(u, EndOf(t, v)).type = Cell(t, EndOf(t, v)).type
        BY <4>2 DEF Ends
      <4> QED
        BY <3>2, <3>4, <4>2, <4>3 DEF Closed
    <3>5. ASSUME h[v] # 0, h[v] # o, Followed(h, t, v, EndOf(t, h[v]))
          PROVE  Followed(h, u, v, EndOf(u, h[v]))
      <4>1. h[v] \in 0 .. Len(t) - 1
        BY <3>5, TapeLocations
      <4>2. EndOf(u, h[v]) = EndOf(t, h[v])
        BY <1>7, <3>5, <4>1 DEF EndOf
      <4> QED
        BY <3>2, <3>5, <4>2 DEF Followed
    <3>6. ASSUME h[v] = o, Followed(h, t, v, Len(t))
          PROVE  Followed(h, u, v, EndOf(u, h[v]))
      BY <2>1, <3>2, <3>6 DEF Followed
    <3>7. ASSUME Followed(h, t, v, Len(t)), After(t, v) # Len(t)
          PROVE  Followed(h, u, v, Len(u)) /\ After(u, v) # Len(u)
      <4>1. /\ After(t, v) \in v + 1 .. Len(t)
            /\ ItemIn(h, h[v], After(t, v))
        BY <3>7 DEF Followed
      <4>2. After(t, v) \in v + 1 .. Len(u) /\ After(t, v) # Len(u)
        BY <1>1, <3>1, <4>1
      <4> QED
        BY <3>2, <4>1, <4>2 DEF Followed
    <3>8. h[v] # 0 /\ h[v] \notin Open(z) => Followed(h, u, v, EndOf(u, h[v]))
      BY <1>8, <3>3, <3>5, <3>6
    <3>9. h[v] # 0 /\ h[v] \in Open(z) =>
            Followed(h, u, v, Len(u)) /\ After(u, v) # Len(u)
      BY <1>8, <3>3, <3>7
    <3> QED
      BY <1>7, <3>1, <3>3, <3>4, <3>8, <3>9
  <2> QED
    BY <1>8, <2>1, <2>2, <2>3, <2>4 DEF Whole
<1> QED
  BY <1>9, <1>10, <1>11 DEF TapeFits

\* All containers are closed, and the first word learns where the last is.
LEMMA SucceedFits ==
  ASSUME NEW h, NEW t \in Seq(TapeWord), NEW s, TapeFits(h, t, s), Len(s) = 1,
         1 \in DOMAIN h, NEW u,
         Cell(u, 0).value = Len(t),
         \A v \in 1 .. Len(t) - 1 : Cell(u, v) = Cell(t, v)
  PROVE  IsTape(h, u)
<1>1. Len(t) \in Nat
  BY LenProperties
<1>2. Open(s) = {0}
  BY DEF TapeFits, Chain, Open
<1>3. \A v \in DOMAIN h : v \in 1 .. Len(t) - 1
  BY TapeLocations
<1>4. ASSUME NEW v \in DOMAIN h
      PROVE  /\ Cell(u, v) = Cell(t, v)
             /\ IsOpening(u, v) <=> IsOpening(t, v)
             /\ After(u, v) = After(t, v)
             /\ EndOf(u, v) = EndOf(t, v)
  <2>1. Cell(u, v) = Cell(t, v)
    BY <1>3
  <2> QED
    BY <2>1, SameCell
<1>5. Items(h, u, Len(t))
  BY <1>4 DEF TapeFits, Items
<1>6. ASSUME NEW v \in DOMAIN h PROVE Cell(u, v).value \in Nat
  <2>1. v + 1 \in 1 .. Len(t)
    BY <1>1, <1>3
  <2>2. t[v + 1] \in TapeWord
    BY <2>1, ElementOfSeq
  <2> QED
    BY <1>4, <2>2 DEF Cell, TapeWord
<1>7. ASSUME NEW v \in DOMAIN h
      PROVE  /\ IsOpening(u, v) => Closed(h, u, v, Len(t))
             /\ h[v] # 0 => Followed(h, u, v, EndOf(u, h[v]))
  <2>1. v \in DOMAIN h \ Open(s)
    BY <1>1, <1>2, <1>3
  <2>2. /\ IsOpening(t, v) => Closed(h, t, v, Len(t))
        /\ h[v] # 0 => Followed(h, t, v, EndOf(t, h[v]))
    BY <1>2, <2>1 DEF TapeFits, Whole
  <2>3. ASSUME Closed(h, t, v, Len(t)) PROVE Closed(h, u, v, Len(t))
    <3>1. EndOf(t, v) \in v + 1 .. Len(t) - 1
      BY <2>3 DEF Closed
    <3>2. EndOf(t, v) \in 1 .. Len(t) - 1
      BY <1>1, <1>3, <3>1
    <3> QED
      BY <1>4, <2>3, <3>1, <3>2 DEF Closed
  <2>4. ASSUME h[v] # 0, Followed(h, t, v, EndOf(t, h[v]))
        PROVE  Followed(h, u, v, EndOf(u, h[v]))
    <3>1. h[v] \in DOMAIN h
      BY <2>4, TapeLocations
    <3> QED
      BY <1>4, <2>4, <3>1 DEF Followed
  <2> QED
    BY <1>4, <2>2, <2>3, <2>4
<1> QED
  BY <1>1, <1>5, <1>7, <1>6 DEF IsTape

-----------------------------------------------------------------------------
(***************************************************************************)
(* The machine builds such a tape.                                         *)
(***************************************************************************)

TreeOf(h) ==
  /\ TapeFits(h, tape, scopes)
  /\ IF label = "start" THEN Len(tape) = 1 ELSE 1 \in DOMAIN h

TreeInv ==
  /\ Running => \E h : TreeOf(h)
  /\ label = "succeeded" => \E h : IsTape(h, tape)

\* The words of a scalar or of a key.
ItemWords(words) ==
  /\ words \in Seq(TapeWord)
  /\ Len(words) = IF words[1].type \in {"d", "l"} THEN 2 ELSE 1
  /\ words[1].type \in ItemTypes \ Opening

LEMMA ScalarItem ==
  ASSUME NEW kind \in ScalarKind \ {"huge"}, NEW n \in Nat
  PROVE  ItemWords(ScalarWords(kind, n))
<1> DEFINE word(type) == Word(type, 0, Payload(kind, n))
           bits == Word("end_array", 0, NoPayload)
<1>1. ScalarWords(kind, n) \in Seq(TapeWord)
  BY ScalarWordsType
<1>2. \A type : word(type).type = type
  BY DEF Word
<1>3. \/ \E type \in {"quote", "t", "f", "n"} :
           ScalarWords(kind, n) = <<word(type)>>
      \/ \E type \in {"d", "l"} : ScalarWords(kind, n) = <<word(type), bits>>
  BY DEF ScalarWords, Number, ScalarKind, AtomKind, NumberKind
<1> HIDE DEF word, bits
<1>4. CASE \E type \in {"quote", "t", "f", "n"} :
             ScalarWords(kind, n) = <<word(type)>>
  BY <1>1, <1>2, <1>4 DEF ItemWords, ItemTypes, Opening
<1>5. CASE \E type \in {"d", "l"} : ScalarWords(kind, n) = <<word(type), bits>>
  BY <1>1, <1>2, <1>5 DEF ItemWords, ItemTypes, Opening
<1> QED
  BY <1>3, <1>4, <1>5

LEMMA KeyItem ==
  ASSUME next_index \in Nat
  PROVE  ItemWords(<<KeyWord>>)
<1>1. next_index + 1 \in Nat /\ "string" \in ScalarKind
  BY DEF ScalarKind
<1>2. Payload("string", next_index + 1) \in StoredPayload
  BY <1>1, PayloadType
<1>3. KeyWord \in TapeWord /\ KeyWord.type = "quote"
  BY <1>2, WordType DEF KeyWord, WordTypes
<1> HIDE DEF KeyWord
<1> QED
  BY <1>3 DEF ItemWords, ItemTypes, Opening

\* What is written behind a tape.
LEMMA Written ==
  ASSUME NEW t \in Seq(TapeWord), NEW words \in Seq(TapeWord), Len(words) >= 1
  PROVE  /\ t \o words \in Seq(TapeWord)
         /\ Len(t \o words) = Len(t) + Len(words)
         /\ Extends(t, t \o words)
         /\ Cell(t \o words, Len(t)) = words[1]
<1>1. Len(t) \in Nat /\ Len(words) \in Nat
  BY LenProperties
<1>2. /\ t \o words \in Seq(TapeWord)
      /\ Len(t \o words) = Len(t) + Len(words)
      /\ \A k \in 1 .. Len(t) + Len(words) :
           (t \o words)[k] = IF k <= Len(t) THEN t[k] ELSE words[k - Len(t)]
  BY ConcatProperties
<1>3. PICK u : u = t \o words
  OBVIOUS
<1>4. \A v \in 0 .. Len(t) - 1 : u[v + 1] = t[v + 1]
  BY <1>1, <1>2, <1>3
<1>5. u[Len(t) + 1] = words[1]
  BY <1>1, <1>2, <1>3
<1>6. Len(t) < Len(u)
  BY <1>1, <1>2, <1>3
<1> QED
  BY <1>2, <1>3, <1>4, <1>5, <1>6 DEF Extends, Cell

LEMMA TreeStarts ==
  ASSUME IInv, Running, NEW h, TreeOf(h)
  PROVE  /\ tape \in Seq(TapeWord) /\ scopes \in Seq(Scope)
         /\ Len(tape) \in Nat /\ Len(tape) >= 1
         /\ 1 \in DOMAIN h \cup {Len(tape)}
<1>1. /\ tape \in Seq(TapeWord) /\ scopes \in Seq(Scope)
      /\ Len(tape) \in Nat
  BY LenProperties DEF IInv, TypeOK
<1>2. CASE label = "start"
  <2>1. Len(tape) = 1
    BY <1>2 DEF TreeOf
  <2> QED
    BY <1>1, <2>1
<1>3. CASE label # "start"
  <2>1. 1 \in DOMAIN h /\ TapeFits(h, tape, scopes)
    BY <1>3 DEF TreeOf
  <2>2. 1 \in 1 .. Len(tape) - 1
    BY <1>1, <2>1, TapeLocations
  <2> QED
    BY <1>1, <2>1, <2>2
<1> QED
  BY <1>2, <1>3

LEMMA WriteTree ==
  ASSUME IInv, Running, NEW h, TreeOf(h), NEW words, ItemWords(words),
         NEW next, next # "start", Write(words, next)
  PROVE  \E g : TreeOf(g)'
<1> DEFINE g == WithItem(h, tape, Innermost(scopes))
<1>1. TapeFits(h, tape, scopes)
  BY DEF TreeOf
<1>2. tape' = tape \o words /\ scopes' = scopes /\ label' # "start"
  BY DEF Write
<1>3. tape \in Seq(TapeWord) /\ Len(tape) \in Nat /\ Len(tape) >= 1
  BY TreeStarts
<1>4. /\ words \in Seq(TapeWord)
      /\ Len(words) = IF words[1].type \in {"d", "l"} THEN 2 ELSE 1
      /\ words[1].type \in ItemTypes \ Opening
  BY DEF ItemWords
<1>5. /\ tape' \in Seq(TapeWord)
      /\ Len(tape') = Len(tape) + Len(words)
      /\ Extends(tape, tape')
      /\ Cell(tape', Len(tape)) = words[1]
  <2>1. Len(words) >= 1
    BY <1>4
  <2> QED
    BY <1>2, <1>3, <1>4, <2>1, Written
<1>6. After(tape', Len(tape)) = Len(tape')
  BY <1>3, <1>4, <1>5 DEF After, IsOpening
<1>7. TapeFits(g, tape', scopes')
  BY <1>1, <1>2, <1>3, <1>4, <1>5, <1>6, WriteFits
<1>8. 1 \in DOMAIN g
  <2>1. DOMAIN g = DOMAIN h \cup {Len(tape)}
    BY DEF WithItem
  <2> QED
    BY <2>1, TreeStarts
<1> HIDE DEF g
<1> QED
  BY <1>2, <1>7, <1>8 DEF TreeOf

LEMMA OpenTree ==
  ASSUME IInv, Running, NEW h, TreeOf(h), NEW c \in Opening, NEW ret,
         OpenScope(c, ret)
  PROVE  \E g : TreeOf(g)'
<1> DEFINE g == WithItem(h, tape, Innermost(scopes))
           words == OpeningWords(c)
           scope == [offset |-> Len(tape), ret |-> ret]
<1>1. TapeFits(h, tape, scopes)
  BY DEF TreeOf
<1>2. tape' = tape \o words /\ scopes' = Append(scopes, scope)
  BY DEF OpenScope
<1>3. label' # "start"
  BY DEF OpenScope, Opening
<1>4. /\ tape \in Seq(TapeWord) /\ scopes \in Seq(Scope)
      /\ Len(tape) \in Nat /\ Len(tape) >= 1
  BY TreeStarts
<1>5. words \in Seq(TapeWord) /\ Len(words) = 1 /\ words[1].type = c
  <2>1. Word(c, 0, NoPayload) \in TapeWord /\ Word(c, 0, NoPayload).type = c
    BY WordType, PayloadType DEF WordTypes, Opening, Closing
  <2> QED
    BY <2>1 DEF OpeningWords
<1>6. /\ scopes' \in Seq(Scope \cup {scope})
      /\ Len(scopes') = Len(scopes) + 1
      /\ \A n \in 1 .. Len(scopes) : scopes'[n] = scopes[n]
      /\ scopes'[Len(scopes) + 1].offset = Len(tape)
  <2>1. scopes \in Seq(Scope \cup {scope}) /\ scope \in Scope \cup {scope}
    BY <1>4, SeqMonotonic
  <2>2. scope.offset = Len(tape)
    OBVIOUS
  <2> HIDE DEF scope
  <2>3. /\ Append(scopes, scope) \in Seq(Scope \cup {scope})
        /\ Len(Append(scopes, scope)) = Len(scopes) + 1
        /\ \A n \in 1 .. Len(scopes) : Append(scopes, scope)[n] = scopes[n]
        /\ Append(scopes, scope)[Len(scopes) + 1] = scope
    BY <2>1, AppendProperties
  <2> QED
    BY <1>2, <2>2, <2>3
<1> HIDE DEF words, scope
<1>7. /\ tape' \in Seq(TapeWord)
      /\ Len(tape') = Len(tape) + 1
      /\ Extends(tape, tape')
      /\ Cell(tape', Len(tape)) = words[1]
  <2>1. Len(words) >= 1
    BY <1>5
  <2> QED
    BY <1>2, <1>4, <1>5, <2>1, Written
<1>8. IsOpening(tape', Len(tape))
  BY <1>5, <1>7 DEF IsOpening
<1>9. /\ Len(scopes') = Len(scopes) + 1
      /\ Offset(scopes', Len(scopes) + 1) = Len(tape)
      /\ \A n \in 1 .. Len(scopes) : Offset(scopes', n) = Offset(scopes, n)
  BY <1>6 DEF Offset
<1>10. TapeFits(g, tape', scopes')
  BY <1>1, <1>4, <1>7, <1>8, <1>9, OpenFits
<1>11. 1 \in DOMAIN g
  <2>1. DOMAIN g = DOMAIN h \cup {Len(tape)}
    BY DEF WithItem
  <2> QED
    BY <2>1, TreeStarts
<1> HIDE DEF g
<1> QED
  BY <1>3, <1>10, <1>11 DEF TreeOf

LEMMA CloseTree ==
  ASSUME IInv, Running, label # "start", Len(scopes) > 1, NEW h, TreeOf(h),
         NEW c \in Closing, CloseScope(c), label' # "start"
  PROVE  TreeOf(h)'
<1> DEFINE o == Innermost(scopes)
           closed == Filled(tape, o + 1, Len(tape) + 1)
           word == Word(c, o, NoPayload)
<1>1. TapeFits(h, tape, scopes) /\ 1 \in DOMAIN h
  BY DEF TreeOf
<1>2. /\ tape \in Seq(TapeWord) /\ scopes \in Seq(Scope)
      /\ Len(tape) \in Nat
  BY TreeStarts
<1>3. tape' = Append(closed, word) /\ scopes' = Front(scopes)
  BY DEF CloseScope, ScopesAround, Last, Innermost, Offset, Filled
<1>4. o \in 0 .. Len(tape) - 1
  <2>1. PICK depth \in Nat \ {0} : depth = Len(scopes)
    BY <1>1 DEF TapeFits, Chain
  <2>2. depth \in 1 .. depth
    OBVIOUS
  <2> QED
    BY <1>1, <2>1, <2>2 DEF TapeFits, Chain, Innermost
<1>5. word \in TapeWord /\ word.type = c
  <2>1. c \in WordTypes /\ o \in Nat /\ NoPayload \in StoredPayload
    BY <1>2, <1>4, PayloadType DEF WordTypes
  <2> HIDE DEF o
  <2> QED
    BY <2>1, WordType
<1> HIDE DEF word
<1>6. /\ closed \in Seq(TapeWord)
      /\ Len(closed) = Len(tape)
      /\ \A k \in 1 .. Len(tape) :
           /\ closed[k].type = tape[k].type
           /\ k # o + 1 => closed[k] = tape[k]
      /\ closed[o + 1].value = Len(tape) + 1
  <2>1. o + 1 \in 1 .. Len(tape) /\ Len(tape) + 1 \in Nat
    BY <1>2, <1>4
  <2> HIDE DEF o
  <2>2. /\ Filled(tape, o + 1, Len(tape) + 1) \in Seq(TapeWord)
        /\ Len(Filled(tape, o + 1, Len(tape) + 1)) = Len(tape)
        /\ \A k \in 1 .. Len(tape) :
             Filled(tape, o + 1, Len(tape) + 1)[k].type = tape[k].type
    BY <1>2, <2>1, FillKeeps
  <2>3. /\ \A k \in 1 .. Len(tape) : k # o + 1 => closed[k] = tape[k]
        /\ closed[o + 1].value = Len(tape) + 1
    BY <1>2, <2>1, FillValue
  <2> QED
    BY <2>2, <2>3
<1> HIDE DEF closed
<1>7. /\ tape' \in Seq(TapeWord)
      /\ Len(tape') = Len(tape) + 1
      /\ \A k \in 1 .. Len(tape) : tape'[k] = closed[k]
      /\ tape'[Len(tape) + 1] = word
  BY <1>3, <1>5, <1>6, AppendProperties
<1> HIDE DEF o
<1>8. Ends(tape, tape', o)
  <2>1. \A v \in 0 .. Len(tape) - 1 :
          /\ Cell(tape', v).type = Cell(tape, v).type
          /\ v # o => Cell(tape', v) = Cell(tape, v)
    <3>1. SUFFICES ASSUME NEW v \in 0 .. Len(tape) - 1
                   PROVE  /\ tape'[v + 1].type = tape[v + 1].type
                          /\ v # o => tape'[v + 1] = tape[v + 1]
      BY DEF Cell
    <3>2. v + 1 \in 1 .. Len(tape) /\ (v # o => v + 1 # o + 1)
      BY <1>2, <1>4
    <3> QED
      BY <1>6, <1>7, <3>2
  <2>2. Cell(tape', o).value = Len(tape) + 1
    <3>1. o + 1 \in 1 .. Len(tape)
      BY <1>2, <1>4
    <3> QED
      BY <1>6, <1>7, <3>1 DEF Cell
  <2>3. Cell(tape', Len(tape)).type \in Closing
    BY <1>5, <1>7 DEF Cell
  <2> QED
    BY <1>7, <2>1, <2>2, <2>3 DEF Ends
<1>9. /\ Len(scopes') = Len(scopes) - 1
      /\ \A n \in 1 .. Len(scopes) - 1 : Offset(scopes', n) = Offset(scopes, n)
  <2>1. scopes # <<>>
    BY <1>2, EmptySeq
  <2> QED
    BY <1>2, <1>3, <2>1, FrontFacts DEF Offset
<1>10. TapeFits(h, tape', scopes')
  BY <1>1, <1>2, <1>7, <1>8, <1>9, CloseFits DEF o
<1> QED
  BY <1>1, <1>10 DEF TreeOf

LEMMA SucceedTree ==
  ASSUME IInv, NEW h, TreeOf(h), Succeed
  PROVE  label' = "succeeded" /\ IsTape(h, tape')
<1> DEFINE filled == Filled(tape, 1, Len(tape))
           word == Word("r", 0, NoPayload)
<1>1. label = "succeed" /\ Running
  BY DEF Succeed, Running, Verdict
<1>2. Len(scopes) = 1 /\ scopes[1].offset = 0
  BY <1>1 DEF IInv, ScopesNest, LabelFits
<1>3. tape' = Append(filled, word) /\ label' = "succeeded"
  BY <1>2 DEF Succeed, Filled
<1>4. /\ tape \in Seq(TapeWord)
      /\ Len(tape) \in Nat /\ Len(tape) >= 1 /\ 1 \in 1 .. Len(tape)
  BY <1>1, TreeStarts
<1>5. word \in TapeWord
  BY WordType, PayloadType DEF WordTypes
<1>6. /\ filled \in Seq(TapeWord)
      /\ Len(filled) = Len(tape)
      /\ \A k \in 1 .. Len(tape) : k # 1 => filled[k] = tape[k]
      /\ filled[1].value = Len(tape)
  BY <1>4, FillKeeps, FillValue
<1> HIDE DEF filled, word
<1>7. \A k \in 1 .. Len(tape) : tape'[k] = filled[k]
  BY <1>3, <1>5, <1>6, AppendProperties
<1>8. Cell(tape', 0).value = Len(tape)
  BY <1>4, <1>6, <1>7 DEF Cell
<1>9. \A v \in 1 .. Len(tape) - 1 : Cell(tape', v) = Cell(tape, v)
  <2>1. SUFFICES ASSUME NEW v \in 1 .. Len(tape) - 1
                 PROVE  tape'[v + 1] = tape[v + 1]
    BY DEF Cell
  <2>2. v + 1 \in 1 .. Len(tape) /\ v + 1 # 1
    BY <1>4
  <2> QED
    BY <1>6, <1>7, <2>2
<1>10. TapeFits(h, tape, scopes) /\ 1 \in DOMAIN h
  BY <1>1 DEF TreeOf
<1> QED
  BY <1>2, <1>3, <1>4, <1>8, <1>9, <1>10, SucceedFits

\* What each label does with the character it reads.
LEMMA FailTree ==
  ASSUME label' \in {"failed", "died", "internal_bug"}
  PROVE  TreeInv'
BY DEF TreeInv, Running, Verdict

LEMMA GrownTree ==
  ASSUME label' # "succeeded", \E h : TreeOf(h)'
  PROVE  TreeInv'
BY DEF TreeInv

LEMMA GotoTree ==
  ASSUME TreeInv, Running, label # "start", NEW next,
         next \notin {"start", "succeeded"}, Goto(next)
  PROVE  TreeInv'
<1>1. PICK h : TreeOf(h)
  BY DEF TreeInv
<1>2. TreeOf(h)'
  BY <1>1 DEF Goto, TreeOf
<1> QED
  BY <1>2, GrownTree DEF Goto

LEMMA KeyTree ==
  ASSUME IInv, TreeInv, Running, NEW c, ReadKey(c)
  PROVE  TreeInv'
<1>1. CASE Fail
  BY <1>1, FailTree DEF Fail, Goto
<1>2. CASE Write(<<KeyWord>>, "object_key")
  <2>1. PICK h : TreeOf(h)
    BY DEF TreeInv
  <2>2. ItemWords(<<KeyWord>>)
    BY KeyItem DEF IInv, TypeOK
  <2>3. \E g : TreeOf(g)'
    BY <1>2, <2>1, <2>2, WriteTree
  <2>4. label' = "object_key"
    BY <1>2 DEF Write
  <2> QED
    BY <2>3, <2>4, GrownTree
<1> QED
  BY <1>1, <1>2 DEF ReadKey

LEMMA ValueTree ==
  ASSUME IInv, TreeInv, Running, NEW c,
         NEW ret \in {"start_continue", "object_continue", "array_continue"},
         ReadValue(c, ret)
  PROVE  TreeInv'
<1>1. PICK h : TreeOf(h)
  BY DEF TreeInv
<1>2. CASE c \in Opening /\ OpenScope(c, ret)
  <2>1. \E g : TreeOf(g)'
    BY <1>1, <1>2, OpenTree
  <2>2. label' # "succeeded"
    BY <1>2 DEF OpenScope, Opening
  <2> QED
    BY <2>1, <2>2, GrownTree
<1>3. CASE /\ c \in ScalarKind \ {"huge"}
           /\ Write(ScalarWords(c, next_index + 1), ret)
  <2>1. next_index + 1 \in Nat
    BY DEF IInv, TypeOK
  <2>2. ItemWords(ScalarWords(c, next_index + 1))
    BY <1>3, <2>1, ScalarItem
  <2>3. \E g : TreeOf(g)'
    BY <1>1, <1>3, <2>2, WriteTree
  <2>4. label' = ret
    BY <1>3 DEF Write
  <2> QED
    BY <2>3, <2>4, GrownTree
<1>4. CASE Fail
  BY <1>4, FailTree DEF Fail, Goto
<1> QED
  BY <1>2, <1>3, <1>4 DEF ReadValue

LEMMA EndTree ==
  ASSUME IInv, TreeInv, label \in InObject \cup InArray,
         NEW c \in Closing, CloseScope(c)
  PROVE  TreeInv'
<1>1. Running /\ label # "start"
  BY DEF Running, Verdict, InObject, InArray
<1>2. TypeOK /\ ScopesNest /\ LabelFits
  BY <1>1 DEF IInv
<1>3. Len(scopes) > 1
  BY <1>2 DEF LabelFits
<1>4. label' \in {"start_continue", "object_continue", "array_continue"}
  BY <1>2, <1>3, CloseKeeps
<1>5. PICK h : TreeOf(h)
  BY <1>1 DEF TreeInv
<1>6. TreeOf(h)'
  BY <1>1, <1>3, <1>4, <1>5, CloseTree
<1> QED
  BY <1>4, <1>6, GrownTree

LEMMA FirstTree ==
  ASSUME IInv, Stage1
  PROVE  TreeInv'
<1> DEFINE h == [v \in {} |-> 0]
           word == Word("r", 0, NoPayload)
           scope == [offset |-> 0, ret |-> "start_continue"]
<1>1. CASE label' = "failed"
  BY <1>1, FailTree
<1>2. CASE label' # "failed"
  <2>1. label' = "start" /\ tape' = <<word>> /\ scopes' = <<scope>>
    BY <1>2 DEF Stage1, Goto
  <2>2. scope.offset = 0
    OBVIOUS
  <2> HIDE DEF word, scope
  <2>3. Len(tape') = 1 /\ Len(scopes') = 1 /\ Offset(scopes', 1) = 0
    BY <2>1, <2>2 DEF Offset
  <2>4. Chain(h, tape', scopes')
    <3>1. \A n \in 1 .. 1 : n = 1
      OBVIOUS
    <3>2. \A n \in 2 .. 1 : FALSE
      OBVIOUS
    <3>3. \A n \in 1 .. 1 : Offset(scopes', n) \in 0 .. Len(tape') - 1
      BY <2>3, <3>1
    <3>4. \A m, n \in 1 .. 1 : m < n => Offset(scopes', m) < Offset(scopes', n)
      OBVIOUS
    <3> QED
      BY <2>3, <3>2, <3>3, <3>4 DEF Chain
  <2>5. DOMAIN h = {}
    OBVIOUS
  <2> HIDE DEF h
  <2>6. TapeFits(h, tape', scopes')
    BY <2>4, <2>5 DEF TapeFits, Items, Whole
  <2>7. TreeOf(h)'
    BY <2>1, <2>3, <2>6 DEF TreeOf
  <2> QED
    BY <2>1, <2>7, GrownTree
<1> QED
  BY <1>1, <1>2

LEMMA TreeKeeps == IInv /\ TreeInv /\ Parse => TreeInv'
<1> SUFFICES ASSUME IInv, TreeInv, Parse PROVE TreeInv'
  OBVIOUS
<1>1. CASE Stage1
  BY <1>1, FirstTree
<1>2. CASE Start \/ ObjectValue \/ ArraySwitch
  BY <1>2, ValueTree
     DEF Start, ObjectValue, ReturnToObject, ArraySwitch, AtLabel, Running, Verdict
<1>3. CASE ObjectBegin
  BY <1>3, EndTree, KeyTree
     DEF ObjectBegin, AtLabel, Running, Verdict, InObject, Closing
<1>4. CASE ObjectComma
  BY <1>4, KeyTree DEF ObjectComma, AtLabel, Running, Verdict
<1>5. CASE ObjectKey
  BY <1>5, GotoTree, FailTree DEF ObjectKey, AtLabel, Running, Verdict, Fail, Goto
<1>6. CASE ObjectContinue
  BY <1>6, GotoTree, FailTree, EndTree
     DEF ObjectContinue, AtLabel, Running, Verdict, Fail, Goto, InObject, Closing
<1>7. CASE ArrayBegin
  BY <1>7, EndTree, ValueTree
     DEF ArrayBegin, AtLabel, Running, Verdict, InArray, Closing
<1>8. CASE ArrayContinue
  BY <1>8, GotoTree, FailTree, EndTree
     DEF ArrayContinue, AtLabel, Running, Verdict, Fail, Goto, InArray, Closing
<1>9. CASE RunAway
  BY <1>9, FailTree DEF RunAway
<1>10. CASE StartContinue
  BY <1>10, GotoTree, FailTree DEF StartContinue, Running, Verdict, Fail, Goto
<1>11. CASE Succeed
  <2>1. Running
    BY <1>11 DEF Succeed, Running, Verdict
  <2>2. PICK h : TreeOf(h)
    BY <2>1 DEF TreeInv
  <2>3. label' = "succeeded" /\ IsTape(h, tape')
    BY <1>11, <2>2, SucceedTree
  <2> QED
    BY <2>3 DEF TreeInv, Running, Verdict
<1> QED
  BY <1>1, <1>2, <1>3, <1>4, <1>5, <1>6, <1>7, <1>8, <1>9, <1>10, <1>11 DEF Parse

-----------------------------------------------------------------------------
(***************************************************************************)
(* The iterator on such a tape: it is at an item, and its scopes are the   *)
(* containers around that item, each inside the one before.                *)
(***************************************************************************)

\* The container of a scope, by the location of its opening word.
ScopeAt(starts, n) == starts[n] - 1

Placed(h, t, location, starts) ==
  /\ location \in DOMAIN h
  /\ starts \in Seq(Nat) /\ Len(starts) >= 1
  /\ Len(starts) = 1 => location = 1
  /\ Len(starts) >= 2 =>
       ScopeAt(starts, 2) = 1 /\ h[location] = ScopeAt(starts, Len(starts))
  /\ \A n \in 2 .. Len(starts) :
       /\ ScopeAt(starts, n) \in DOMAIN h
       /\ IsOpening(t, ScopeAt(starts, n))
       /\ ScopeAt(starts, n) < location
       /\ After(t, location) <= EndOf(t, ScopeAt(starts, n))
  /\ \A n \in 3 .. Len(starts) :
       h[ScopeAt(starts, n)] = ScopeAt(starts, n - 1)
  /\ \A m, n \in 2 .. Len(starts) : m < n =>
       /\ ScopeAt(starts, m) < ScopeAt(starts, n)
       /\ EndOf(t, ScopeAt(starts, n)) < EndOf(t, ScopeAt(starts, m))

LEMMA TapeFacts ==
  ASSUME NEW h, NEW t, IsTape(h, t), NEW v \in DOMAIN h
  PROVE  /\ v \in Nat \ {0}
         /\ h[v] \in 0 .. v - 1
         /\ Cell(t, v).type \in ItemTypes
         /\ EndOf(t, v) \in Int
         /\ After(t, v) \in Nat /\ v < After(t, v)
         /\ IsOpening(t, v) =>
              /\ After(t, v) = EndOf(t, v) + 1
              /\ EndOf(t, v) \in v + 1 .. Cell(t, 0).value - 1
              /\ EndOf(t, v) = v + 1 \/ ItemIn(h, v, v + 1)
         /\ h[v] # 0 =>
              /\ h[v] \in DOMAIN h /\ IsOpening(t, h[v])
              /\ After(t, v) <= EndOf(t, h[v])
              /\ \/ After(t, v) = EndOf(t, h[v])
                 \/ ItemIn(h, h[v], After(t, v))
              /\ Cell(t, EndOf(t, h[v])).type \in Closing
<1>1. PICK length \in Nat : length = Cell(t, 0).value
  BY DEF IsTape
<1>2. /\ v \in 1 .. length - 1
      /\ Cell(t, v).type \in ItemTypes
      /\ h[v] \in 0 .. v - 1
      /\ h[v] # 0 => h[v] \in DOMAIN h /\ IsOpening(t, h[v])
  BY <1>1 DEF IsTape, Items
<1>3. v \in Nat \ {0}
  BY <1>2
<1>4. PICK value \in Nat : value = Cell(t, v).value
  BY DEF IsTape
<1>5. EndOf(t, v) = value - 1
  BY <1>4 DEF EndOf
<1>6. ASSUME IsOpening(t, v)
      PROVE  /\ After(t, v) = EndOf(t, v) + 1
             /\ EndOf(t, v) \in v + 1 .. length - 1
             /\ EndOf(t, v) = v + 1 \/ ItemIn(h, v, v + 1)
  <2>1. Closed(h, t, v, length)
    BY <1>1, <1>6 DEF IsTape
  <2>2. After(t, v) = value
    BY <1>4, <1>6 DEF After, IsOpening, Opening
  <2> QED
    BY <1>5, <2>1, <2>2 DEF Closed
<1>7. After(t, v) \in Nat /\ v < After(t, v)
  <2>1. CASE IsOpening(t, v)
    BY <1>3, <1>6, <2>1
  <2>2. CASE ~IsOpening(t, v)
    BY <1>3, <2>2 DEF After
  <2> QED
    BY <2>1, <2>2
<1>8. ASSUME h[v] # 0
      PROVE  /\ After(t, v) <= EndOf(t, h[v])
             /\ \/ After(t, v) = EndOf(t, h[v])
                \/ ItemIn(h, h[v], After(t, v))
             /\ Cell(t, EndOf(t, h[v])).type \in Closing
  <2>1. Followed(h, t, v, EndOf(t, h[v]))
    BY <1>8 DEF IsTape
  <2>2. h[v] \in DOMAIN h /\ IsOpening(t, h[v])
    BY <1>2, <1>8
  <2>3. Closed(h, t, h[v], length)
    BY <1>1, <2>2 DEF IsTape
  <2> QED
    BY <2>1, <2>3 DEF Followed, Closed
<1> QED
  BY <1>1, <1>2, <1>3, <1>5, <1>6, <1>7, <1>8

\* down()
LEMMA DownPlaced ==
  ASSUME NEW h, NEW t, IsTape(h, t), NEW location, NEW starts,
         Placed(h, t, location, starts),
         IsOpening(t, location), EndOf(t, location) # location + 1
  PROVE  Placed(h, t, location + 1, Append(starts, location + 1))
<1>1. /\ location \in DOMAIN h
      /\ starts \in Seq(Nat) /\ Len(starts) \in Nat /\ Len(starts) >= 1
  BY LenProperties DEF Placed
<1>2. PICK l \in Nat \ {0} : l = location
  BY <1>1, TapeFacts
<1>3. PICK depth \in Nat \ {0} : depth = Len(starts)
  BY <1>1
<1>4. /\ ItemIn(h, l, l + 1)
      /\ After(t, l) = EndOf(t, l) + 1
      /\ EndOf(t, l) \in Int
  BY <1>1, <1>2, TapeFacts
<1>5. l + 1 \in DOMAIN h /\ h[l + 1] = l
  BY <1>4 DEF ItemIn
<1>6. After(t, l + 1) <= EndOf(t, l) /\ After(t, l + 1) \in Nat
  BY <1>2, <1>5, TapeFacts
<1>7. PICK z : z = Append(starts, l + 1)
  OBVIOUS
<1>8. /\ z \in Seq(Nat)
      /\ Len(z) = depth + 1
      /\ \A n \in 1 .. depth : z[n] = starts[n]
      /\ z[depth + 1] = l + 1
  BY <1>1, <1>2, <1>3, <1>7, AppendProperties
<1>9. ScopeAt(z, depth + 1) = l
  BY <1>2, <1>8 DEF ScopeAt
<1>10. \A n \in 1 .. depth : ScopeAt(z, n) = ScopeAt(starts, n)
  BY <1>8 DEF ScopeAt
<1>11. /\ depth = 1 => l = 1
       /\ depth >= 2 =>
            ScopeAt(starts, 2) = 1 /\ h[l] = ScopeAt(starts, depth)
       /\ \A n \in 2 .. depth :
            /\ ScopeAt(starts, n) \in DOMAIN h
            /\ IsOpening(t, ScopeAt(starts, n))
            /\ ScopeAt(starts, n) < l
            /\ After(t, l) <= EndOf(t, ScopeAt(starts, n))
       /\ \A n \in 3 .. depth : h[ScopeAt(starts, n)] = ScopeAt(starts, n - 1)
       /\ \A m, n \in 2 .. depth : m < n =>
            /\ ScopeAt(starts, m) < ScopeAt(starts, n)
            /\ EndOf(t, ScopeAt(starts, n)) < EndOf(t, ScopeAt(starts, m))
  BY <1>2, <1>3 DEF Placed
<1>12. \A n \in 2 .. depth : ScopeAt(starts, n) \in Nat
                               /\ EndOf(t, ScopeAt(starts, n)) \in Int
  BY <1>11, TapeFacts
<1>13. \A n \in 2 .. depth : EndOf(t, l) < EndOf(t, ScopeAt(starts, n))
  BY <1>4, <1>11, <1>12
<1>14. ScopeAt(z, 2) = 1
  <2>1. CASE depth = 1
    BY <1>9, <1>11, <2>1
  <2>2. CASE depth >= 2
    <3>1. 2 \in 1 .. depth
      BY <2>2
    <3> QED
      BY <1>10, <1>11, <2>2, <3>1
  <2>3. depth = 1 \/ depth >= 2
    BY OneOrMore
  <2> QED
    BY <2>1, <2>2, <2>3
<1>15. ASSUME NEW n \in 2 .. depth + 1
       PROVE  /\ ScopeAt(z, n) \in DOMAIN h
              /\ IsOpening(t, ScopeAt(z, n))
              /\ ScopeAt(z, n) < l + 1
              /\ After(t, l + 1) <= EndOf(t, ScopeAt(z, n))
  <2>1. CASE n = depth + 1
    BY <1>1, <1>2, <1>6, <1>9, <2>1
  <2>2. CASE n \in 2 .. depth
    <3>1. n \in 1 .. depth
      BY <2>2
    <3>2. ScopeAt(z, n) = ScopeAt(starts, n)
      BY <1>10, <3>1
    <3>3. /\ ScopeAt(starts, n) \in DOMAIN h
          /\ IsOpening(t, ScopeAt(starts, n))
          /\ ScopeAt(starts, n) < l
          /\ EndOf(t, l) < EndOf(t, ScopeAt(starts, n))
          /\ ScopeAt(starts, n) \in Nat
          /\ EndOf(t, ScopeAt(starts, n)) \in Int
      BY <1>11, <1>12, <1>13, <2>2
    <3> QED
      BY <1>4, <1>6, <3>2, <3>3
  <2> QED
    BY <2>1, <2>2
<1>16. ASSUME NEW n \in 3 .. depth + 1
       PROVE  h[ScopeAt(z, n)] = ScopeAt(z, n - 1)
  <2>1. n - 1 \in 1 .. depth
    OBVIOUS
  <2>2. CASE n = depth + 1
    <3>1. depth >= 2
      BY <2>2
    <3> QED
      BY <1>9, <1>10, <1>11, <2>1, <2>2, <3>1
  <2>3. CASE n \in 3 .. depth
    <3>1. n \in 1 .. depth
      BY <2>3
    <3> QED
      BY <1>10, <1>11, <2>1, <2>3, <3>1
  <2> QED
    BY <2>2, <2>3
<1>17. ASSUME NEW m \in 2 .. depth + 1, NEW n \in 2 .. depth + 1, m < n
       PROVE  /\ ScopeAt(z, m) < ScopeAt(z, n)
              /\ EndOf(t, ScopeAt(z, n)) < EndOf(t, ScopeAt(z, m))
  <2>1. m \in 2 .. depth /\ m \in 1 .. depth
    BY <1>17
  <2>2. CASE n = depth + 1
    BY <1>9, <1>10, <1>11, <1>13, <2>1, <2>2
  <2>3. CASE n \in 2 .. depth
    <3>1. n \in 1 .. depth
      BY <2>3
    <3> QED
      BY <1>10, <1>11, <1>17, <2>1, <2>3, <3>1
  <2> QED
    BY <2>2, <2>3
<1> QED
  <2>1. depth + 1 >= 1 /\ depth + 1 # 1
    OBVIOUS
  <2> QED
    BY <1>2, <1>5, <1>7, <1>8, <1>9, <1>14, <1>15, <1>16, <1>17, <2>1 DEF Placed

\* up()
LEMMA UpPlaced ==
  ASSUME NEW h, NEW t, IsTape(h, t), NEW location, NEW starts,
         Placed(h, t, location, starts), Len(starts) > 1
  PROVE  Placed(h, t, Last(starts) - 1, Front(starts))
<1>1. starts \in Seq(Nat) /\ Len(starts) \in Nat /\ Len(starts) >= 1
  BY LenProperties DEF Placed
<1>2. PICK depth \in Nat \ {0, 1} : depth = Len(starts)
  BY <1>1
<1>3. PICK z : z = Front(starts)
  OBVIOUS
<1>4. /\ z \in Seq(Nat)
      /\ Len(z) = depth - 1
      /\ \A n \in 1 .. depth - 1 : z[n] = starts[n]
      /\ Last(starts) = starts[depth]
  <2>1. starts # <<>>
    BY <1>1, EmptySeq
  <2> QED
    BY <1>1, <1>2, <1>3, <2>1, FrontFacts
<1>5. \A n \in 1 .. depth - 1 : ScopeAt(z, n) = ScopeAt(starts, n)
  BY <1>4 DEF ScopeAt
<1>6. Last(starts) - 1 = ScopeAt(starts, depth)
  BY <1>4 DEF ScopeAt
<1>7. PICK o : o = ScopeAt(starts, depth)
  OBVIOUS
<1>8. /\ ScopeAt(starts, 2) = 1
      /\ \A n \in 2 .. depth :
           /\ ScopeAt(starts, n) \in DOMAIN h
           /\ IsOpening(t, ScopeAt(starts, n))
      /\ \A n \in 3 .. depth : h[ScopeAt(starts, n)] = ScopeAt(starts, n - 1)
      /\ \A m, n \in 2 .. depth : m < n =>
           /\ ScopeAt(starts, m) < ScopeAt(starts, n)
           /\ EndOf(t, ScopeAt(starts, n)) < EndOf(t, ScopeAt(starts, m))
  BY <1>2 DEF Placed
<1>9. \A n \in 2 .. depth : EndOf(t, ScopeAt(starts, n)) \in Int
  BY <1>8, TapeFacts
<1>10. /\ depth \in 2 .. depth
       /\ \A n \in 2 .. depth - 1 : n \in 2 .. depth /\ n < depth
  OBVIOUS
<1>11. o \in DOMAIN h /\ After(t, o) = EndOf(t, o) + 1 /\ EndOf(t, o) \in Int
  BY <1>7, <1>8, <1>10, TapeFacts
<1>12. depth - 1 = 1 => o = 1
  BY <1>7, <1>8
<1>13. ASSUME depth - 1 >= 2
       PROVE  ScopeAt(z, 2) = 1 /\ h[o] = ScopeAt(z, depth - 1)
  <2>1. 2 \in 1 .. depth - 1 /\ depth - 1 \in 1 .. depth - 1 /\ depth \in 3 .. depth
    BY <1>13
  <2> QED
    BY <1>5, <1>7, <1>8, <2>1
<1>14. ASSUME NEW n \in 2 .. depth - 1
       PROVE  /\ ScopeAt(z, n) \in DOMAIN h
              /\ IsOpening(t, ScopeAt(z, n))
              /\ ScopeAt(z, n) < o
              /\ After(t, o) <= EndOf(t, ScopeAt(z, n))
  <2>1. n \in 1 .. depth - 1 /\ n \in 2 .. depth /\ n < depth
    OBVIOUS
  <2>2. ScopeAt(z, n) = ScopeAt(starts, n)
    BY <1>5, <2>1
  <2>3. EndOf(t, o) < EndOf(t, ScopeAt(starts, n)) /\ ScopeAt(starts, n) < o
    BY <1>7, <1>8, <1>10, <2>1
  <2>4. After(t, o) <= EndOf(t, ScopeAt(starts, n))
    BY <1>9, <1>11, <2>1, <2>3
  <2> QED
    BY <1>8, <2>1, <2>2, <2>3, <2>4
<1>15. ASSUME NEW n \in 3 .. depth - 1
       PROVE  h[ScopeAt(z, n)] = ScopeAt(z, n - 1)
  <2>1. n \in 1 .. depth - 1 /\ n - 1 \in 1 .. depth - 1 /\ n \in 3 .. depth
    OBVIOUS
  <2> QED
    BY <1>5, <1>8, <2>1
<1>16. ASSUME NEW m \in 2 .. depth - 1, NEW n \in 2 .. depth - 1, m < n
       PROVE  /\ ScopeAt(z, m) < ScopeAt(z, n)
              /\ EndOf(t, ScopeAt(z, n)) < EndOf(t, ScopeAt(z, m))
  <2>1. /\ m \in 1 .. depth - 1 /\ n \in 1 .. depth - 1
        /\ m \in 2 .. depth /\ n \in 2 .. depth
    OBVIOUS
  <2> QED
    BY <1>5, <1>8, <1>16, <2>1
<1> QED
  <2>1. depth - 1 >= 1
    OBVIOUS
  <2> QED
    BY <1>3, <1>4, <1>6, <1>7, <1>11, <1>12, <1>13, <1>14, <1>15, <1>16, <2>1
       DEF Placed

\* next(), to another item of the container
LEMMA NextPlaced ==
  ASSUME NEW h, NEW t, IsTape(h, t), NEW location, NEW starts,
         Placed(h, t, location, starts), Len(starts) > 1,
         Cell(t, After(t, location)).type \notin Closing
  PROVE  Placed(h, t, After(t, location), starts)
<1>1. starts \in Seq(Nat) /\ Len(starts) \in Nat /\ location \in DOMAIN h
  BY LenProperties DEF Placed
<1>2. PICK depth \in Nat \ {0, 1} : depth = Len(starts)
  BY <1>1
<1>3. PICK o : o = ScopeAt(starts, depth)
  OBVIOUS
<1>4. /\ ScopeAt(starts, 2) = 1 /\ h[location] = o
      /\ \A n \in 2 .. depth :
           /\ ScopeAt(starts, n) \in DOMAIN h
           /\ IsOpening(t, ScopeAt(starts, n))
           /\ ScopeAt(starts, n) < location
      /\ \A n \in 3 .. depth : h[ScopeAt(starts, n)] = ScopeAt(starts, n - 1)
      /\ \A m, n \in 2 .. depth : m < n =>
           /\ ScopeAt(starts, m) < ScopeAt(starts, n)
           /\ EndOf(t, ScopeAt(starts, n)) < EndOf(t, ScopeAt(starts, m))
  BY <1>2, <1>3 DEF Placed
<1>5. \A n \in 2 .. depth : ScopeAt(starts, n) \in Nat
                              /\ EndOf(t, ScopeAt(starts, n)) \in Int
  BY <1>4, TapeFacts
<1>6. depth \in 2 .. depth
  OBVIOUS
<1>7. o \in Nat \ {0}
  BY <1>3, <1>4, <1>6, TapeFacts
<1>8. PICK l \in Nat : l = location
  BY <1>1, TapeFacts
<1>9. PICK next : next = After(t, location)
  OBVIOUS
<1>10. next \in Nat /\ l < next /\ ItemIn(h, o, next)
  BY <1>1, <1>4, <1>7, <1>8, <1>9, TapeFacts
<1>11. next \in DOMAIN h /\ h[next] = o
  BY <1>10 DEF ItemIn
<1>12. After(t, next) <= EndOf(t, o) /\ After(t, next) \in Nat
  BY <1>7, <1>11, TapeFacts
<1>13. ASSUME NEW n \in 2 .. depth
       PROVE  /\ ScopeAt(starts, n) < next
              /\ After(t, next) <= EndOf(t, ScopeAt(starts, n))
  <2>1. ScopeAt(starts, n) < next
    BY <1>4, <1>5, <1>8, <1>10
  <2>2. CASE n = depth
    BY <1>3, <1>12, <2>1, <2>2
  <2>3. CASE n # depth
    <3>1. n < depth
      BY <2>3
    <3>2. EndOf(t, o) < EndOf(t, ScopeAt(starts, n)) /\ EndOf(t, o) \in Int
      BY <1>3, <1>4, <1>5, <1>6, <3>1
    <3> QED
      BY <1>5, <1>12, <2>1, <3>2
  <2> QED
    BY <2>2, <2>3
<1> QED
  <2>1. depth >= 1 /\ depth # 1
    OBVIOUS
  <2> QED
    BY <1>1, <1>2, <1>3, <1>4, <1>9, <1>11, <1>13, <2>1 DEF Placed

-----------------------------------------------------------------------------
(***************************************************************************)
(* SimdjsonTraverser on a tape that the machine has written. The iterator  *)
(* has a scope for each container on the stack, of the same type; only a   *)
(* container without elements, whose end was just shown, is on the stack   *)
(* and not entered by the iterator.                                        *)
(***************************************************************************)

VARIABLES current_type, container_stack, iterator

Walker == INSTANCE SimdjsonTraverser WITH Tape <- {}, parsed_json <- tape

Infos == [type : Container, is_empty : BOOLEAN]
Iterator(location, starts) == [location |-> location, start_of_scope |-> starts]
TypeAt(location) == Walker!TypeOf(Cell(tape, location))

Entered(h, location, starts, infos) ==
  /\ Placed(h, tape, location, starts)
  /\ infos \in Seq(Infos)
  /\ Len(starts) = Len(infos) + 1
  /\ \A n \in 1 .. Len(infos) :
       /\ ~infos[n].is_empty
       /\ TypeAt(ScopeAt(starts, n + 1)) = infos[n].type

EmptyOnTop ==
  /\ container_stack # <<>>
  /\ container_stack[Len(container_stack)].is_empty

WalkInv(h) ==
  LET infos == IF EmptyOnTop THEN Front(container_stack) ELSE container_stack
  IN  /\ container_stack \in Seq(Infos)
      /\ iterator = Iterator(iterator.location, iterator.start_of_scope)
      /\ current_type # "none"
      /\ EmptyOnTop => current_type = "end_of_container"
      /\ current_type = "end_of_container" => container_stack # <<>>
      /\ current_type \in Container => TypeAt(iterator.location) = current_type
      /\ Entered(h, iterator.location, iterator.start_of_scope, infos)

LEMMA WalkKinds ==
  /\ Walker!Container = Container /\ Container = {"object", "array"}
  /\ Walker!Opening = Opening /\ Opening = {"begin_object", "begin_array"}
  /\ Closing = {"end_object", "end_array"}
BY DEF Walker!Container, Container, Walker!Opening, Opening, Closing

LEMMA WalkTypes ==
  ASSUME NEW v
  PROVE  /\ TypeAt(v) \notin {"none", "end_of_container"}
         /\ TypeAt(v) \in Container => IsOpening(tape, v)
BY DEF TypeAt, Walker!TypeOf, Container, IsOpening, Opening

LEMMA InsideIsThere ==
  ASSUME NEW h, IsTape(h, tape), iterator.location \in DOMAIN h,
         IsOpening(tape, iterator.location)
  PROVE  Walker!HasInside(iterator) <=>
           EndOf(tape, iterator.location) # iterator.location + 1
<1>1. PICK l : l = iterator.location
  OBVIOUS
<1>2. l \in Nat /\ EndOf(tape, l) \in l + 1 .. Cell(tape, 0).value - 1
  BY <1>1, TapeFacts
<1>3. PICK value \in Nat : value = Cell(tape, l).value
  BY <1>1 DEF IsTape
<1>4. PICK length \in Nat : length = Cell(tape, 0).value
  BY DEF IsTape
<1>5. EndOf(tape, l) = value - 1
  BY <1>3 DEF EndOf
<1>6. Walker!HasInside(iterator) <=>
        l + 1 < length /\ Cell(tape, l).type \in Opening /\ value # l + 2
  <2>1. Walker!TapeLength = length
    BY <1>4 DEF Walker!TapeLength, Walker!WordAt, Cell
  <2>2. Walker!At(iterator) = Cell(tape, l)
    BY <1>1 DEF Walker!At, Walker!WordAt, Cell
  <2> QED
    BY <1>1, <1>3, <2>1, <2>2, WalkKinds DEF Walker!HasInside
<1>7. l + 1 < length
  BY <1>2, <1>4
<1>8. value # l + 2 <=> EndOf(tape, l) # l + 1
  BY <1>2, <1>3, <1>5
<1> QED
  BY <1>1, <1>6, <1>7, <1>8 DEF IsOpening

LEMMA RootEntered ==
  ASSUME NEW h, IsTape(h, tape), NEW infos, infos = <<>>
  PROVE  Entered(h, 1, <<1>>, infos)
<1>1. <<1>> \in Seq(Nat) /\ Len(<<1>>) = 1
  OBVIOUS
<1>2. Placed(h, tape, 1, <<1>>)
  <2>1. PICK starts : starts = <<1>>
    OBVIOUS
  <2>2. starts \in Seq(Nat) /\ Len(starts) = 1
    BY <1>1, <2>1
  <2>3. \A n \in 2 .. 1 : FALSE
    OBVIOUS
  <2>4. \A n \in 3 .. 1 : FALSE
    OBVIOUS
  <2>5. 1 \in DOMAIN h
    BY DEF IsTape
  <2>6. Placed(h, tape, 1, starts)
    BY <2>2, <2>3, <2>4, <2>5 DEF Placed
  <2> QED
    BY <2>1, <2>6
<1>3. infos \in Seq(Infos) /\ Len(infos) = 0
  OBVIOUS
<1>4. \A n \in 1 .. 0 : FALSE
  OBVIOUS
<1> QED
  BY <1>1, <1>2, <1>3, <1>4 DEF Entered

LEMMA ConstructKeeps ==
  ASSUME NEW h, IsTape(h, tape), container_stack = <<>>,
         iterator = Walker!AtRoot, Walker!Construct, UNCHANGED tape
  PROVE  WalkInv(h)'
<1>1. /\ iterator'.location = 1 /\ iterator'.start_of_scope = <<1>>
      /\ container_stack' = <<>> /\ tape' = tape
      /\ current_type' = TypeAt(1)
  BY DEF Walker!Construct, Walker!AtRoot, Walker!At, Walker!WordAt, TypeAt, Cell
<1>2. iterator' = Iterator(iterator'.location, iterator'.start_of_scope)
  BY DEF Walker!Construct, Walker!AtRoot, Iterator
<1>3. ~EmptyOnTop'
  BY <1>1 DEF EmptyOnTop
<1>4. Entered(h, 1, <<1>>, container_stack')
  BY <1>1, RootEntered
<1>5. Entered(h, iterator.location, iterator.start_of_scope, container_stack)'
  BY <1>1, <1>4 DEF Entered, TypeAt
<1>6. container_stack' \in Seq(Infos)
  BY <1>4 DEF Entered
<1>7. TypeAt(1)' = TypeAt(1)
  BY <1>1 DEF TypeAt
<1> QED
  BY <1>1, <1>3, <1>5, <1>6, <1>7, <1>2, WalkTypes DEF WalkInv

LEMMA InsideEntered ==
  ASSUME NEW h, IsTape(h, tape), NEW location, NEW starts, NEW infos,
         Entered(h, location, starts, infos),
         IsOpening(tape, location), EndOf(tape, location) # location + 1,
         NEW info \in Infos, ~info.is_empty, TypeAt(location) = info.type
  PROVE  Entered(h, location + 1, Append(starts, location + 1),
                 Append(infos, info))
<1>1. /\ Placed(h, tape, location, starts)
      /\ infos \in Seq(Infos)
      /\ Len(starts) = Len(infos) + 1
  BY DEF Entered
<1>2. PICK l \in Nat : l = location
  BY <1>1, TapeFacts DEF Placed
<1>3. starts \in Seq(Nat)
  BY <1>1 DEF Placed
<1>4. PICK depth \in Nat : depth = Len(infos)
  BY <1>1, LenProperties
<1>5. PICK z : z = Append(starts, location + 1)
  OBVIOUS
<1>6. PICK y : y = Append(infos, info)
  OBVIOUS
<1>7. /\ Len(z) = depth + 2
      /\ \A n \in 1 .. depth + 1 : z[n] = starts[n]
      /\ z[depth + 2] = l + 1
  <2>1. /\ Len(Append(starts, l + 1)) = Len(starts) + 1
        /\ \A n \in 1 .. Len(starts) : Append(starts, l + 1)[n] = starts[n]
        /\ Append(starts, l + 1)[Len(starts) + 1] = l + 1
    BY <1>3, AppendProperties
  <2> QED
    BY <1>1, <1>2, <1>4, <1>5, <2>1
<1>8. /\ y \in Seq(Infos) /\ Len(y) = depth + 1
      /\ \A n \in 1 .. depth : y[n] = infos[n]
      /\ y[depth + 1] = info
  BY <1>1, <1>4, <1>6, AppendProperties
<1>9. Placed(h, tape, location + 1, z)
  BY <1>1, <1>5, DownPlaced
<1>10. ASSUME NEW n \in 1 .. depth + 1
       PROVE  ~y[n].is_empty /\ TypeAt(ScopeAt(z, n + 1)) = y[n].type
  <2>1. CASE n = depth + 1
    <3>1. ScopeAt(z, n + 1) = location
      BY <1>2, <1>7, <2>1 DEF ScopeAt
    <3> QED
      BY <1>8, <2>1, <3>1
  <2>2. CASE n \in 1 .. depth
    <3>1. n + 1 \in 1 .. depth + 1
      BY <2>2
    <3>2. ScopeAt(z, n + 1) = ScopeAt(starts, n + 1)
      BY <1>7, <3>1 DEF ScopeAt
    <3> QED
      BY <1>4, <1>8, <2>2, <3>2 DEF Entered
  <2> QED
    BY <2>1, <2>2
<1>11. Len(z) = Len(y) + 1
  BY <1>7, <1>8
<1> QED
  BY <1>5, <1>6, <1>8, <1>9, <1>10, <1>11 DEF Entered

LEMMA OneLessEntered ==
  ASSUME NEW h, IsTape(h, tape), NEW location, NEW starts, NEW infos,
         Entered(h, location, starts, infos), infos # <<>>
  PROVE  Entered(h, Last(starts) - 1, Front(starts), Front(infos))
<1>1. /\ Placed(h, tape, location, starts)
      /\ infos \in Seq(Infos)
      /\ Len(starts) = Len(infos) + 1
  BY DEF Entered
<1>2. PICK depth \in Nat \ {0} : depth = Len(infos)
  BY <1>1, FrontFacts
<1>3. PICK z : z = Front(starts)
  OBVIOUS
<1>4. PICK y : y = Front(infos)
  OBVIOUS
<1>5. /\ Len(z) = depth
      /\ \A n \in 1 .. depth : z[n] = starts[n]
  <2>1. starts \in Seq(Nat) /\ starts # <<>>
    BY <1>1, <1>2, EmptySeq DEF Placed
  <2>2. /\ Len(Front(starts)) = Len(starts) - 1
        /\ \A n \in 1 .. Len(starts) - 1 : Front(starts)[n] = starts[n]
    BY <2>1, FrontFacts
  <2>3. Len(starts) - 1 = depth
    BY <1>1, <1>2
  <2> QED
    BY <1>3, <2>2, <2>3
<1>6. /\ y \in Seq(Infos) /\ Len(y) = depth - 1
      /\ \A n \in 1 .. depth - 1 : y[n] = infos[n]
  BY <1>1, <1>2, <1>4, FrontFacts
<1>7. Len(starts) > 1
  BY <1>1, <1>2
<1>8. Placed(h, tape, Last(starts) - 1, z)
  BY <1>1, <1>3, <1>7, UpPlaced
<1>9. ASSUME NEW n \in 1 .. depth - 1
      PROVE  ~y[n].is_empty /\ TypeAt(ScopeAt(z, n + 1)) = y[n].type
  <2>1. n \in 1 .. depth /\ n + 1 \in 1 .. depth
    OBVIOUS
  <2>2. ScopeAt(z, n + 1) = ScopeAt(starts, n + 1)
    BY <1>5, <2>1 DEF ScopeAt
  <2> QED
    BY <1>2, <1>6, <2>1, <2>2 DEF Entered
<1>10. Len(z) = Len(y) + 1
  BY <1>5, <1>6
<1> QED
  BY <1>3, <1>4, <1>6, <1>8, <1>9, <1>10 DEF Entered

LEMMA EnterKeeps ==
  ASSUME NEW h, IsTape(h, tape), WalkInv(h), Walker!Enter, UNCHANGED tape
  PROVE  WalkInv(h)'
<1> DEFINE info == [type |-> current_type,
                    is_empty |-> ~Walker!HasInside(iterator)]
           l == iterator.location
           s == iterator.start_of_scope
<1>1. current_type \in Container
  BY WalkKinds DEF Walker!Enter
<1>2. ~EmptyOnTop
  BY <1>1, WalkKinds DEF WalkInv
<1>3. /\ container_stack \in Seq(Infos)
      /\ Entered(h, l, s, container_stack)
      /\ TypeAt(l) = current_type
  BY <1>1, <1>2 DEF WalkInv
<1>4. IsOpening(tape, l) /\ l \in DOMAIN h
  BY <1>1, <1>3, WalkTypes DEF Entered, Placed
<1>5. Walker!HasInside(iterator) <=> EndOf(tape, l) # l + 1
  BY <1>4, InsideIsThere
<1>6. /\ container_stack' = Append(container_stack, info)
      /\ info \in Infos
      /\ info.type = current_type
      /\ info.is_empty <=> ~Walker!HasInside(iterator)
  <2>1. Walker!HasInside(iterator) \in BOOLEAN
    BY DEF Walker!HasInside
  <2> QED
    BY <1>1, <2>1 DEF Walker!Enter, Infos
<1> HIDE DEF info
<1>7. /\ container_stack' \in Seq(Infos)
      /\ container_stack' # <<>>
      /\ container_stack'[Len(container_stack')] = info
      /\ Front(container_stack') = container_stack
  <2>1. /\ Append(container_stack, info) \in Seq(Infos)
        /\ Len(Append(container_stack, info)) = Len(container_stack) + 1
        /\ Append(container_stack, info)[Len(container_stack) + 1] = info
    BY <1>3, <1>6, AppendProperties
  <2>2. Append(container_stack, info) # <<>>
    BY <2>1, <1>3, LenProperties, EmptySeq
  <2>3. Front(Append(container_stack, info)) = container_stack
    BY <1>3, <1>6, FrontOfAppend
  <2> QED
    BY <1>6, <2>1, <2>2, <2>3
<1>8. CASE Walker!HasInside(iterator)
  <2>1. /\ iterator' = [location |-> l + 1, start_of_scope |-> Append(s, l + 1)]
        /\ current_type' \in {"key", TypeAt(iterator'.location)}
    BY <1>8 DEF Walker!Enter, Walker!Down, Walker!At, Walker!WordAt, TypeAt, Cell
  <2>2. /\ iterator'.location = l + 1 /\ iterator'.start_of_scope = Append(s, l + 1)
        /\ iterator' = Iterator(iterator'.location, iterator'.start_of_scope)
    BY <2>1 DEF Iterator
  <2>3. ~EmptyOnTop'
    BY <1>6, <1>7, <1>8 DEF EmptyOnTop
  <2>4. Entered(h, l + 1, Append(s, l + 1), container_stack')
    BY <1>3, <1>4, <1>5, <1>6, <1>8, InsideEntered
  <2>5. Entered(h, iterator.location, iterator.start_of_scope, container_stack)'
    BY <2>2, <2>4 DEF Entered, TypeAt
  <2>6. current_type' \notin {"none", "end_of_container"}
    BY <2>1, WalkTypes
  <2>7. current_type' \in Container => TypeAt(iterator.location)' = current_type'
    BY <2>1, WalkKinds DEF TypeAt
  <2> QED
    BY <1>7, <2>2, <2>3, <2>5, <2>6, <2>7 DEF WalkInv
<1>9. CASE ~Walker!HasInside(iterator)
  <2>1. current_type' = "end_of_container" /\ iterator' = iterator
    BY <1>9 DEF Walker!Enter
  <2>2. EmptyOnTop'
    BY <1>6, <1>7, <1>9 DEF EmptyOnTop
  <2>3. Entered(h, iterator.location, iterator.start_of_scope,
                Front(container_stack))'
    BY <1>3, <1>7, <2>1 DEF Entered, TypeAt
  <2>4. iterator' = Iterator(iterator'.location, iterator'.start_of_scope)
    BY <2>1 DEF WalkInv
  <2> QED
    BY <1>7, <2>1, <2>2, <2>3, <2>4, WalkKinds DEF WalkInv
<1> QED
  BY <1>8, <1>9

\* A container whose end was shown is left.
LEMMA Left ==
  ASSUME NEW h, IsTape(h, tape), WalkInv(h), current_type \notin Container
  PROVE  /\ Entered(h, Walker!Outside.location, Walker!Outside.start_of_scope,
                    Walker!Around)
         /\ Walker!Outside = Iterator(Walker!Outside.location,
                                      Walker!Outside.start_of_scope)
<1> DEFINE l == iterator.location
           s == iterator.start_of_scope
<1>1. CASE current_type # "end_of_container"
  <2>1. Walker!Outside = iterator /\ Walker!Around = container_stack
    BY <1>1 DEF Walker!Outside, Walker!Around
  <2> QED
    BY <1>1, <2>1 DEF WalkInv
<1>2. CASE current_type = "end_of_container" /\ EmptyOnTop
  <2>1. Walker!Last(container_stack).is_empty
    BY <1>2 DEF EmptyOnTop, Walker!Last
  <2>2. Walker!Outside = iterator /\ Walker!Around = Front(container_stack)
    BY <1>2, <2>1 DEF Walker!Outside, Walker!Around, Walker!Front, Front
  <2> QED
    BY <1>2, <2>2 DEF WalkInv
<1>3. CASE current_type = "end_of_container" /\ ~EmptyOnTop
  <2>1. container_stack # <<>> /\ Entered(h, l, s, container_stack)
    BY <1>3 DEF WalkInv
  <2>2. ~Walker!Last(container_stack).is_empty
    BY <1>3, <2>1 DEF EmptyOnTop, Walker!Last
  <2>3. Walker!Depth(iterator) # 1
    <3>1. /\ container_stack \in Seq(Infos)
          /\ Len(s) = Len(container_stack) + 1
      BY <2>1 DEF Entered
    <3>2. Len(container_stack) \in Nat \ {0}
      BY <2>1, <3>1, FrontFacts
    <3> QED
      BY <3>1, <3>2 DEF Walker!Depth
  <2>4. /\ Walker!Outside.location = Last(s) - 1
        /\ Walker!Outside.start_of_scope = Front(s)
        /\ Walker!Around = Front(container_stack)
        /\ Walker!Outside = Iterator(Last(s) - 1, Front(s))
    BY <1>3, <2>2, <2>3
       DEF Walker!Outside, Walker!Around, Walker!Up, Walker!Front, Front,
           Walker!Last, Last, Iterator
  <2>5. Entered(h, Last(s) - 1, Front(s), Front(container_stack))
    BY <2>1, OneLessEntered
  <2> QED
    BY <2>4, <2>5
<1> QED
  BY <1>1, <1>2, <1>3

\* What is left to show of a step after which nothing is empty.
LEMMA EnteredKeeps ==
  ASSUME NEW h, UNCHANGED tape, NEW location, NEW starts,
         iterator' = Iterator(location, starts),
         Entered(h, location, starts, container_stack'),
         current_type' # "none",
         current_type' = "end_of_container" => container_stack' # <<>>,
         current_type' \in Container => TypeAt(location) = current_type'
  PROVE  WalkInv(h)'
<1>1. container_stack' \in Seq(Infos)
  BY DEF Entered
<1>2. ~EmptyOnTop'
  <2>1. SUFFICES ASSUME container_stack' # <<>>
                 PROVE  ~container_stack'[Len(container_stack')].is_empty
    BY DEF EmptyOnTop
  <2>2. Len(container_stack') \in 1 .. Len(container_stack')
    <3>1. Len(container_stack') \in Nat \ {0}
      BY <1>1, <2>1, FrontFacts
    <3> QED
      BY <3>1
  <2> QED
    BY <2>2 DEF Entered
<1>3. iterator'.location = location /\ iterator'.start_of_scope = starts
  BY DEF Iterator
<1>4. Entered(h, iterator.location, iterator.start_of_scope, container_stack)'
  BY <1>3 DEF Entered, TypeAt
<1>5. TypeAt(iterator.location)' = TypeAt(location)
  BY <1>3 DEF TypeAt
<1> QED
  BY <1>1, <1>2, <1>3, <1>4, <1>5 DEF WalkInv

LEMMA DocumentEndsKeeps ==
  ASSUME NEW h, IsTape(h, tape), WalkInv(h), Walker!DocumentEnds, UNCHANGED tape
  PROVE  WalkInv(h)'
<1>1. /\ current_type \notin Container
      /\ iterator' = Walker!Outside /\ container_stack' = Walker!Around
      /\ current_type' = "end_of_document"
  BY WalkKinds DEF Walker!DocumentEnds, Walker!MoveOn
<1>2. /\ Entered(h, iterator'.location, iterator'.start_of_scope, container_stack')
      /\ iterator' = Iterator(iterator'.location, iterator'.start_of_scope)
  BY <1>1, Left
<1> QED
  BY <1>1, <1>2, EnteredKeeps, WalkKinds

LEMMA ContainerEndsKeeps ==
  ASSUME NEW h, IsTape(h, tape), WalkInv(h), Walker!ContainerEnds, UNCHANGED tape
  PROVE  WalkInv(h)'
<1>1. /\ current_type \notin Container
      /\ iterator' = Walker!Outside /\ container_stack' = Walker!Around
      /\ container_stack' # <<>>
      /\ current_type' = "end_of_container"
  BY WalkKinds DEF Walker!ContainerEnds, Walker!MoveOn
<1>2. /\ Entered(h, iterator'.location, iterator'.start_of_scope, container_stack')
      /\ iterator' = Iterator(iterator'.location, iterator'.start_of_scope)
  BY <1>1, Left
<1> QED
  BY <1>1, <1>2, EnteredKeeps, WalkKinds

LEMMA NextWordKeeps ==
  ASSUME NEW h, IsTape(h, tape), WalkInv(h), Walker!NextWord, UNCHANGED tape
  PROVE  WalkInv(h)'
<1>1. PICK it : it = Walker!Outside
  OBVIOUS
<1>2. PICK l : l = it.location
  OBVIOUS
<1>3. PICK s : s = it.start_of_scope
  OBVIOUS
<1>4. /\ current_type \notin Container
      /\ container_stack' = Walker!Around
      /\ container_stack' # <<>>
      /\ Walker!HasNext(it)
      /\ iterator' = Walker!Following(it)
      /\ current_type' \in {"key", Walker!TypeOf(Walker!At(iterator'))}
  BY <1>1, WalkKinds DEF Walker!NextWord, Walker!MoveOn
<1>5. Entered(h, l, s, container_stack')
  BY <1>1, <1>2, <1>3, <1>4, Left
<1>6. Walker!NextLocation(it) = After(tape, l)
  BY <1>2, WalkKinds
     DEF Walker!NextLocation, Walker!At, Walker!WordAt, After, IsOpening, Cell
<1>7. Cell(tape, After(tape, l)).type \notin Closing
  BY <1>4, <1>6, WalkKinds DEF Walker!HasNext, Walker!WordAt, Cell
<1>8. Len(s) > 1
  <2>1. container_stack' \in Seq(Infos) /\ Len(s) = Len(container_stack') + 1
    BY <1>5 DEF Entered
  <2>2. Len(container_stack') \in Nat \ {0}
    BY <1>4, <2>1, FrontFacts
  <2> QED
    BY <2>1, <2>2
<1>9. Entered(h, After(tape, l), s, container_stack')
  BY <1>5, <1>7, <1>8, NextPlaced DEF Entered
<1>10. iterator' = Iterator(After(tape, l), s)
  <2>1. it = Iterator(l, s)
    BY <1>1, <1>2, <1>3, <1>4, Left
  <2> QED
    BY <1>4, <1>6, <2>1 DEF Walker!Following, Iterator
<1>11. current_type' \in {"key", TypeAt(After(tape, l))}
  BY <1>4, <1>10 DEF TypeAt, Walker!At, Walker!WordAt, Cell, Iterator
<1> QED
  BY <1>4, <1>9, <1>10, <1>11, EnteredKeeps, WalkKinds, WalkTypes

LEMMA CallKeeps ==
  ASSUME NEW h, IsTape(h, tape), WalkInv(h), Walker!CallNext, UNCHANGED tape
  PROVE  WalkInv(h)'
BY EnterKeeps, DocumentEndsKeeps, ContainerEndsKeeps, NextWordKeeps
   DEF Walker!CallNext

\* The stack with what the iterator has entered, and that in any case.
LEMMA InfosEntered ==
  ASSUME NEW h, WalkInv(h)
  PROVE  LET infos == IF EmptyOnTop THEN Front(container_stack)
                                    ELSE container_stack
         IN  /\ Len(infos) \in Nat
             /\ \A n \in 1 .. Len(infos) : infos[n] = container_stack[n]
             /\ {n \in DOMAIN container_stack : ~container_stack[n].is_empty} =
                  1 .. Len(infos)
<1>1. container_stack \in Seq(Infos)
  BY DEF WalkInv
<1>2. CASE ~EmptyOnTop
  <2>1. Entered(h, iterator.location, iterator.start_of_scope, container_stack)
    BY <1>2 DEF WalkInv
  <2>2. \A n \in 1 .. Len(container_stack) : ~container_stack[n].is_empty
    BY <2>1 DEF Entered
  <2>3. /\ DOMAIN container_stack = 1 .. Len(container_stack)
        /\ Len(container_stack) \in Nat
    BY <1>1, LenProperties
  <2> QED
    BY <1>2, <2>2, <2>3
<1>3. CASE EmptyOnTop
  <2>1. Entered(h, iterator.location, iterator.start_of_scope,
                Front(container_stack))
    BY <1>3 DEF WalkInv
  <2>2. \A n \in 1 .. Len(Front(container_stack)) :
          ~Front(container_stack)[n].is_empty
    BY <2>1 DEF Entered
  <2>3. container_stack # <<>>
    BY <1>3 DEF EmptyOnTop
  <2>4. PICK depth \in Nat \ {0} : depth = Len(container_stack)
    BY <1>1, <2>3, FrontFacts
  <2>5. /\ Len(Front(container_stack)) = depth - 1
        /\ \A n \in 1 .. depth - 1 : Front(container_stack)[n] = container_stack[n]
        /\ DOMAIN container_stack = 1 .. depth
    BY <1>1, <2>3, <2>4, FrontFacts, LenProperties
  <2>6. \A n \in 1 .. depth - 1 : ~container_stack[n].is_empty
    BY <2>2, <2>5
  <2>7. container_stack[depth].is_empty
    BY <1>3, <2>4 DEF EmptyOnTop
  <2>8. \A n \in 1 .. depth : n = depth \/ n \in 1 .. depth - 1
    OBVIOUS
  <2>9. {n \in 1 .. depth : ~container_stack[n].is_empty} = 1 .. depth - 1
    BY <2>6, <2>7, <2>8
  <2> QED
    BY <1>3, <2>5, <2>9
<1> QED
  BY <1>2, <1>3

LEMMA SameCardinality ==
  ASSUME NEW S
  PROVE  Walker!Cardinality(S) = Cardinality(S)
BY DEF Walker!Cardinality, Cardinality

LEMMA DepthFollows ==
  ASSUME NEW h, WalkInv(h)
  PROVE  Walker!DepthIsNesting
<1> DEFINE infos == IF EmptyOnTop THEN Front(container_stack) ELSE container_stack
           s == iterator.start_of_scope
<1>1. Len(s) = Len(infos) + 1
  BY DEF WalkInv, Entered
<1>2. PICK depth \in Nat : depth = Len(infos)
  BY InfosEntered
<1>3. {n \in DOMAIN container_stack : ~container_stack[n].is_empty} = 1 .. depth
  BY <1>2, InfosEntered
<1>4. Cardinality(1 .. depth) = depth
  <2>1. Cardinality(1 .. depth) = IF 1 > depth THEN 0 ELSE depth - 1 + 1
    BY FS_Interval
  <2> QED
    BY <2>1
<1> HIDE DEF infos
<1>5. Len(s) = 1 + depth
  BY <1>1, <1>2
<1> QED
  BY <1>3, <1>4, <1>5, SameCardinality DEF Walker!DepthIsNesting, Walker!Depth

LEMMA ScopesFollow ==
  ASSUME NEW h, IsTape(h, tape), WalkInv(h)
  PROVE  Walker!InsideScopes
<1> DEFINE infos == IF EmptyOnTop THEN Front(container_stack) ELSE container_stack
<1>1. PICK s : s = iterator.start_of_scope
  OBVIOUS
<1>2. PICK l : l = iterator.location
  OBVIOUS
<1>3. Entered(h, l, s, infos)
  BY <1>1, <1>2 DEF WalkInv
<1>4. \A n \in 1 .. Len(infos) : infos[n] = container_stack[n]
  BY InfosEntered
<1>5. PICK depth \in Nat : depth = Len(infos)
  BY InfosEntered
<1> HIDE DEF infos
<1>6. Len(s) = depth + 1 /\ Placed(h, tape, l, s)
  BY <1>3, <1>5 DEF Entered
<1>7. l \in DOMAIN h /\ l \in Nat /\ After(tape, l) \in Nat /\ l < After(tape, l)
  BY <1>6, TapeFacts DEF Placed
<1>8. s \in Seq(Nat)
  BY <1>6 DEF Placed
<1>9. ASSUME NEW n \in 2 .. depth + 1
      PROVE  /\ TypeAt(s[n] - 1) = container_stack[n - 1].type
             /\ l \in s[n] .. Cell(tape, s[n] - 1).value - 2
             /\ \A m \in n + 1 .. depth + 1 :
                  s[m] \in s[n] + 1 .. Cell(tape, s[n] - 1).value - 2
  <2>1. TypeAt(ScopeAt(s, n)) = container_stack[n - 1].type
    <3>1. n - 1 \in 1 .. depth /\ n - 1 + 1 = n
      OBVIOUS
    <3>2. TypeAt(ScopeAt(s, n - 1 + 1)) = infos[n - 1].type
      BY <1>3, <1>5, <3>1 DEF Entered
    <3> QED
      BY <1>4, <1>5, <3>1, <3>2
  <2>2. PICK start \in Nat : start = s[n]
    <3>1. n \in 1 .. Len(s)
      BY <1>6
    <3> QED
      BY <1>8, <3>1, ElementOfSeq
  <2>3. PICK o : o = ScopeAt(s, n)
    OBVIOUS
  <2>4. o = start - 1
    BY <2>2, <2>3 DEF ScopeAt
  <2>5. /\ o \in DOMAIN h /\ o < l
        /\ After(tape, l) <= EndOf(tape, o)
        /\ \A m \in 2 .. depth + 1 : n < m =>
             o < ScopeAt(s, m) /\ EndOf(tape, ScopeAt(s, m)) < EndOf(tape, o)
    BY <1>6, <2>3 DEF Placed
  <2>6. PICK value \in Nat : value = Cell(tape, o).value
    BY <2>5 DEF IsTape
  <2>7. EndOf(tape, o) = value - 1
    BY <2>6 DEF EndOf
  <2>8. l \in start .. value - 2
    BY <1>7, <2>4, <2>5, <2>7
  <2>9. ASSUME NEW m \in n + 1 .. depth + 1
        PROVE  s[m] \in start + 1 .. value - 2
    <3>1. m \in 2 .. depth + 1 /\ n < m
      OBVIOUS
    <3>2. PICK inner \in Nat : inner = s[m]
      <4>1. m \in 1 .. Len(s)
        BY <1>6, <3>1
      <4> QED
        BY <1>8, <4>1, ElementOfSeq
    <3>3. PICK p : p = ScopeAt(s, m)
      OBVIOUS
    <3>4. p = inner - 1
      BY <3>2, <3>3 DEF ScopeAt
    <3>5. p \in DOMAIN h /\ IsOpening(tape, p)
      BY <1>6, <3>1, <3>3 DEF Placed
    <3>6. EndOf(tape, p) \in p + 1 .. Cell(tape, 0).value - 1
      BY <3>5, TapeFacts
    <3>7. o < p /\ EndOf(tape, p) < value - 1
      BY <2>5, <2>7, <3>1, <3>3
    <3>8. PICK end \in Int : end = EndOf(tape, p)
      BY <3>5, TapeFacts
    <3>9. inner <= end
      BY <3>2, <3>4, <3>6, <3>8
    <3> QED
      BY <2>4, <3>2, <3>4, <3>7, <3>8, <3>9
  <2> QED
    BY <2>1, <2>2, <2>3, <2>4, <2>6, <2>8, <2>9
<1>10. Walker!Depth(iterator) = depth + 1
  BY <1>1, <1>6 DEF Walker!Depth
<1>11. \A n : Walker!WordAt(s[n] - 1) = Cell(tape, s[n] - 1)
  BY DEF Walker!WordAt, Cell
<1> QED
  BY <1>1, <1>2, <1>9, <1>10, <1>11 DEF Walker!InsideScopes, TypeAt

-----------------------------------------------------------------------------
(***************************************************************************)
(* The tape and the text. Where the words of a token are follows from the  *)
(* tokens before it; the machine is where the text, read token by token,   *)
(* is, and its tape holds what was read.                                   *)
(***************************************************************************)

Width(token) ==
  CASE token \in NumberKind -> 2 [] token \in {"colon", "comma", "EF"} -> 0 [] OTHER -> 1

\* p[n]: the location of the word that token n has on the tape.
Placing(s, length, p) ==
  /\ p \in [1 .. length + 1 -> Nat]
  /\ p[1] = 1
  /\ \A n \in 1 .. length : p[n + 1] = p[n] + Width(s[n])

LEMMA PlacingExists ==
  ASSUME NEW s, NEW length \in Nat
  PROVE  \E p : Placing(s, length, p)
<1> DEFINE S == {m \in Nat : \E p : Placing(s, m, p)}
<1>1. 0 \in S
  <2> DEFINE p == [n \in 1 .. 0 + 1 |-> 1]
  <2>1. Placing(s, 0, p)
    BY DEF Placing
  <2> QED
    BY <2>1
<1>2. ASSUME NEW m \in Nat, m \in S PROVE m + 1 \in S
  <2>1. PICK p : Placing(s, m, p)
    BY <1>2
  <2>2. PICK i \in Nat \ {0} : i = m + 1
    OBVIOUS
  <2>3. PICK j \in Nat : j = i + 1
    OBVIOUS
  <2> DEFINE q == [n \in 1 .. j |-> IF n = j THEN p[i] + Width(s[i]) ELSE p[n]]
  <2>4. p \in [1 .. i -> Nat] /\ p[1] = 1
        /\ \A n \in 1 .. m : p[n + 1] = p[n] + Width(s[n])
    BY <2>1, <2>2 DEF Placing
  <2>5. Width(s[i]) \in Nat
    BY DEF Width
  <2>6. q \in [1 .. j -> Nat]
    BY <2>2, <2>3, <2>4, <2>5
  <2>7. q[1] = 1
    BY <2>2, <2>3, <2>4
  <2>8. ASSUME NEW n \in 1 .. i PROVE q[n + 1] = q[n] + Width(s[n])
    <3>1. CASE n = i
      <4>1. n + 1 = j /\ n \in 1 .. j /\ n # j /\ j \in 1 .. j
        BY <2>2, <2>3, <3>1
      <4>2. q[j] = p[i] + Width(s[i]) /\ q[n] = p[n]
        BY <4>1
      <4> HIDE DEF q
      <4> QED
        BY <3>1, <4>1, <4>2
    <3>2. CASE n # i
      <4>1. n \in 1 .. m /\ n + 1 \in 1 .. j /\ n + 1 # j /\ n \in 1 .. j /\ n # j
        BY <2>2, <2>3, <3>2
      <4>2. q[n + 1] = p[n + 1] /\ q[n] = p[n]
        BY <4>1
      <4> HIDE DEF q
      <4> QED
        BY <4>1, <4>2, <2>4
    <3> QED
      BY <3>1, <3>2
  <2> HIDE DEF q
  <2>9. Placing(s, i, q)
    BY <2>3, <2>6, <2>7, <2>8 DEF Placing
  <2> QED
    BY <2>2, <2>9
<1>3. Nat \subseteq S
  <2> HIDE DEF S
  <2> QED
    BY <1>1, <1>2, SetInduction
<1> QED
  BY <1>3

LEMMA PlacesRise ==
  ASSUME NEW s, NEW length \in Nat, NEW p, Placing(s, length, p),
         NEW a \in 1 .. length + 1, NEW b \in a .. length + 1
  PROVE  /\ p[a] \in Nat \ {0} /\ p[b] \in Nat \ {0}
         /\ p[a] <= p[b]
         /\ a < b /\ Width(s[a]) # 0 => p[a] < p[b]
<1>1. ASSUME NEW m \in 1 .. length + 1, NEW n \in Nat, m + n <= length + 1
      PROVE  p[m] <= p[m + n]
  <2> DEFINE S == {k \in Nat : m + k <= length + 1 => p[m] <= p[m + k]}
  <2>1. \A k \in 1 .. length + 1 : p[k] \in Nat
    BY DEF Placing
  <2>2. 0 \in S
    BY <2>1
  <2>3. ASSUME NEW k \in Nat, k \in S PROVE k + 1 \in S
    <3> SUFFICES ASSUME m + (k + 1) <= length + 1 PROVE p[m] <= p[m + (k + 1)]
      OBVIOUS
    <3>1. PICK i : i = m + k
      OBVIOUS
    <3>2. i \in 1 .. length /\ m + (k + 1) = i + 1 /\ i + 1 \in 1 .. length + 1
      BY <3>1
    <3>3. p[m] <= p[i]
      BY <2>3, <3>1, <3>2
    <3>4. p[i + 1] = p[i] + Width(s[i]) /\ Width(s[i]) \in Nat
      BY <3>2 DEF Placing, Width
    <3>5. p[i] \in Nat /\ p[m] \in Nat /\ p[i + 1] \in Nat
      BY <2>1, <3>2
    <3>6. \A w \in Nat : p[i + 1] = p[i] + w => p[m] <= p[i + 1]
      BY <3>3, <3>5
    <3> QED
      BY <3>2, <3>4, <3>6
  <2>4. Nat \subseteq S
    <3> HIDE DEF S
    <3> QED
      BY <2>2, <2>3, SetInduction
  <2> QED
    BY <1>1, <2>4
<1>2. ASSUME NEW m \in 1 .. length + 1, NEW n \in m .. length + 1
      PROVE  p[m] <= p[n]
  <2>1. n - m \in Nat /\ m + (n - m) = n
    OBVIOUS
  <2>2. PICK k \in Nat : k = n - m
    BY <2>1
  <2> QED
    BY <1>1, <2>1, <2>2
<1>3. \A k \in 1 .. length + 1 : p[k] \in Nat
  BY DEF Placing
<1>4. p[1] = 1 /\ 1 \in 1 .. length + 1
  BY DEF Placing
<1>5. p[1] <= p[a] /\ p[a] <= p[b]
  BY <1>2, <1>4
<1>6. ASSUME a < b, Width(s[a]) # 0 PROVE p[a] < p[b]
  <2>1. a \in 1 .. length /\ a + 1 \in 1 .. length + 1 /\ b \in a + 1 .. length + 1
    BY <1>6
  <2>2. p[a + 1] = p[a] + Width(s[a]) /\ Width(s[a]) \in Nat
    BY <2>1 DEF Placing, Width
  <2>3. p[a + 1] <= p[b]
    BY <1>2, <2>1
  <2>4. p[a] \in Nat /\ p[b] \in Nat /\ p[a + 1] \in Nat
    BY <1>3, <2>1
  <2> QED
    BY <1>6, <2>2, <2>3, <2>4
<1> QED
  BY <1>3, <1>4, <1>5, <1>6

-----------------------------------------------------------------------------
\* The label the machine is at when the text was read so far.
Returns(open) ==
  IF open = <<>> THEN "start_continue"
  ELSE IF Last(open).kind = "object" THEN "object_continue" ELSE "array_continue"
LabelOf(st) ==
  IF st.open = <<>>
    THEN IF st.expects = "value" THEN "start" ELSE "start_continue"
  ELSE IF Inner(st).kind = "object"
    THEN CASE st.expects = "first" -> "object_begin"
           [] st.expects = "key" -> "object_comma"
           [] st.expects = "colon" -> "object_key"
           [] st.expects = "value" -> "object_value"
           [] OTHER -> "object_continue"
    ELSE CASE st.expects = "first" -> "array_begin"
           [] st.expects = "value" -> "array_switch"
           [] OTHER -> "array_continue"

\* What the machine does with a character.
ReadsOn(st, c) ==
  \/ /\ ValueNext(st) /\ c \in ScalarKind \ {"huge"}
     /\ Write(ScalarWords(c, next_index + 1), Returns(st.open))
  \/ ValueNext(st) /\ c \in Opening /\ OpenScope(c, Returns(st.open))
  \/ KeyNext(st) /\ c = "string" /\ Write(<<KeyWord>>, "object_key")
  \/ st.expects = "colon" /\ c = "colon" /\ Goto("object_value")
  \/ /\ CommaNext(st) /\ c = "comma"
     /\ Goto(IF Inner(st).kind = "object" THEN "object_comma" ELSE "array_switch")
  \/ CloserNext(st, c) /\ CloseScope(c)

LEMMA LabelReads ==
  ASSUME NEW st, IsState(st), st.expects # "nothing"
  PROVE  /\ LabelOf(st) = "start" => ValueNext(st) /\ Returns(st.open) = "start_continue"
         /\ LabelOf(st) = "object_begin" =>
              KeyNext(st) /\ \A c : c = "end_object" => CloserNext(st, c)
         /\ LabelOf(st) = "object_key" => st.expects = "colon"
         /\ LabelOf(st) = "object_value" =>
              ValueNext(st) /\ Returns(st.open) = "object_continue"
         /\ LabelOf(st) = "object_continue" =>
              /\ CommaNext(st) /\ Inner(st).kind = "object"
              /\ \A c : c = "end_object" => CloserNext(st, c)
         /\ LabelOf(st) = "object_comma" => KeyNext(st)
         /\ LabelOf(st) \in {"array_begin", "array_switch"} =>
              ValueNext(st) /\ Returns(st.open) = "array_continue"
         /\ LabelOf(st) = "array_begin" => \A c : c = "end_array" => CloserNext(st, c)
         /\ LabelOf(st) = "array_continue" =>
              /\ CommaNext(st) /\ Inner(st).kind = "array"
              /\ \A c : c = "end_array" => CloserNext(st, c)
         /\ LabelOf(st) = "start_continue" => IsWhole(st)
<1>1. st.open # <<>> => Inner(st).kind \in {"object", "array"}
  BY InnerFacts, TokenNames
<1>2. /\ st.expects \in {"value", "first", "key", "colon", "separator"}
      /\ st.expects = "first" => st.open # <<>>
      /\ st.expects \in {"key", "colon"} => st.open # <<>> /\ Inner(st).kind = "object"
  BY DEF IsState, Expectation
<1>3. Closer["object"] = "end_object" /\ Closer["array"] = "end_array"
  BY TokenNames
<1>4. st.open # <<>> => Last(st.open) = Inner(st)
  BY DEF Inner
<1>5. CASE st.open = <<>>
  BY <1>2, <1>5 DEF LabelOf, Returns, ValueNext, IsWhole
<1>6. CASE st.open # <<>> /\ Inner(st).kind = "object"
  BY <1>2, <1>3, <1>4, <1>6
     DEF LabelOf, Returns, ValueNext, KeyNext, CommaNext, CloserNext
<1>7. CASE st.open # <<>> /\ Inner(st).kind = "array"
  BY <1>2, <1>3, <1>4, <1>7
     DEF LabelOf, Returns, ValueNext, KeyNext, CommaNext, CloserNext
<1> QED
  BY <1>1, <1>5, <1>6, <1>7

LEMMA MachineReads ==
  ASSUME NEW st, IsState(st), st.expects # "nothing", label = LabelOf(st),
         next_index < Len(text),
         \/ Start \/ ObjectBegin \/ ObjectKey \/ ObjectValue \/ ObjectContinue
         \/ ObjectComma \/ ArrayBegin \/ ArraySwitch \/ ArrayContinue
  PROVE  /\ next_index' = next_index + 1 /\ text' = text
         /\ label' = "failed" \/ ReadsOn(st, text[next_index + 1])
<1>1. next_index' = next_index + 1 /\ text' = text
  BY DEF Start, ObjectBegin, ObjectKey, ObjectValue, ObjectContinue, ObjectComma,
    ArrayBegin, ArraySwitch, ArrayContinue, UpdateChar
<1>2. PICK c : c = text[next_index + 1]
  OBVIOUS
<1>3. CharsAt(next_index) = {c}
  BY <1>2 DEF CharsAt
<1> SUFFICES label' = "failed" \/ ReadsOn(st, c)
  BY <1>1, <1>2
<1>4. ASSUME NEW ret, ReadValue(c, ret), ValueNext(st), ret = Returns(st.open)
      PROVE  label' = "failed" \/ ReadsOn(st, c)
  <2>1. c \in Opening => c \notin ScalarKind
    BY TokenNames
  <2> QED
    BY <1>4, <2>1 DEF ReadValue, ReadsOn, Fail, Goto
<1>5. ASSUME ReadKey(c), KeyNext(st)
      PROVE  label' = "failed" \/ ReadsOn(st, c)
  BY <1>5 DEF ReadKey, ReadsOn, Fail, Goto
<1>6. CASE Start
  BY <1>3, <1>4, <1>6, LabelReads DEF Start, AtLabel
<1>7. CASE ObjectBegin
  BY <1>3, <1>5, <1>7, LabelReads DEF ObjectBegin, AtLabel, ReadsOn
<1>8. CASE ObjectKey
  BY <1>3, <1>8, LabelReads DEF ObjectKey, AtLabel, ReadsOn, Fail, Goto
<1>9. CASE ObjectValue
  BY <1>3, <1>4, <1>9, LabelReads DEF ObjectValue, AtLabel, ReturnToObject
<1>10. CASE ObjectContinue
  BY <1>3, <1>10, LabelReads DEF ObjectContinue, AtLabel, ReadsOn, Fail, Goto
<1>11. CASE ObjectComma
  BY <1>3, <1>5, <1>11, LabelReads DEF ObjectComma, AtLabel
<1>12. CASE ArrayBegin
  BY <1>3, <1>4, <1>12, LabelReads DEF ArrayBegin, AtLabel, ReadsOn
<1>13. CASE ArraySwitch
  BY <1>3, <1>4, <1>13, LabelReads DEF ArraySwitch, AtLabel
<1>14. CASE ArrayContinue
  BY <1>3, <1>14, LabelReads DEF ArrayContinue, AtLabel, ReadsOn, Fail, Goto
<1> QED
  BY <1>6, <1>7, <1>8, <1>9, <1>10, <1>11, <1>12, <1>13, <1>14

-----------------------------------------------------------------------------
\* The words of token n, which were read.
HoldsToken(t, s, p, n) ==
  /\ s[n] \in ScalarKind =>
       /\ s[n] # "huge"
       /\ Cell(t, p[n]).type = ScalarWords(s[n], n)[1].type
       /\ Cell(t, p[n]).payload = Payload(s[n], n)
  /\ s[n] \in Opening => Cell(t, p[n]).type = s[n]
  /\ CloserRead(Run(s), s, n) =>
       /\ Cell(t, p[n]).type = s[n]
       /\ Cell(t, p[Inner(Run(s)[n - 1]).at]).value = p[n] + 1
Holds(t, s, p, i) == \A n \in 1 .. i : HoldsToken(t, s, p, n)

\* A tape of which no word changed but for the value of one.
SameBut(t, u, but) ==
  \A v \in 0 .. Len(t) - 1 :
    /\ Cell(u, v).type = Cell(t, v).type
    /\ Cell(u, v).payload = Cell(t, v).payload
    /\ v # but => Cell(u, v).value = Cell(t, v).value

\* The bracket that the closing one is for.
LEMMA BracketOf ==
  ASSUME NEW s, Len(s) \in Nat, NEW n \in 1 .. Len(s), Run(s)[n - 1].open # <<>>
  PROVE  LET o == Inner(Run(s)[n - 1]).at
             kind == Inner(Run(s)[n - 1]).kind
         IN  /\ o \in 1 .. n - 1 /\ s[o] = Opener[kind] /\ kind \in Container
             /\ s[o] \in Opening /\ Width(s[o]) = 1
             /\ ValueNext(Run(s)[o - 1])
             /\ Len(Run(s)[n - 1].open) \in Nat \ {0}
             /\ Len(Run(s)[o - 1].open) = Len(Run(s)[n - 1].open) - 1
             /\ \A j \in 1 .. Len(Run(s)[n - 1].open) - 1 :
                  Run(s)[o - 1].open[j] = Run(s)[n - 1].open[j]
<1>1. PICK r : r = Run(s)
  OBVIOUS
<1>2. PICK m \in 0 .. Len(s) : m = n - 1
  OBVIOUS
<1>3. IsState(r[m]) /\ r[m].open # <<>>
  BY <1>1, <1>2, RunStates
<1>4. PICK depth \in Nat \ {0} : depth = Len(r[m].open)
  BY <1>3, InnerFacts
<1>5. PICK o : o = Inner(r[m]).at
  OBVIOUS
<1>6. PICK kind \in Container : kind = Inner(r[m]).kind
  BY <1>3, InnerFacts
<1>7. Inner(r[m]) = r[m].open[depth]
  BY <1>3, <1>4, InnerFacts
<1>8. WasOpened(r, s, m, depth, o)
  <2>1. depth \in 1 .. Len(r[m].open)
    BY <1>4
  <2>2. \A k \in 1 .. Len(r[m].open) : WasOpened(r, s, m, k, r[m].open[k].at)
    BY <1>1, ScopesOpened
  <2> QED
    BY <1>5, <1>7, <2>1, <2>2
<1>9. /\ o \in 1 .. m /\ s[o] = Opener[kind] /\ ValueNext(r[o - 1])
      /\ Len(r[o - 1].open) = depth - 1
      /\ \A j \in 1 .. depth - 1 : r[o - 1].open[j] = r[m].open[j]
  BY <1>6, <1>7, <1>8 DEF WasOpened
<1>10. s[o] \in Opening
  BY <1>6, <1>9, TokenNames
<1>11. Width(s[o]) = 1
  BY <1>10, TokenNames DEF Width, NumberKind
<1> QED
  BY <1>1, <1>2, <1>4, <1>5, <1>6, <1>9, <1>10, <1>11

LEMMA HoldsKept ==
  ASSUME NEW s, Len(s) \in Nat, NEW p, Placing(s, Len(s), p),
         NEW i \in 0 .. Len(s), NEW t, NEW u, NEW but,
         Holds(t, s, p, i), Len(t) = p[i + 1], SameBut(t, u, but),
         \A n \in 1 .. i : CloserRead(Run(s), s, n) =>
           p[Inner(Run(s)[n - 1]).at] # but
  PROVE  Holds(u, s, p, i)
<1>1. PICK size \in Nat : size = Len(s)
  OBVIOUS
<1>2. ASSUME NEW n \in 1 .. i, Width(s[n]) # 0
      PROVE  p[n] \in 0 .. Len(t) - 1
  <2>1. n \in 1 .. size + 1 /\ i + 1 \in n .. size + 1 /\ n < i + 1
    BY <1>1
  <2>2. PICK j : j = i + 1
    OBVIOUS
  <2>3. p[n] \in Nat \ {0} /\ p[j] \in Nat \ {0} /\ p[n] < p[j]
    BY <1>1, <1>2, <2>1, <2>2, PlacesRise
  <2> QED
    BY <2>2, <2>3
<1>3. ASSUME NEW n \in 1 .. i PROVE HoldsToken(u, s, p, n)
  <2>1. HoldsToken(t, s, p, n)
    BY DEF Holds
  <2>2. s[n] \notin {"colon", "comma", "EF"} => p[n] \in 0 .. Len(t) - 1
    BY <1>2 DEF Width
  <2>3. s[n] \notin {"colon", "comma", "EF"} =>
          /\ Cell(u, p[n]).type = Cell(t, p[n]).type
          /\ Cell(u, p[n]).payload = Cell(t, p[n]).payload
    BY <2>2 DEF SameBut
  <2>4. s[n] \in ScalarKind \cup Opening => s[n] \notin {"colon", "comma", "EF"}
    BY TokenNames
  <2>5. ASSUME CloserRead(Run(s), s, n)
        PROVE  /\ Cell(u, p[n]).type = s[n]
               /\ Cell(u, p[Inner(Run(s)[n - 1]).at]).value = p[n] + 1
    <3>1. Run(s)[n - 1].open # <<>> /\ s[n] = Closer[Inner(Run(s)[n - 1]).kind]
      BY <2>5 DEF CloserRead, CloserNext
    <3>2. PICK o : o = Inner(Run(s)[n - 1]).at
      OBVIOUS
    <3>3. /\ o \in 1 .. n - 1 /\ Width(s[o]) = 1
          /\ Inner(Run(s)[n - 1]).kind \in Container
      <4>1. n \in 1 .. Len(s)
        BY <1>1
      <4> QED
        BY <3>1, <3>2, <4>1, BracketOf
    <3>4. s[n] \notin {"colon", "comma", "EF"}
      BY <3>1, <3>3, TokenNames
    <3>5. p[o] \in 0 .. Len(t) - 1 /\ p[o] # but
      <4>1. o \in 1 .. i
        BY <3>3
      <4>2. p[o] \in 0 .. Len(t) - 1
        BY <1>2, <3>3, <4>1
      <4>3. p[o] # but
        BY <2>5, <3>2
      <4> QED
        BY <4>2, <4>3
    <3>6. Cell(u, p[o]).value = Cell(t, p[o]).value
      BY <3>5 DEF SameBut
    <3>7. Cell(t, p[n]).type = s[n] /\ Cell(t, p[o]).value = p[n] + 1
      BY <2>1, <2>5, <3>2 DEF HoldsToken
    <3> QED
      BY <2>3, <3>2, <3>4, <3>6, <3>7
  <2> QED
    BY <2>1, <2>3, <2>4, <2>5 DEF HoldsToken
<1> QED
  BY <1>3 DEF Holds

LEMMA HoldsGrows ==
  ASSUME NEW s, Len(s) \in Nat, NEW p, Placing(s, Len(s), p),
         NEW i \in 0 .. Len(s) - 1, NEW t, NEW u, NEW but,
         Holds(t, s, p, i), Len(t) = p[i + 1], SameBut(t, u, but),
         HoldsToken(u, s, p, i + 1),
         \A n \in 1 .. i : CloserRead(Run(s), s, n) =>
           p[Inner(Run(s)[n - 1]).at] # but
  PROVE  Holds(u, s, p, i + 1)
<1>1. Holds(u, s, p, i)
  <2>1. i \in 0 .. Len(s)
    OBVIOUS
  <2> QED
    BY <2>1, HoldsKept
<1>2. \A n \in 1 .. i + 1 : n \in 1 .. i \/ n = i + 1
  OBVIOUS
<1> QED
  BY <1>1, <1>2 DEF Holds

\* The scopes of the machine are the brackets that are open.
ReturnTo(open, m) ==
  IF m = 1 THEN "start_continue"
  ELSE IF open[m - 1].kind = "object" THEN "object_continue" ELSE "array_continue"
ScopesAre(p, all, open) ==
  /\ Len(all) = Len(open) + 1
  /\ \A m \in 1 .. Len(open) :
       all[m + 1] = [offset |-> p[open[m].at], ret |-> ReturnTo(open, m)]

Follows(p) ==
  LET st == Run(text)[next_index]
  IN  /\ st.expects # "nothing"
      /\ label = LabelOf(st) \/ (label = "succeed" /\ IsWhole(st))
      /\ ScopesAre(p, scopes, st.open)
      /\ Len(tape) = p[next_index + 1]
      /\ Holds(tape, text, p, next_index)

Finished(p) ==
  /\ next_index = Len(text)
  /\ IsWhole(Run(text)[Len(text)])
  /\ Cell(tape, 0).value = p[Len(text) + 1]
  /\ Holds(tape, text, p, Len(text))

TapeReads(p) ==
  /\ label = "stage_1" => next_index = 0
  /\ Running /\ next_index <= Len(text) => Follows(p)
  /\ label = "succeeded" => Finished(p)
TapeReadsInv == \A p : Placing(text, Len(text), p) => TapeReads(p)

-----------------------------------------------------------------------------
(***************************************************************************)
(* Every character the machine reads is read by the text as well.          *)
(***************************************************************************)

\* The machine inside of the text.
AtCharacter(p, i, st, c) ==
  /\ IInv /\ Running /\ text' = text /\ next_index' = next_index + 1
  /\ i = next_index /\ i < Len(text) /\ c = text[i + 1]
  /\ Placing(text, Len(text), p)
  /\ st = Run(text)[i]
  /\ Follows(p)

LEMMA AtFacts ==
  ASSUME NEW p, NEW i, NEW st, NEW c, AtCharacter(p, i, st, c)
  PROVE  /\ Len(text) \in Nat /\ i \in 0 .. Len(text) - 1 /\ i + 1 \in 1 .. Len(text)
         /\ i + 1 \in Nat \ {0} /\ i + 1 # 0 /\ i + 1 - 1 = i
         /\ IsState(st) /\ st.expects # "nothing"
         /\ Run(text)[i + 1] = Advance(st, c, i + 1)
         /\ tape \in Seq(TapeWord) /\ Len(tape) \in Nat /\ Len(tape) >= 1
         /\ p[i + 1] = Len(tape) /\ p[i + 2] = Len(tape) + Width(c)
         /\ scopes \in Seq(Scope) /\ Len(scopes) \in Nat
         /\ ScopesAre(p, scopes, st.open)
         /\ Holds(tape, text, p, i)
<1>1. Len(text) \in Nat
  BY SimdjsonAssumption, LenProperties DEF AtCharacter, IInv, TypeOK
<1>2. /\ tape \in Seq(TapeWord) /\ Len(tape) \in Nat
      /\ scopes \in Seq(Scope) /\ Len(scopes) \in Nat
      /\ next_index \in Nat
  BY LenProperties DEF AtCharacter, IInv, TypeOK
<1>3. i \in 0 .. Len(text) - 1 /\ i + 1 \in 1 .. Len(text) /\ i \in 0 .. Len(text)
  BY <1>1, <1>2 DEF AtCharacter
<1>4. PICK n \in 1 .. Len(text) : n = i + 1
  BY <1>3
<1>5. n - 1 = i
  BY <1>3, <1>4
<1>6. Run(text)[n] = Advance(Run(text)[n - 1], text[n], n) /\ IsState(Run(text)[i])
  BY <1>1, <1>3, RunSteps, RunStates
<1>7. st = Run(text)[i] /\ c = text[n]
  BY <1>4 DEF AtCharacter
<1>8. /\ st.expects # "nothing" /\ ScopesAre(p, scopes, st.open)
      /\ Len(tape) = p[n] /\ Holds(tape, text, p, i)
  BY <1>4, <1>7 DEF AtCharacter, Follows
<1>9. p[n + 1] = p[n] + Width(text[n])
  BY DEF AtCharacter, Placing
<1>10. n + 1 = i + 2
  BY <1>3, <1>4
<1>11. Len(tape) >= 1
  BY <1>2, OneOrMore, EmptySeq DEF AtCharacter, IInv, ScopesNest
<1> QED
  BY <1>1, <1>2, <1>3, <1>4, <1>5, <1>6, <1>7, <1>8, <1>9, <1>10, <1>11

\* A tape that is only written to keeps its words.
LEMMA WrittenSame ==
  ASSUME NEW t \in Seq(TapeWord), NEW words \in Seq(TapeWord), Len(words) >= 1,
         NEW but
  PROVE  SameBut(t, t \o words, but)
<1>1. Extends(t, t \o words)
  BY Written
<1> QED
  BY <1>1 DEF Extends, SameBut

LEMMA ScalarWidth ==
  ASSUME NEW kind \in ScalarKind \ {"huge"}, NEW n \in Nat
  PROVE  /\ Len(ScalarWords(kind, n)) = Width(kind)
         /\ ScalarWords(kind, n)[1].payload = Payload(kind, n)
         /\ Width(kind) >= 1
BY DEF ScalarWords, Number, Word, Width, ScalarKind, AtomKind, NumberKind

LEMMA FollowsNext ==
  ASSUME NEW p, NEW s, NEW n, NEW st, st = Run(s)[n],
         text' = s, next_index' = n,
         st.expects # "nothing", label' = LabelOf(st),
         ScopesAre(p, scopes', st.open), Len(tape') = p[n + 1],
         Holds(tape', s, p, n)
  PROVE  Follows(p)'
<1>1. Run(text')[next_index'] = st
  OBVIOUS
<1>2. Len(tape') = p[next_index' + 1] /\ Holds(tape', text', p, next_index')
  OBVIOUS
<1> QED
  BY <1>1, <1>2 DEF Follows

\* What is known there of the token n that is read.
AtToken(p, i, st, c, n) ==
  /\ n \in Nat \ {0} /\ n \in 1 .. Len(text) /\ n - 1 = i
  /\ Len(text) \in Nat /\ i \in 0 .. Len(text) - 1 /\ n = i + 1
  /\ IsState(st) /\ st.expects # "nothing" /\ st = Run(text)[i]
  /\ Run(text)[n] = Advance(st, c, n)
  /\ tape \in Seq(TapeWord) /\ Len(tape) \in Nat /\ Len(tape) >= 1
  /\ p[n] = Len(tape) /\ p[n + 1] = Len(tape) + Width(c)
  /\ scopes \in Seq(Scope) /\ Len(scopes) \in Nat
  /\ ScopesAre(p, scopes, st.open)
  /\ Holds(tape, text, p, i)
  /\ text' = text /\ next_index' = n /\ n = next_index + 1 /\ c = text[n]
  /\ Placing(text, Len(text), p)

LEMMA AtNext ==
  ASSUME NEW p, NEW i, NEW st, NEW c, AtCharacter(p, i, st, c), NEW n, n = i + 1
  PROVE  AtToken(p, i, st, c, n)
<1>1. i + 2 = n + 1
  BY AtFacts
<1> QED
  BY <1>1, AtFacts DEF AtCharacter, AtToken

LEMMA ReadBy ==
  ASSUME NEW p, NEW i, NEW st, NEW c, NEW n, AtToken(p, i, st, c, n),
         NEW next, TokenReads(st, next, c, n)
  PROVE  Run(text)[n] = next
<1>1. IsState(st) /\ n \in Nat \ {0} /\ Run(text)[n] = Advance(st, c, n)
  BY DEF AtToken
<1> QED
  BY <1>1, AdvanceIs

\* A token that closes no container.
LEMMA NoCloser ==
  ASSUME NEW p, NEW i, NEW st, NEW c, NEW n, AtToken(p, i, st, c, n),
         c \notin Closing
  PROVE  ~CloserRead(Run(text), text, n)
<1> SUFFICES ASSUME CloserRead(Run(text), text, n) PROVE FALSE
  OBVIOUS
<1>1. st.open # <<>> /\ c = Closer[Inner(st).kind]
  BY DEF CloserRead, CloserNext, AtToken
<1>2. Inner(st).kind \in Container
  BY <1>1, InnerFacts DEF AtToken
<1> QED
  BY <1>1, <1>2, TokenNames

\* Nothing is written for the punctuation between values.
LEMMA MarkHolds ==
  ASSUME NEW p, NEW i, NEW st, NEW c, NEW n, AtToken(p, i, st, c, n),
         c \in {"colon", "comma"}, tape' = tape
  PROVE  Len(tape') = p[n + 1] /\ Holds(tape', text, p, n)
<1>1. c \notin ScalarKind /\ c \notin Opening /\ c \notin Closing /\ Width(c) = 0
  BY TokenNames DEF Width, NumberKind
<1>2. HoldsToken(tape', text, p, n)
  BY <1>1, NoCloser DEF HoldsToken, AtToken
<1>3. \A k \in 1 .. n : k \in 1 .. i \/ k = n
  BY DEF AtToken
<1>4. Len(tape') = p[n + 1]
  BY <1>1 DEF AtToken
<1> QED
  BY <1>2, <1>3, <1>4 DEF Holds, AtToken

\* A word is written behind the others, and it is that of the token.
LEMMA WriteHolds ==
  ASSUME NEW p, NEW i, NEW st, NEW c, NEW n, AtToken(p, i, st, c, n),
         NEW words \in Seq(TapeWord), Len(words) = Width(c), Len(words) >= 1,
         tape' = tape \o words, c \notin Closing,
         c \in ScalarKind =>
           /\ c # "huge" /\ words[1].payload = Payload(c, n)
           /\ words[1].type = ScalarWords(c, n)[1].type,
         c \in Opening => words[1].type = c
  PROVE  Len(tape') = p[n + 1] /\ Holds(tape', text, p, n)
<1>1. Len(tape') = p[n + 1]
  BY Written DEF AtToken
<1>2. Cell(tape', p[n]) = words[1]
  BY Written DEF AtToken
<1>3. SameBut(tape, tape', -1)
  BY WrittenSame DEF AtToken
<1>4. HoldsToken(tape', text, p, n)
  BY <1>2, NoCloser DEF HoldsToken, AtToken
<1>5. ASSUME NEW k \in 1 .. i, CloserRead(Run(text), text, k)
      PROVE  p[Inner(Run(text)[k - 1]).at] # -1
  <2>1. PICK o : o = Inner(Run(text)[k - 1]).at
    OBVIOUS
  <2>2. k \in 1 .. Len(text) /\ Run(text)[k - 1].open # <<>>
    BY <1>5 DEF CloserRead, CloserNext, AtToken
  <2>3. o \in 1 .. Len(text) + 1
    <3>1. Len(text) \in Nat
      BY DEF AtToken
    <3>2. o \in 1 .. k - 1
      BY <2>1, <2>2, <3>1, BracketOf
    <3> QED
      BY <2>2, <3>1, <3>2
  <2>4. p[o] \in Nat
    BY <2>3 DEF Placing, AtToken
  <2> QED
    BY <2>1, <2>4
<1>6. \A k \in 1 .. i : CloserRead(Run(text), text, k) =>
        p[Inner(Run(text)[k - 1]).at] # -1
  BY <1>5
<1>7. Holds(tape', text, p, n)
  BY <1>3, <1>4, <1>6, HoldsGrows DEF AtToken
<1> QED
  BY <1>1, <1>7

LEMMA ScalarFollows ==
  ASSUME NEW p, NEW i, NEW st, NEW c, NEW n, AtToken(p, i, st, c, n),
         ValueNext(st), c \in ScalarKind \ {"huge"},
         Write(ScalarWords(c, next_index + 1), Returns(st.open))
  PROVE  Follows(p)'
<1>2. PICK words : words = ScalarWords(c, n)
  OBVIOUS
<1>3. /\ words \in Seq(TapeWord) /\ Len(words) = Width(c) /\ Len(words) >= 1
      /\ words[1].payload = Payload(c, n)
  BY <1>2, ScalarWordsType, ScalarWidth DEF AtToken
<1>4. tape' = tape \o words /\ label' = Returns(st.open) /\ scopes' = scopes
  BY <1>2 DEF Write, AtToken
<1>5. c \notin Closing /\ c \notin Opening
  BY TokenNames
<1>6. Len(tape') = p[n + 1] /\ Holds(tape', text, p, n)
  BY <1>2, <1>3, <1>4, <1>5, WriteHolds
<1>7. Run(text)[n] = Expecting(st, "separator")
  BY ReadBy DEF TokenReads
<1>8. Expecting(st, "separator") = [expects |-> "separator", open |-> st.open]
  BY DEF Expecting, IsState, AtToken
<1>9. LabelOf(Run(text)[n]) = Returns(st.open)
  BY <1>7, <1>8 DEF LabelOf, Returns, Inner
<1>10. ScopesAre(p, scopes', Run(text)[n].open)
  BY <1>4, <1>7, <1>8 DEF AtToken
<1>11. Run(text)[n].expects # "nothing"
  BY <1>7, <1>8
<1> QED
  BY <1>4, <1>6, <1>9, <1>10, <1>11, FollowsNext DEF AtToken

LEMMA KeyFollowed ==
  ASSUME NEW p, NEW i, NEW st, NEW c, NEW n, AtToken(p, i, st, c, n),
         KeyNext(st), c = "string", Write(<<KeyWord>>, "object_key")
  PROVE  Follows(p)'
<1>2. c \in ScalarKind \ {"huge"} /\ c \notin Closing /\ c \notin Opening /\ Width(c) = 1
  BY TokenNames DEF Width, NumberKind
<1>3. KeyWord = Word("quote", 0, Payload("string", n))
  BY DEF KeyWord, AtToken
<1>4. ScalarWords(c, n) = <<Word("quote", 0, Payload("string", n))>>
  BY DEF ScalarWords
<1>5. PICK words : words = <<KeyWord>>
  OBVIOUS
<1>6. words = ScalarWords(c, n)
  BY <1>3, <1>4, <1>5
<1>7. /\ words \in Seq(TapeWord) /\ Len(words) = Width(c) /\ Len(words) >= 1
      /\ words[1].payload = Payload(c, n)
  BY <1>2, <1>6, ScalarWordsType, ScalarWidth DEF AtToken
<1>8. tape' = tape \o words /\ label' = "object_key" /\ scopes' = scopes
  BY <1>5 DEF Write
<1>9. Len(tape') = p[n + 1] /\ Holds(tape', text, p, n)
  BY <1>2, <1>6, <1>7, <1>8, WriteHolds
<1>10. Run(text)[n] = Expecting(st, "colon")
  BY ReadBy DEF TokenReads
<1>11. Expecting(st, "colon") = [expects |-> "colon", open |-> st.open]
  BY DEF Expecting, IsState, AtToken
<1>12. st.open # <<>> /\ Inner(st).kind = "object"
  BY DEF KeyNext, IsState, AtToken
<1>13. LabelOf(Run(text)[n]) = "object_key"
  BY <1>10, <1>11, <1>12 DEF LabelOf, Inner
<1>14. ScopesAre(p, scopes', Run(text)[n].open)
  BY <1>8, <1>10, <1>11 DEF AtToken
<1>15. Run(text)[n].expects # "nothing"
  BY <1>10, <1>11
<1> QED
  BY <1>8, <1>9, <1>13, <1>14, <1>15, FollowsNext DEF AtToken

LEMMA ColonFollowed ==
  ASSUME NEW p, NEW i, NEW st, NEW c, NEW n, AtToken(p, i, st, c, n),
         st.expects = "colon", c = "colon", Goto("object_value")
  PROVE  Follows(p)'
<1>2. tape' = tape /\ label' = "object_value" /\ scopes' = scopes
  BY DEF Goto
<1>3. Len(tape') = p[n + 1] /\ Holds(tape', text, p, n)
  BY <1>2, MarkHolds
<1>4. Run(text)[n] = Expecting(st, "value")
  BY ReadBy DEF TokenReads
<1>5. Expecting(st, "value") = [expects |-> "value", open |-> st.open]
  BY DEF Expecting, IsState, AtToken
<1>6. st.open # <<>> /\ Inner(st).kind = "object"
  BY DEF IsState, AtToken
<1>7. LabelOf(Run(text)[n]) = "object_value"
  BY <1>4, <1>5, <1>6 DEF LabelOf, Inner
<1>8. ScopesAre(p, scopes', Run(text)[n].open)
  BY <1>2, <1>4, <1>5 DEF AtToken
<1>9. Run(text)[n].expects # "nothing"
  BY <1>4, <1>5
<1> QED
  BY <1>2, <1>3, <1>7, <1>8, <1>9, FollowsNext DEF AtToken

LEMMA CommaFollowed ==
  ASSUME NEW p, NEW i, NEW st, NEW c, NEW n, AtToken(p, i, st, c, n),
         CommaNext(st), c = "comma",
         Goto(IF Inner(st).kind = "object" THEN "object_comma" ELSE "array_switch")
  PROVE  Follows(p)'
<1>2. /\ tape' = tape /\ scopes' = scopes
      /\ label' = IF Inner(st).kind = "object" THEN "object_comma" ELSE "array_switch"
  BY DEF Goto
<1>3. Len(tape') = p[n + 1] /\ Holds(tape', text, p, n)
  BY <1>2, MarkHolds
<1>4. PICK next : next = Run(text)[n]
  OBVIOUS
<1>5. next = Onward(st)
  BY <1>4, ReadBy DEF TokenReads
<1>6. st.open # <<>> /\ IsState(st)
  BY DEF CommaNext, AtToken
<1>7. PICK depth \in Nat \ {0} : depth = Len(st.open)
  BY <1>6, InnerFacts
<1>8. /\ IsState(next) /\ next.open # <<>> /\ Len(next.open) = depth
      /\ next.expects = IF Inner(st).kind = "object" THEN "key" ELSE "value"
      /\ Inner(next).kind = Inner(st).kind
      /\ \A m \in 1 .. depth - 1 : next.open[m] = st.open[m]
      /\ next.open[depth].at = st.open[depth].at
  <2>1. Inner(st) = st.open[depth]
    BY <1>6, <1>7, InnerFacts
  <2> QED
    BY <1>5, <1>6, <1>7, <2>1, OnwardState
<1>9. LabelOf(next) = IF Inner(st).kind = "object" THEN "object_comma" ELSE "array_switch"
  BY <1>8 DEF LabelOf
<1>10. ScopesAre(p, scopes, st.open)
  BY DEF AtToken
<1>11. ASSUME NEW m \in 1 .. depth
       PROVE  next.open[m].at = st.open[m].at /\ ReturnTo(next.open, m) = ReturnTo(st.open, m)
  <2>1. m \in 1 .. depth - 1 \/ m = depth
    OBVIOUS
  <2>2. m # 1 => next.open[m - 1] = st.open[m - 1]
    BY <1>8
  <2> QED
    BY <1>8, <2>1, <2>2 DEF ReturnTo
<1>12. ScopesAre(p, scopes', next.open)
  BY <1>2, <1>7, <1>8, <1>10, <1>11 DEF ScopesAre
<1>13. next.expects # "nothing"
  BY <1>8
<1> QED
  BY <1>2, <1>3, <1>4, <1>9, <1>12, <1>13, FollowsNext DEF AtToken

LEMMA OpenFollowed ==
  ASSUME NEW p, NEW i, NEW st, NEW c, NEW n, AtToken(p, i, st, c, n),
         ValueNext(st), c \in Opening, OpenScope(c, Returns(st.open)),
         label' # "failed"
  PROVE  Follows(p)'
<1>1. PICK kind \in Container : c = Opener[kind]
  BY TokenNames
<1>2. c \notin ScalarKind /\ c \notin Closing /\ Width(c) = 1
  BY TokenNames DEF Width, NumberKind
<1>3. PICK words : words = OpeningWords(c)
  OBVIOUS
<1>4. /\ words \in Seq(TapeWord) /\ Len(words) = Width(c) /\ Len(words) >= 1
      /\ words[1].type = c
  <2>1. c \in WordTypes /\ 0 \in Nat /\ NoPayload \in StoredPayload
    BY PayloadType DEF WordTypes
  <2>2. Word(c, 0, NoPayload) \in TapeWord /\ Word(c, 0, NoPayload).type = c
    BY <2>1, WordType
  <2>3. PICK word \in TapeWord : word = Word(c, 0, NoPayload)
    BY <2>2
  <2>4. words = <<word>>
    BY <1>3, <2>3 DEF OpeningWords
  <2> QED
    BY <1>2, <2>2, <2>3, <2>4
<1>5. tape' = tape \o words
  BY <1>3 DEF OpenScope
<1>6. Len(tape') = p[n + 1] /\ Holds(tape', text, p, n)
  BY <1>2, <1>4, <1>5, WriteHolds
<1>7. PICK next : next = Run(text)[n]
  OBVIOUS
<1>8. next = Deeper(st, kind, n)
  BY <1>1, <1>7, ReadBy DEF TokenReads
<1>9. IsState(st) /\ n \in Nat \ {0}
  BY DEF AtToken
<1>10. PICK depth \in Nat : depth = Len(st.open)
  BY <1>9, DeeperState
<1>11. /\ IsState(next) /\ next.expects = "first" /\ Len(next.open) = depth + 1
       /\ \A m \in 1 .. depth : next.open[m] = st.open[m]
       /\ next.open[depth + 1] = [at |-> n, kind |-> kind, index |-> 0]
       /\ Inner(next) = [at |-> n, kind |-> kind, index |-> 0]
  BY <1>8, <1>9, <1>10, DeeperState
<1>12. next.open # <<>>
  BY <1>11 DEF IsState
<1>13. LabelOf(next) = IF kind = "object" THEN "object_begin" ELSE "array_begin"
  BY <1>11, <1>12 DEF LabelOf
<1>14. label' = LabelOf(next)
  BY <1>1, <1>13, TokenNames DEF OpenScope
<1>15. PICK scope : scope = [offset |-> Len(tape), ret |-> Returns(st.open)]
  OBVIOUS
<1>16. scopes' = Append(scopes, scope)
  BY <1>15 DEF OpenScope
<1>17. /\ ScopesAre(p, scopes, st.open) /\ scopes \in Seq(Scope)
       /\ p[n] = Len(tape) /\ Len(scopes) = depth + 1
  BY <1>10 DEF AtToken, ScopesAre
<1>18. /\ Len(scopes') = depth + 2
       /\ \A m \in 1 .. depth + 1 : scopes'[m] = scopes[m]
       /\ scopes'[depth + 2] = scope
  <2>1. scopes \in Seq(Scope \cup {scope}) /\ scope \in Scope \cup {scope}
    BY <1>17, SeqMonotonic
  <2> QED
    BY <1>16, <1>17, <2>1, AppendProperties
<1>19. ReturnTo(next.open, depth + 1) = Returns(st.open)
  <2>1. CASE depth = 0
    <3>1. st.open = <<>>
      BY <1>9, <1>10, <2>1, EmptySeq DEF IsState
    <3> QED
      BY <2>1, <3>1 DEF ReturnTo, Returns
  <2>2. CASE depth # 0
    <3>1. st.open # <<>> /\ Last(st.open) = st.open[depth]
      BY <1>9, <1>10, <2>2, EmptySeq DEF IsState, Last
    <3>2. next.open[(depth + 1) - 1] = st.open[depth]
      BY <1>11, <2>2
    <3> QED
      BY <2>2, <3>1, <3>2 DEF ReturnTo, Returns
  <2> QED
    BY <2>1, <2>2
<1>20. ASSUME NEW m \in 1 .. depth + 1
       PROVE  scopes'[m + 1] = [offset |-> p[next.open[m].at], ret |-> ReturnTo(next.open, m)]
  <2>1. CASE m = depth + 1
    <3>1. m + 1 = depth + 2
      BY <2>1
    <3> QED
      BY <1>11, <1>15, <1>17, <1>18, <1>19, <2>1, <3>1
  <2>2. CASE m \in 1 .. depth
    <3>1. scopes'[m + 1] = scopes[m + 1]
      BY <1>18, <2>2
    <3>2. scopes[m + 1] = [offset |-> p[st.open[m].at], ret |-> ReturnTo(st.open, m)]
      BY <1>10, <1>17, <2>2 DEF ScopesAre
    <3>3. next.open[m] = st.open[m] /\ (m # 1 => next.open[m - 1] = st.open[m - 1])
      BY <1>11, <2>2
    <3>4. ReturnTo(next.open, m) = ReturnTo(st.open, m)
      BY <3>3 DEF ReturnTo
    <3> QED
      BY <3>1, <3>2, <3>3, <3>4
  <2>3. m = depth + 1 \/ m \in 1 .. depth
    OBVIOUS
  <2> QED
    BY <2>1, <2>2, <2>3
<1>21. ScopesAre(p, scopes', next.open)
  BY <1>11, <1>18, <1>20 DEF ScopesAre
<1> QED
  BY <1>6, <1>7, <1>11, <1>14, <1>21, FollowsNext DEF AtToken

LEMMA CloseFollowed ==
  ASSUME NEW p, NEW i, NEW st, NEW c, NEW n, AtToken(p, i, st, c, n),
         CloserNext(st, c), CloseScope(c)
  PROVE  Follows(p)'
<1>1. PICK next : next = Run(text)[n]
  OBVIOUS
<1>2. next = Shallower(st)
  BY <1>1, ReadBy DEF TokenReads
<1>3. IsState(st) /\ st.open # <<>> /\ n \in Nat \ {0}
  BY DEF AtToken, CloserNext
<1>4. PICK depth \in Nat \ {0} : depth = Len(st.open)
  BY <1>3, InnerFacts
<1>5. PICK o : o = Inner(st).at
  OBVIOUS
<1>6. Inner(st) = st.open[depth] /\ Inner(st).kind \in Container
  BY <1>3, <1>4, InnerFacts
<1>7. /\ IsState(next) /\ next.expects = "separator" /\ Len(next.open) = depth - 1
      /\ \A m \in 1 .. depth - 1 : next.open[m] = st.open[m]
  BY <1>2, <1>3, <1>4, ShallowerState
<1>8. c \in Closing /\ c \notin ScalarKind /\ c \notin Opening /\ Width(c) = 1
  BY <1>6, TokenNames DEF CloserNext, Width, NumberKind
<1>9. /\ ScopesAre(p, scopes, st.open) /\ scopes \in Seq(Scope)
      /\ Len(scopes) = depth + 1
  BY <1>4 DEF AtToken, ScopesAre
<1>10. Last(scopes) = [offset |-> p[o], ret |-> ReturnTo(st.open, depth)]
  BY <1>4, <1>5, <1>6, <1>9 DEF ScopesAre, Last
<1>11. /\ o \in 1 .. i /\ Width(text[o]) = 1
       /\ Len(text) \in Nat /\ i \in 0 .. Len(text) - 1
  <2>1. n \in 1 .. Len(text) /\ Len(text) \in Nat /\ n - 1 = i /\ st = Run(text)[n - 1]
        /\ i \in 0 .. Len(text) - 1
    BY DEF AtToken
  <2>2. o \in 1 .. n - 1 /\ Width(text[o]) = 1
    BY <1>3, <1>5, <2>1, BracketOf
  <2> QED
    BY <2>1, <2>2
<1>12. PICK length \in Nat : length = Len(tape)
  BY DEF AtToken
<1>13. p[o] \in 0 .. length - 1
  <2>1. o \in 1 .. Len(text) + 1 /\ n \in o .. Len(text) + 1 /\ o < n
    BY <1>11 DEF AtToken
  <2>2. p[o] \in Nat \ {0} /\ p[n] \in Nat \ {0} /\ p[o] < p[n]
    BY <1>11, <2>1, PlacesRise DEF AtToken
  <2> QED
    BY <1>12, <2>2 DEF AtToken
<1>14. PICK m \in 1 .. length : m = p[o] + 1
  BY <1>13
<1>15. PICK closed : closed = Filled(tape, m, length + 1)
  OBVIOUS
<1>16. PICK word : word = Word(c, p[o], NoPayload)
  OBVIOUS
<1>17. tape' = Append(closed, word) /\ scopes' = Front(scopes)
       /\ label' = ReturnTo(st.open, depth)
  BY <1>10, <1>12, <1>14, <1>15, <1>16 DEF CloseScope, ScopesAround, Filled
<1>18. word \in TapeWord /\ word.type = c
  <2>1. c \in WordTypes /\ p[o] \in Nat /\ NoPayload \in StoredPayload
    BY <1>8, <1>13, PayloadType DEF WordTypes
  <2> QED
    BY <1>16, <2>1, WordType
<1>19. tape \in Seq(TapeWord) /\ m \in 1 .. Len(tape) /\ length + 1 \in Nat
  BY <1>12 DEF AtToken
<1>20. /\ closed \in Seq(TapeWord) /\ Len(closed) = length
       /\ \A k \in 1 .. length : closed[k].type = tape[k].type
       /\ \A k \in 1 .. length : k # m => closed[k] = tape[k]
       /\ closed[m].value = length + 1
  <2>1. /\ Filled(tape, m, length + 1) \in Seq(TapeWord)
        /\ Len(Filled(tape, m, length + 1)) = Len(tape)
        /\ \A k \in 1 .. Len(tape) : Filled(tape, m, length + 1)[k].type = tape[k].type
    BY <1>19, FillKeeps
  <2>2. /\ \A k \in 1 .. Len(tape) : k # m => Filled(tape, m, length + 1)[k] = tape[k]
        /\ Filled(tape, m, length + 1)[m].value = length + 1
    BY <1>19, FillValue
  <2> QED
    BY <1>12, <1>15, <2>1, <2>2
<1>21. closed[m].payload = tape[m].payload
  <2>1. tape \in [1 .. length -> TapeWord] /\ tape[m] \in TapeWord
    BY <1>12, <1>19, ElementOfSeq
  <2> QED
    BY <1>15, <2>1 DEF Filled, TapeWord
<1>22. /\ Len(tape') = length + 1
       /\ \A k \in 1 .. length : tape'[k] = closed[k]
       /\ tape'[length + 1] = word
  <2>1. closed \in Seq(TapeWord) /\ word \in TapeWord /\ Len(closed) = length
    BY <1>18, <1>20
  <2>2. /\ Len(Append(closed, word)) = Len(closed) + 1
        /\ \A k \in 1 .. Len(closed) : Append(closed, word)[k] = closed[k]
        /\ Append(closed, word)[Len(closed) + 1] = word
    BY <2>1, AppendProperties
  <2> QED
    BY <1>17, <2>1, <2>2
<1>23. SameBut(tape, tape', p[o])
  <2> SUFFICES ASSUME NEW v \in 0 .. length - 1
               PROVE  /\ tape'[v + 1].type = tape[v + 1].type
                      /\ tape'[v + 1].payload = tape[v + 1].payload
                      /\ v # p[o] => tape'[v + 1].value = tape[v + 1].value
    BY <1>12 DEF SameBut, Cell
  <2>1. PICK k \in 1 .. length : k = v + 1
    OBVIOUS
  <2>2. v # p[o] => k # m
    BY <1>13, <1>14, <2>1
  <2> QED
    BY <1>20, <1>21, <1>22, <2>1, <2>2
<1>24. Len(tape) = p[n] /\ p[n + 1] = length + 1
  BY <1>8, <1>12 DEF AtToken
<1>25. HoldsToken(tape', text, p, n)
  <2>1. Cell(tape', p[n]) = word
    BY <1>12, <1>22, <1>24 DEF Cell
  <2>2. Cell(tape', p[o]).value = p[n] + 1
    BY <1>12, <1>14, <1>20, <1>22, <1>24 DEF Cell
  <2>3. text[n] = c /\ Run(text)[n - 1] = st
    BY DEF AtToken
  <2> QED
    BY <1>5, <1>8, <1>18, <2>1, <2>2, <2>3 DEF HoldsToken
<1>26. ASSUME NEW k \in 1 .. i, CloserRead(Run(text), text, k)
       PROVE  p[Inner(Run(text)[k - 1]).at] # p[o]
  <2>1. PICK other : other = Inner(Run(text)[k - 1]).at
    OBVIOUS
  <2>2. k \in 1 .. Len(text) /\ Run(text)[k - 1].open # <<>>
    BY <1>11, <1>26 DEF CloserRead, CloserNext
  <2>3. other \in 1 .. k - 1 /\ Width(text[other]) = 1
    BY <1>11, <2>1, <2>2, BracketOf
  <2>4. other # o
    <3>1. i \in 0 .. Len(text) /\ depth \in 1 .. Len(Run(text)[i].open)
          /\ Run(text)[i].open[depth].at = o
      BY <1>4, <1>5, <1>6, <1>11 DEF AtToken
    <3> QED
      BY <1>11, <1>26, <2>1, <3>1, ClosedOnce
  <2>5. Placing(text, Len(text), p) /\ o \in 1 .. Len(text) + 1
        /\ other \in 1 .. Len(text) + 1
    BY <1>11, <2>2, <2>3 DEF AtToken
  <2>6. CASE o < other
    <3>1. other \in o .. Len(text) + 1
      BY <2>5, <2>6
    <3>2. p[o] \in Nat /\ p[other] \in Nat /\ p[o] < p[other]
      BY <1>11, <2>5, <2>6, <3>1, PlacesRise
    <3> QED
      BY <2>1, <3>2
  <2>7. CASE other < o
    <3>1. o \in other .. Len(text) + 1
      BY <2>5, <2>7
    <3>2. p[o] \in Nat /\ p[other] \in Nat /\ p[other] < p[o]
      BY <1>11, <2>3, <2>5, <2>7, <3>1, PlacesRise
    <3> QED
      BY <2>1, <3>2
  <2> QED
    BY <2>4, <2>5, <2>6, <2>7
<1>27. Holds(tape', text, p, n)
  <2>1. /\ Placing(text, Len(text), p) /\ Holds(tape, text, p, i)
        /\ n = i + 1 /\ Len(tape) = p[i + 1]
    BY <1>24 DEF AtToken
  <2> QED
    BY <1>11, <1>23, <1>25, <1>26, <2>1, HoldsGrows
<1>28. /\ Len(scopes') = depth /\ \A k \in 1 .. depth : scopes'[k] = scopes[k]
  <2>1. scopes # <<>> /\ scopes \in Seq(Scope)
    BY <1>9, EmptySeq
  <2>2. /\ Len(Front(scopes)) = Len(scopes) - 1
        /\ \A k \in 1 .. Len(scopes) - 1 : Front(scopes)[k] = scopes[k]
    BY <2>1, FrontFacts
  <2>3. Len(scopes) - 1 = depth
    BY <1>9
  <2>4. /\ Len(Front(scopes)) = depth
        /\ \A k \in 1 .. depth : Front(scopes)[k] = scopes[k]
    BY <2>2, <2>3
  <2> QED
    BY <1>17, <2>4
<1>29. ScopesAre(p, scopes', next.open)
  <2>1. ASSUME NEW k \in 1 .. depth - 1
        PROVE  scopes'[k + 1] = [offset |-> p[next.open[k].at], ret |-> ReturnTo(next.open, k)]
    <3>1. scopes'[k + 1] = scopes[k + 1]
      BY <1>28
    <3>2. scopes[k + 1] = [offset |-> p[st.open[k].at], ret |-> ReturnTo(st.open, k)]
      BY <1>4, <1>9 DEF ScopesAre
    <3>3. next.open[k] = st.open[k] /\ (k # 1 => next.open[k - 1] = st.open[k - 1])
      BY <1>7
    <3>4. ReturnTo(next.open, k) = ReturnTo(st.open, k)
      BY <3>3 DEF ReturnTo
    <3> QED
      BY <3>1, <3>2, <3>3, <3>4
  <2> QED
    BY <1>7, <1>28, <2>1 DEF ScopesAre
<1>30. LabelOf(next) = ReturnTo(st.open, depth)
  <2>1. CASE depth = 1
    <3>1. next.open = <<>>
      BY <1>7, <2>1, EmptySeq DEF IsState
    <3> QED
      BY <1>7, <2>1, <3>1 DEF LabelOf, ReturnTo
  <2>2. CASE depth # 1
    <3>1. next.open # <<>> /\ Inner(next) = st.open[depth - 1]
      <4>1. next.open # <<>>
        BY <1>7, <2>2, EmptySeq DEF IsState
      <4>2. Inner(next) = next.open[depth - 1]
        BY <1>7, <4>1, InnerFacts
      <4>3. depth - 1 \in 1 .. depth - 1
        BY <2>2
      <4> QED
        BY <1>7, <4>1, <4>2, <4>3
    <3> QED
      BY <1>7, <2>2, <3>1 DEF LabelOf, ReturnTo
  <2> QED
    BY <2>1, <2>2
<1>31. Len(tape') = p[n + 1] /\ label' = LabelOf(next) /\ next.expects # "nothing"
  BY <1>7, <1>17, <1>22, <1>24, <1>30
<1> QED
  BY <1>1, <1>27, <1>29, <1>31, FollowsNext DEF AtToken

LEMMA ReadingFollows ==
  ASSUME IInv, NEW p, Placing(text, Len(text), p), TapeReads(p),
         \/ Start \/ ObjectBegin \/ ObjectKey \/ ObjectValue \/ ObjectContinue
         \/ ObjectComma \/ ArrayBegin \/ ArraySwitch \/ ArrayContinue
  PROVE  TapeReads(p)'
<1>1. ReadStep
  BY ReadSteps
<1>2. /\ label \in Reading /\ next_index' = next_index + 1 /\ label' \in Inside
      /\ Running /\ text' = text
  BY <1>1, StepLabels DEF ReadStep, ScopesFollowRead, Running, Reading, Verdict, Parse
<1>3. label' # "stage_1" /\ label' # "succeeded"
  BY <1>2 DEF Inside, Reading
<1>4. Len(text) \in Nat /\ next_index \in Nat
  BY SimdjsonAssumption, LenProperties DEF IInv, TypeOK
<1>5. CASE next_index < Len(text) /\ label' # "failed"
  <2>1. PICK i \in Nat : i = next_index
    BY <1>4
  <2>2. PICK st : st = Run(text)[i]
    OBVIOUS
  <2>3. PICK c : c = text[i + 1]
    OBVIOUS
  <2>4. PICK n : n = i + 1
    OBVIOUS
  <2>5. Follows(p)
    BY <1>2, <1>4, <1>5 DEF TapeReads
  <2>6. AtCharacter(p, i, st, c)
    BY <1>2, <1>5, <2>1, <2>2, <2>3, <2>5 DEF AtCharacter
  <2>7. AtToken(p, i, st, c, n)
    BY <2>4, <2>6, AtNext
  <2>8. label = LabelOf(st) /\ IsState(st) /\ st.expects # "nothing"
    <3>1. label = LabelOf(st)
      BY <1>2, <2>1, <2>2, <2>5 DEF Follows, Reading
    <3> QED
      BY <2>7, <3>1 DEF AtToken
  <2>9. ReadsOn(st, c)
    BY <1>5, <2>1, <2>3, <2>8, MachineReads
  <2>10. Follows(p)'
    BY <1>5, <2>7, <2>9, ScalarFollows, OpenFollowed, KeyFollowed, ColonFollowed,
       CommaFollowed, CloseFollowed DEF ReadsOn
  <2> QED
    BY <1>3, <2>10 DEF TapeReads
<1>6. CASE next_index >= Len(text)
  <2>1. ~(next_index' <= Len(text'))
    BY <1>2, <1>4, <1>6
  <2> QED
    BY <1>3, <2>1 DEF TapeReads
<1>7. CASE label' = "failed"
  BY <1>3, <1>7 DEF TapeReads, Running, Verdict
<1> QED
  BY <1>4, <1>5, <1>6, <1>7

LEMMA SucceedReads ==
  ASSUME IInv, NEW p, Placing(text, Len(text), p), TapeReads(p), Succeed,
         text' = text
  PROVE  TapeReads(p)'
<1>1. label = "succeed" /\ Running /\ next_index' = next_index
  BY DEF Succeed, Running, Verdict
<1>2. Len(scopes) = 1 /\ scopes[1].offset = 0 /\ next_index = Len(text)
  BY <1>1 DEF IInv, ScopesNest, LabelFits
<1>3. PICK size \in Nat : size = Len(text)
  BY SimdjsonAssumption, LenProperties DEF IInv, TypeOK
<1>4. Follows(p)
  BY <1>1, <1>2, <1>3 DEF TapeReads
<1>5. PICK length \in Nat : length = Len(tape)
  BY LenProperties DEF IInv, TypeOK
<1>6. /\ IsWhole(Run(text)[size]) /\ length = p[size + 1]
      /\ Holds(tape, text, p, size)
  <2>1. size \in 0 .. Len(text)
    BY <1>3
  <2>2. IsState(Run(text)[size]) /\ Run(text)[size].expects # "nothing"
    BY <1>2, <1>3, <1>4, <2>1, RunStates DEF Follows
  <2>3. label # LabelOf(Run(text)[size])
    BY <1>1 DEF LabelOf
  <2> QED
    BY <1>2, <1>3, <1>4, <1>5, <2>3 DEF Follows
<1>7. length >= 1 /\ tape \in Seq(TapeWord)
  BY <1>1, <1>3, <1>5, <1>6, PlacesRise DEF IInv, TypeOK
<1>8. PICK filled : filled = Filled(tape, 1, length)
  OBVIOUS
<1>9. PICK word : word = Word("r", 0, NoPayload)
  OBVIOUS
<1>10. word \in TapeWord
  BY <1>9, WordType, PayloadType DEF WordTypes
<1>11. tape' = Append(filled, word) /\ label' = "succeeded"
  BY <1>2, <1>5, <1>8, <1>9 DEF Succeed, Filled
<1>12. /\ filled \in Seq(TapeWord) /\ Len(filled) = length
       /\ \A k \in 1 .. length : k # 1 => filled[k] = tape[k]
       /\ filled[1].value = length
       /\ filled[1].type = tape[1].type /\ filled[1].payload = tape[1].payload
  <2>1. 1 \in 1 .. Len(tape)
    BY <1>5, <1>7
  <2>2. /\ Filled(tape, 1, length) \in Seq(TapeWord)
        /\ Len(Filled(tape, 1, length)) = Len(tape)
        /\ \A k \in 1 .. Len(tape) : Filled(tape, 1, length)[k].type = tape[k].type
    BY <1>7, <2>1, FillKeeps
  <2>3. /\ \A k \in 1 .. Len(tape) : k # 1 => Filled(tape, 1, length)[k] = tape[k]
        /\ Filled(tape, 1, length)[1].value = length
    BY <1>7, <2>1, FillValue
  <2>4. filled[1].payload = tape[1].payload
    <3>1. tape \in [1 .. length -> TapeWord] /\ tape[1] \in TapeWord /\ 1 \in 1 .. length
      BY <1>5, <1>7, <2>1, ElementOfSeq
    <3> QED
      BY <1>8, <3>1 DEF Filled, TapeWord
  <2> QED
    BY <1>5, <1>8, <2>1, <2>2, <2>3, <2>4
<1>13. \A k \in 1 .. length : tape'[k] = filled[k]
  <2>1. \A k \in 1 .. Len(filled) : Append(filled, word)[k] = filled[k]
    BY <1>10, <1>12, AppendProperties
  <2> QED
    BY <1>11, <1>12, <2>1
<1>14. SameBut(tape, tape', 0)
  <2> SUFFICES ASSUME NEW v \in 0 .. length - 1
               PROVE  /\ tape'[v + 1].type = tape[v + 1].type
                      /\ tape'[v + 1].payload = tape[v + 1].payload
                      /\ v # 0 => tape'[v + 1].value = tape[v + 1].value
    BY <1>5 DEF SameBut, Cell
  <2>1. PICK k \in 1 .. length : k = v + 1
    OBVIOUS
  <2>2. v # 0 => k # 1
    BY <2>1
  <2> QED
    BY <1>12, <1>13, <2>1, <2>2
<1>15. ASSUME NEW k \in 1 .. size, CloserRead(Run(text), text, k)
       PROVE  p[Inner(Run(text)[k - 1]).at] # 0
  <2>1. PICK o : o = Inner(Run(text)[k - 1]).at
    OBVIOUS
  <2>2. k \in 1 .. Len(text) /\ Run(text)[k - 1].open # <<>>
    BY <1>3, <1>15 DEF CloserRead, CloserNext
  <2>3. o \in 1 .. k - 1
    BY <1>3, <2>1, <2>2, BracketOf
  <2>4. o \in 1 .. size + 1 /\ o \in o .. size + 1
    BY <2>3
  <2>5. p[o] \in Nat \ {0}
    BY <1>3, <2>4, PlacesRise
  <2> QED
    BY <2>1, <2>5
<1>16. Holds(tape', text, p, size)
  <2>1. size \in 0 .. Len(text) /\ Len(text) \in Nat /\ Len(tape) = p[size + 1]
    BY <1>3, <1>5, <1>6
  <2> QED
    BY <1>3, <1>6, <1>14, <1>15, <2>1, HoldsKept
<1>17. Cell(tape', 0).value = length
  BY <1>7, <1>12, <1>13 DEF Cell
<1>18. PICK s : s = text
  OBVIOUS
<1>19. /\ next_index' = Len(s) /\ IsWhole(Run(s)[Len(s)])
       /\ Cell(tape', 0).value = p[Len(s) + 1] /\ Holds(tape', s, p, Len(s))
       /\ text' = s
  BY <1>1, <1>2, <1>3, <1>6, <1>16, <1>17, <1>18
<1>20. Finished(p)'
  BY <1>19 DEF Finished
<1> QED
  BY <1>11, <1>20 DEF TapeReads, Running, Verdict

LEMMA TapeReadsKeeps == IInv /\ TapeReadsInv /\ Parse => TapeReadsInv'
<1> SUFFICES ASSUME IInv, TapeReadsInv, Parse,
                    NEW p, Placing(text, Len(text), p)
             PROVE  TapeReads(p)'
  <2>1. IInv /\ Parse => text' = text
    BY StepLabels
  <2> QED
    BY <2>1 DEF TapeReadsInv
<1>1. TapeReads(p) /\ text' = text /\ label' # "stage_1"
  BY StepLabels DEF TapeReadsInv
<1>2. CASE Stage1
  <2>1. label = "stage_1" /\ next_index = 0 /\ next_index' = 0
    BY <1>1, <1>2 DEF Stage1, TapeReads
  <2>2. CASE label' = "failed"
    BY <2>2 DEF TapeReads, Running, Verdict
  <2>3. CASE label' = "start"
    <3>1. /\ tape' = <<Word("r", 0, NoPayload)>>
          /\ scopes' = <<[offset |-> 0, ret |-> "start_continue"]>>
      BY <1>2, <2>3 DEF Stage1
    <3>2. Len(tape') = 1 /\ Len(scopes') = 1
      BY <3>1
    <3>3. PICK s : s = text
      OBVIOUS
    <3>4. Run(s)[0] = Outset
      BY <3>3, RunSteps, SimdjsonAssumption, LenProperties DEF IInv, TypeOK
    <3>5. Outset.expects # "nothing" /\ LabelOf(Outset) = "start" /\ Outset.open = <<>>
      BY DEF Outset, LabelOf
    <3>6. p[0 + 1] = 1
      BY DEF Placing
    <3>7. Holds(tape', s, p, 0)
      BY DEF Holds
    <3>8. ScopesAre(p, scopes', Outset.open)
      BY <3>2, <3>5 DEF ScopesAre
    <3>9. Follows(p)'
      BY <1>1, <2>1, <2>3, <3>2, <3>3, <3>4, <3>5, <3>6, <3>7, <3>8, FollowsNext
    <3> QED
      BY <2>3, <3>9 DEF TapeReads
  <2>4. label' = "failed" \/ label' = "start"
    BY <1>2 DEF Stage1
  <2> QED
    BY <2>2, <2>3, <2>4
<1>3. CASE \/ Start \/ ObjectBegin \/ ObjectKey \/ ObjectValue \/ ObjectContinue
           \/ ObjectComma \/ ArrayBegin \/ ArraySwitch \/ ArrayContinue
  BY <1>1, <1>3, ReadingFollows
<1>4. CASE RunAway
  BY <1>4 DEF RunAway, TapeReads, Running, Verdict
<1>5. CASE StartContinue
  <2>1. /\ label = "start_continue" /\ tape' = tape /\ scopes' = scopes
        /\ next_index' = next_index /\ label' \in {"succeed", "failed"}
    BY <1>5 DEF StartContinue, Goto, Fail
  <2>2. CASE label' = "failed"
    BY <2>2 DEF TapeReads, Running, Verdict
  <2>3. CASE label' = "succeed" /\ next_index <= Len(text)
    <3>1. PICK s : s = text
      OBVIOUS
    <3>2. PICK n : n = next_index
      OBVIOUS
    <3>3. PICK st : st = Run(s)[n]
      OBVIOUS
    <3>4. /\ st.expects # "nothing" /\ label = LabelOf(st)
          /\ ScopesAre(p, scopes, st.open) /\ Len(tape) = p[n + 1]
          /\ Holds(tape, s, p, n)
      <4>1. Follows(p)
        BY <1>1, <2>1, <2>3 DEF TapeReads, Running, Verdict
      <4> QED
        BY <2>1, <3>1, <3>2, <3>3, <4>1 DEF Follows
    <3>5. IsWhole(st)
      <4>1. Len(s) \in Nat /\ n \in 0 .. Len(s)
        BY <2>3, <3>1, <3>2, SimdjsonAssumption, LenProperties DEF IInv, TypeOK
      <4>2. IsState(st)
        BY <3>3, <4>1, RunStates
      <4> QED
        BY <2>1, <3>4, <4>2, LabelReads
    <3>6. Follows(p)'
      <4>1. text' = s /\ next_index' = n /\ Run(text')[next_index'] = st
        BY <1>1, <2>1, <3>1, <3>2, <3>3
      <4>2. label' = "succeed" /\ ScopesAre(p, scopes', st.open)
            /\ Len(tape') = p[next_index' + 1] /\ Holds(tape', text', p, next_index')
        BY <2>1, <2>3, <3>4, <4>1
      <4> QED
        BY <3>4, <3>5, <4>1, <4>2 DEF Follows
    <3> QED
      BY <2>3, <3>6 DEF TapeReads
  <2>4. CASE ~(next_index <= Len(text))
    BY <1>1, <2>1, <2>4 DEF TapeReads
  <2> QED
    BY <2>1, <2>2, <2>3, <2>4
<1>6. CASE Succeed
  BY <1>1, <1>6, SucceedReads
<1> QED
  BY <1>2, <1>3, <1>4, <1>5, <1>6 DEF Parse

LEMMA TapeReadsStarts ==
  ASSUME label = "stage_1", next_index = 0
  PROVE  TapeReadsInv
BY DEF TapeReadsInv, TapeReads, Running, Verdict

-----------------------------------------------------------------------------
(***************************************************************************)
(* The walk. The traverser shows one event of the text after the other:    *)
(* where the iterator is, which scopes it has entered and which containers *)
(* the traverser has on its stack follows from the position of the event.  *)
(***************************************************************************)

\* The tape of a text that was accepted.
TapeIs(s, p) ==
  /\ Len(s) \in Nat
  /\ Placing(s, Len(s), p)
  /\ IsWhole(Run(s)[Len(s)])
  /\ Cell(tape, 0).value = p[Len(s) + 1]
  /\ Holds(tape, s, p, Len(s))

\* What simdjsontype_to_fuzzytype makes of the words of a kind of value.
ShownAs ==
  [string |-> "string", true |-> "boolean", false |-> "boolean", null |-> "null",
   narrow |-> "integer", wide |-> "integer", real |-> "floating"]

ShownType(s, q) ==
  CASE s[q] \in Closing -> "end_of_container"
    [] s[q] = "begin_object" -> "object"
    [] s[q] = "begin_array" -> "array"
    [] s[q] \in ScalarKind /\ Run(s)[q].expects = "colon" -> "key"
    [] s[q] \in ScalarKind /\ Run(s)[q].expects # "colon" -> ShownAs[s[q]]

\* The containers around an event, and where the value starts that it is of.
HostsOf(s, q) == IF s[q] \in Closing THEN Run(s)[q].open ELSE Run(s)[q - 1].open
PlaceOf(s, p, q) ==
  IF s[q] \in Closing THEN p[Inner(Run(s)[q - 1]).at] ELSE p[q]

StartsAre(p, starts, open) ==
  /\ starts \in Seq(Nat)
  /\ Len(starts) = Len(open) + 1
  /\ starts[1] = 1
  /\ \A m \in 1 .. Len(open) : starts[m + 1] = p[open[m].at] + 1
StackIs(infos, open) ==
  /\ infos \in Seq(Infos)
  /\ Len(infos) = Len(open)
  /\ \A m \in 1 .. Len(open) :
       infos[m] = [type |-> open[m].kind, is_empty |-> FALSE]

Located(p, it, place, open) ==
  /\ it = [location |-> place, start_of_scope |-> it.start_of_scope]
  /\ StartsAre(p, it.start_of_scope, open)

WalkReads(s, p, q) ==
  \/ /\ q = 0
     /\ current_type = "end_of_document"
     /\ container_stack = <<>>
  \/ /\ q \in 1 .. Len(s) /\ IsEvent(s, q)
     /\ current_type = ShownType(s, q)
     /\ Located(p, Walker!Outside, PlaceOf(s, p, q), HostsOf(s, q))
     /\ StackIs(Walker!Around, HostsOf(s, q))

\* Scopes and stack know of a container where it starts and its kind.
SameScopes(open, other) ==
  /\ Len(open) = Len(other)
  /\ \A m \in 1 .. Len(open) : open[m].at = other[m].at /\ open[m].kind = other[m].kind

LEMMA SameStays ==
  ASSUME NEW p, NEW open, NEW other, SameScopes(open, other)
  PROVE  /\ \A starts : StartsAre(p, starts, open) => StartsAre(p, starts, other)
         /\ \A infos : StackIs(infos, open) => StackIs(infos, other)
BY DEF SameScopes, StartsAre, StackIs

LEMMA ScopePopped ==
  ASSUME NEW p, NEW open \in Seq(Scopes), open # <<>>,
         NEW starts, StartsAre(p, starts, open), NEW infos, StackIs(infos, open)
  PROVE  /\ StartsAre(p, Front(starts), Front(open))
         /\ Len(starts) # 1
         /\ Last(starts) = p[Last(open).at] + 1
         /\ StackIs(Front(infos), Front(open))
         /\ infos # <<>> /\ Last(infos) = [type |-> Last(open).kind, is_empty |-> FALSE]
<1>1. /\ Len(open) \in Nat \ {0} /\ Len(Front(open)) = Len(open) - 1
      /\ \A m \in 1 .. Len(open) - 1 : Front(open)[m] = open[m]
      /\ Last(open) = open[Len(open)]
  BY FrontFacts
<1>2. PICK depth \in Nat \ {0} : depth = Len(open)
  BY <1>1
<1>3. starts \in Seq(Nat) /\ Len(starts) = depth + 1 /\ starts # <<>>
  BY <1>2, EmptySeq DEF StartsAre
<1>a. /\ Front(starts) \in Seq(Nat) /\ Len(Front(starts)) = Len(starts) - 1
      /\ \A m \in 1 .. Len(starts) - 1 : Front(starts)[m] = starts[m]
      /\ Last(starts) = starts[Len(starts)]
  BY <1>3, FrontFacts
<1>4. /\ Front(starts) \in Seq(Nat) /\ Len(Front(starts)) = depth
      /\ \A m \in 1 .. depth : Front(starts)[m] = starts[m]
      /\ Last(starts) = starts[depth + 1]
  BY <1>3, <1>a
<1>5. StartsAre(p, Front(starts), Front(open))
  <2>1. /\ starts[1] = 1
        /\ \A m \in 1 .. depth : starts[m + 1] = p[open[m].at] + 1
    BY <1>2 DEF StartsAre
  <2>2. Front(starts)[1] = 1
    BY <1>4, <2>1
  <2>3. ASSUME NEW m \in 1 .. depth - 1
        PROVE  Front(starts)[m + 1] = p[Front(open)[m].at] + 1
    <3>1. m + 1 \in 1 .. depth /\ m \in 1 .. depth
      OBVIOUS
    <3>2. Front(starts)[m + 1] = starts[m + 1] /\ starts[m + 1] = p[open[m].at] + 1
      BY <1>4, <2>1, <3>1
    <3>3. Front(open)[m] = open[m]
      BY <1>1, <1>2
    <3> QED
      BY <3>2, <3>3
  <2>4. Len(Front(open)) = depth - 1
    BY <1>1, <1>2
  <2> QED
    BY <1>4, <2>2, <2>3, <2>4 DEF StartsAre
<1>6. infos \in Seq(Infos) /\ Len(infos) = depth /\ infos # <<>>
  BY <1>2, EmptySeq DEF StackIs
<1>7. /\ Front(infos) \in Seq(Infos) /\ Len(Front(infos)) = depth - 1
      /\ \A m \in 1 .. depth - 1 : Front(infos)[m] = infos[m]
      /\ Last(infos) = infos[depth]
  BY <1>6, FrontFacts
<1>8. StackIs(Front(infos), Front(open))
  BY <1>1, <1>2, <1>7 DEF StackIs
<1>9. Last(starts) = p[Last(open).at] + 1
  BY <1>1, <1>2, <1>4 DEF StartsAre
<1>10. Last(infos) = [type |-> Last(open).kind, is_empty |-> FALSE]
  BY <1>1, <1>2, <1>7 DEF StackIs
<1> QED
  BY <1>3, <1>5, <1>6, <1>8, <1>9, <1>10

LEMMA ScopePushed ==
  ASSUME NEW p, NEW st, IsState(st), NEW kind \in Container, NEW n \in Nat \ {0},
         p[n] \in Nat,
         NEW starts, StartsAre(p, starts, st.open), NEW infos, StackIs(infos, st.open)
  PROVE  /\ StartsAre(p, Append(starts, p[n] + 1), Deeper(st, kind, n).open)
         /\ StackIs(Append(infos, [type |-> kind, is_empty |-> FALSE]),
                    Deeper(st, kind, n).open)
<1>1. PICK open : open = Deeper(st, kind, n).open
  OBVIOUS
<1>2. PICK depth \in Nat : depth = Len(st.open)
  BY LenProperties DEF IsState
<1>3. /\ Len(open) = depth + 1
      /\ \A m \in 1 .. depth : open[m] = st.open[m]
      /\ open[depth + 1].at = n /\ open[depth + 1].kind = kind
  <2>1. /\ Len(Deeper(st, kind, n).open) = Len(st.open) + 1
        /\ \A m \in 1 .. Len(st.open) : Deeper(st, kind, n).open[m] = st.open[m]
        /\ Deeper(st, kind, n).open[Len(st.open) + 1] =
             [at |-> n, kind |-> kind, index |-> 0]
    BY DeeperState
  <2> QED
    BY <1>1, <1>2, <2>1
<1>4. starts \in Seq(Nat) /\ Len(starts) = depth + 1 /\ p[n] + 1 \in Nat
  BY <1>2 DEF StartsAre
<1>5. PICK more : more = Append(starts, p[n] + 1)
  OBVIOUS
<1>6. /\ more \in Seq(Nat) /\ Len(more) = depth + 2
      /\ \A m \in 1 .. depth + 1 : more[m] = starts[m]
      /\ more[depth + 2] = p[n] + 1
  BY <1>4, <1>5, AppendProperties
<1>7. ASSUME NEW m \in 1 .. depth + 1 PROVE more[m + 1] = p[open[m].at] + 1
  <2>1. CASE m = depth + 1
    <3>1. m + 1 = depth + 2
      BY <2>1
    <3> QED
      BY <1>3, <1>6, <2>1, <3>1
  <2>2. CASE m \in 1 .. depth
    <3>1. m + 1 \in 1 .. depth + 1
      BY <2>2
    <3>2. \A k \in 1 .. depth : starts[k + 1] = p[st.open[k].at] + 1
      BY <1>2 DEF StartsAre
    <3> QED
      BY <1>3, <1>6, <2>2, <3>1, <3>2
  <2> QED
    BY <2>1, <2>2
<1>8. StartsAre(p, more, open)
  <2>1. more[1] = 1
    <3>1. starts[1] = 1 /\ 1 \in 1 .. depth + 1
      BY DEF StartsAre
    <3> QED
      BY <1>6, <3>1
  <2> QED
    BY <1>3, <1>6, <1>7, <2>1 DEF StartsAre
<1>9. PICK info : info = [type |-> kind, is_empty |-> FALSE]
  OBVIOUS
<1>10. info \in Infos
  BY <1>9 DEF Infos
<1>11. infos \in Seq(Infos) /\ Len(infos) = depth
  BY <1>2 DEF StackIs
<1>12. PICK all : all = Append(infos, info)
  OBVIOUS
<1>13. /\ all \in Seq(Infos) /\ Len(all) = depth + 1
       /\ \A m \in 1 .. depth : all[m] = infos[m]
       /\ all[depth + 1] = info
  BY <1>10, <1>11, <1>12, AppendProperties
<1>14. StackIs(all, open)
  <2>1. ASSUME NEW m \in 1 .. depth + 1
        PROVE  all[m] = [type |-> open[m].kind, is_empty |-> FALSE]
    <3>1. CASE m = depth + 1
      BY <1>3, <1>9, <1>13, <3>1
    <3>2. CASE m \in 1 .. depth
      BY <1>2, <1>3, <1>13, <3>2 DEF StackIs
    <3> QED
      BY <3>1, <3>2
  <2> QED
    BY <1>3, <1>13, <2>1 DEF StackIs
<1> QED
  BY <1>1, <1>5, <1>8, <1>9, <1>12, <1>14

-----------------------------------------------------------------------------
\* The words of the events.
LEMMA PlaceNext ==
  ASSUME NEW s, NEW p, TapeIs(s, p), NEW q \in 1 .. Len(s)
  PROVE  /\ p[q] \in Nat \ {0} /\ p[q + 1] \in Nat \ {0}
         /\ p[q + 1] = p[q] + Width(s[q])
<1>1. PICK length \in Nat : length = Len(s)
  BY DEF TapeIs
<1>2. Placing(s, length, p) /\ q \in 1 .. length + 1 /\ q + 1 \in q .. length + 1
  BY <1>1 DEF TapeIs
<1>3. p[q] \in Nat \ {0} /\ p[q + 1] \in Nat \ {0}
  BY <1>1, <1>2, PlacesRise
<1>4. p[q + 1] = p[q] + Width(s[q])
  BY <1>1, <1>2 DEF Placing
<1> QED
  BY <1>3, <1>4

LEMMA ScalarWord ==
  ASSUME NEW s, NEW p, TapeIs(s, p), NEW q \in 1 .. Len(s), s[q] \in ScalarKind,
         NEW it, it.location = p[q]
  PROVE  /\ Walker!TypeOf(Walker!At(it)) = ShownAs[s[q]]
         /\ Walker!At(it).payload = Payload(s[q], q)
         /\ Walker!At(it).type \notin Closing
         /\ Walker!NextLocation(it) = p[q + 1]
<1>1. PICK word : word = Walker!At(it)
  OBVIOUS
<1>2. PICK kind : kind = s[q]
  OBVIOUS
<1>3. /\ word = Cell(tape, p[q]) /\ p[q] \in Nat
      /\ p[q + 1] = p[q] + Width(kind)
  BY <1>1, <1>2, PlaceNext DEF Walker!At, Walker!WordAt, Cell
<1>4. /\ kind \in {"string", "true", "false", "null", "narrow", "wide", "real"}
      /\ word.type = ScalarWords(kind, q)[1].type
      /\ word.payload = Payload(kind, q)
  <2>1. HoldsToken(tape, s, p, q)
    BY DEF TapeIs, Holds
  <2> QED
    BY <1>2, <1>3, <2>1, TokenNames DEF HoldsToken
<1>5. ScalarWords(kind, q)[1].type =
        CASE kind = "string" -> "quote" [] kind = "true" -> "t" [] kind = "false" -> "f"
          [] kind = "null" -> "n" [] kind \in {"narrow", "wide"} -> "l"
          [] kind = "real" -> "d"
  BY <1>4 DEF ScalarWords, Word, Number
<1>6. Walker!TypeOf(word) = ShownAs[kind]
  BY <1>4, <1>5 DEF Walker!TypeOf, ShownAs
<1>7. word.type \notin Closing /\ word.type \notin Walker!Opening
  BY <1>4, <1>5, WalkKinds
<1>8. Width(kind) = IF word.type \in {"d", "l"} THEN 2 ELSE 1
  BY <1>4, <1>5 DEF Width, NumberKind
<1>9. Walker!NextLocation(it) = IF word.type \in {"d", "l"} THEN p[q] + 2 ELSE p[q] + 1
  BY <1>1, <1>7 DEF Walker!NextLocation
<1> QED
  BY <1>1, <1>2, <1>3, <1>4, <1>6, <1>7, <1>8, <1>9

LEMMA OpeningWord ==
  ASSUME NEW s, NEW p, TapeIs(s, p), NEW q \in 1 .. Len(s), NEW kind \in Container,
         s[q] = Opener[kind], NEW it, it.location = p[q]
  PROVE  /\ Walker!TypeOf(Walker!At(it)) = kind
         /\ Walker!At(it).type \in Opening /\ Walker!At(it).type \notin Closing
         /\ p[q + 1] = p[q] + 1
<1>1. PICK word : word = Walker!At(it)
  OBVIOUS
<1>2. /\ word = Cell(tape, p[q])
      /\ p[q + 1] = p[q] + Width(s[q])
  BY <1>1, PlaceNext DEF Walker!At, Walker!WordAt, Cell
<1>3. s[q] \in Opening /\ s[q] \notin Closing /\ Width(s[q]) = 1
  BY TokenNames DEF Width, NumberKind
<1>4. word.type = s[q]
  BY <1>2, <1>3 DEF TapeIs, Holds, HoldsToken
<1>5. Walker!TypeOf(word) = kind
  BY <1>4, TokenNames DEF Walker!TypeOf
<1> QED
  BY <1>1, <1>2, <1>3, <1>4, <1>5

LEMMA ClosedWord ==
  ASSUME NEW s, NEW p, TapeIs(s, p), NEW q \in 1 .. Len(s), CloserRead(Run(s), s, q),
         NEW it, it.location = p[Inner(Run(s)[q - 1]).at]
  PROVE  /\ Walker!At(it).value = p[q] + 1 /\ p[q + 1] = p[q] + 1
         /\ Walker!NextLocation(it) = p[q + 1]
         /\ Cell(tape, p[q]).type \in Closing
         /\ s[q] \in Closing
<1>1. PICK word : word = Walker!At(it)
  OBVIOUS
<1>2. PICK o : o = Inner(Run(s)[q - 1]).at
  OBVIOUS
<1>3. Run(s)[q - 1].open # <<>>
  BY DEF CloserRead, CloserNext
<1>4. o \in 1 .. q - 1 /\ s[o] \in Opening
  BY <1>2, <1>3, BracketOf DEF TapeIs
<1>5. o \in 1 .. Len(s) /\ Len(s) \in Nat
  BY <1>4 DEF TapeIs
<1>6. word = Cell(tape, p[o]) /\ p[q] \in Nat /\ p[q + 1] = p[q] + Width(s[q])
  BY <1>1, <1>2, PlaceNext DEF Walker!At, Walker!WordAt, Cell
<1>7. word.type \in Opening
  BY <1>4, <1>5, <1>6 DEF TapeIs, Holds, HoldsToken
<1>8. HoldsToken(tape, s, p, q)
  BY DEF TapeIs, Holds
<1>9. word.value = p[q] + 1 /\ Cell(tape, p[q]).type = s[q]
  BY <1>2, <1>6, <1>8 DEF HoldsToken
<1>10. s[q] \in Closing
  <2>1. IsState(Run(s)[q - 1])
    BY <1>5, RunStates
  <2>2. Inner(Run(s)[q - 1]).kind \in Container
    BY <1>3, <2>1, InnerFacts
  <2> QED
    BY <2>2, TokenNames DEF CloserRead, CloserNext
<1>11. Width(s[q]) = 1
  BY <1>10, TokenNames DEF Width, NumberKind
<1>12. Walker!NextLocation(it) = word.value
  BY <1>1, <1>7, WalkKinds DEF Walker!NextLocation
<1> QED
  BY <1>1, <1>6, <1>9, <1>10, <1>11, <1>12

\* What is said of an event, by the way it was read.
LEMMA ScalarShown ==
  ASSUME NEW s, NEW r, r = Run(s), NEW q \in 1 .. Len(s), IsState(r[q - 1]),
         ScalarRead(r, s, q)
  PROVE  /\ s[q] \in ScalarKind /\ ShownType(s, q) = ShownAs[s[q]]
         /\ HostsOf(s, q) = r[q - 1].open /\ \A p : PlaceOf(s, p, q) = p[q]
         /\ r[q].expects = "separator" /\ r[q].open = r[q - 1].open
<1>1. PICK st : st = r[q - 1]
  OBVIOUS
<1>2. s[q] \in ScalarKind /\ r[q] = Expecting(st, "separator")
  BY <1>1 DEF ScalarRead
<1>3. r[q].expects = "separator" /\ r[q].open = st.open
  BY <1>1, <1>2 DEF Expecting, IsState
<1> QED
  BY <1>1, <1>2, <1>3, TokenNames DEF ShownType, HostsOf, PlaceOf

LEMMA KeyShown ==
  ASSUME NEW s, NEW r, r = Run(s), NEW q \in 1 .. Len(s), IsState(r[q - 1]),
         KeyRead(r, s, q)
  PROVE  /\ s[q] \in ScalarKind /\ ShownType(s, q) = "key" /\ s[q] = "string"
         /\ HostsOf(s, q) = r[q - 1].open /\ \A p : PlaceOf(s, p, q) = p[q]
         /\ r[q].expects = "colon" /\ r[q].open = r[q - 1].open
         /\ r[q].open # <<>> /\ Inner(r[q]).kind = "object"
<1>1. PICK st : st = r[q - 1]
  OBVIOUS
<1>2. s[q] = "string" /\ r[q] = Expecting(st, "colon") /\ KeyNext(st)
  BY <1>1 DEF KeyRead
<1>3. r[q].expects = "colon" /\ r[q].open = st.open
  BY <1>1, <1>2 DEF Expecting, IsState
<1>4. st.open # <<>> /\ Inner(st).kind = "object"
  BY <1>1, <1>2 DEF KeyNext, IsState
<1>5. Inner(r[q]) = Inner(st)
  BY <1>3 DEF Inner
<1> QED
  BY <1>1, <1>2, <1>3, <1>4, <1>5, TokenNames DEF ShownType, HostsOf, PlaceOf

LEMMA BracketShown ==
  ASSUME NEW s, NEW r, r = Run(s), NEW q \in 1 .. Len(s), IsState(r[q - 1]),
         BracketRead(r, s, q)
  PROVE  /\ \E kind \in Container :
              /\ s[q] = Opener[kind] /\ ShownType(s, q) = kind
              /\ HostsOf(s, q) = r[q - 1].open /\ \A p : PlaceOf(s, p, q) = p[q]
              /\ r[q] = Deeper(r[q - 1], kind, q)
         /\ r[q].expects = "first"
<1>1. PICK st : st = r[q - 1]
  OBVIOUS
<1>2. PICK kind \in Container : s[q] = Opener[kind] /\ r[q] = Deeper(st, kind, q)
  BY <1>1 DEF BracketRead
<1>3. ShownType(s, q) = kind /\ s[q] \notin Closing
  BY <1>2, TokenNames DEF ShownType
<1>4. r[q].expects = "first"
  BY <1>2 DEF Deeper
<1> QED
  BY <1>1, <1>2, <1>3, <1>4 DEF HostsOf, PlaceOf

LEMMA CloserShown ==
  ASSUME NEW s, NEW r, r = Run(s), NEW q \in 1 .. Len(s), IsState(r[q - 1]),
         CloserRead(r, s, q)
  PROVE  /\ s[q] \in Closing /\ ShownType(s, q) = "end_of_container"
         /\ r[q - 1].open # <<>>
         /\ HostsOf(s, q) = Front(r[q - 1].open)
         /\ \A p : PlaceOf(s, p, q) = p[Inner(r[q - 1]).at]
         /\ r[q].expects = "separator" /\ r[q].open = Front(r[q - 1].open)
<1>1. PICK st : st = r[q - 1]
  OBVIOUS
<1>2. /\ r[q] = Shallower(st) /\ st.open # <<>>
      /\ s[q] = Closer[Inner(st).kind]
  BY <1>1 DEF CloserRead, CloserNext
<1>3. s[q] \in Closing
  BY <1>1, <1>2, InnerFacts, TokenNames
<1>4. r[q].expects = "separator" /\ r[q].open = Front(st.open)
  BY <1>2 DEF Shallower
<1> QED
  BY <1>1, <1>2, <1>3, <1>4, TokenNames DEF ShownType, HostsOf, PlaceOf

-----------------------------------------------------------------------------
\* What the traverser has to do to show an event.
LEMMA Arrives ==
  ASSUME NEW s, NEW p, NEW q \in 1 .. Len(s), IsEvent(s, q), NEW open,
         ShownType(s, q) # "end_of_container",
         HostsOf(s, q) = open, PlaceOf(s, p, q) = p[q],
         current_type' = ShownType(s, q),
         Located(p, iterator', p[q], open), StackIs(container_stack', open)
  PROVE  WalkReads(s, p, q)'
<1>1. Walker!Outside' = iterator' /\ Walker!Around' = container_stack'
  BY DEF Walker!Outside, Walker!Around
<1>2. /\ q \in 1 .. Len(s) /\ IsEvent(s, q)
      /\ current_type' = ShownType(s, q)
      /\ Located(p, Walker!Outside', PlaceOf(s, p, q), HostsOf(s, q))
      /\ StackIs(Walker!Around', HostsOf(s, q))
  BY <1>1
<1> QED
  BY <1>2 DEF WalkReads

LEMMA Leaves ==
  ASSUME NEW s, NEW p, NEW q \in 1 .. Len(s), IsEvent(s, q),
         NEW st, IsState(st), st.open # <<>>,
         ShownType(s, q) = "end_of_container",
         HostsOf(s, q) = Front(st.open), PlaceOf(s, p, q) = p[Inner(st).at],
         p[Inner(st).at] \in Nat,
         current_type' = "end_of_container",
         NEW place, Located(p, iterator', place, st.open),
         StackIs(container_stack', st.open)
  PROVE  WalkReads(s, p, q)'
<1>1. PICK starts : starts = iterator'.start_of_scope
  OBVIOUS
<1>2. PICK infos : infos = container_stack'
  OBVIOUS
<1>3. PICK open \in Seq(Scopes) : open = st.open
  BY DEF IsState
<1>4. open # <<>> /\ StartsAre(p, starts, open) /\ StackIs(infos, open)
  BY <1>1, <1>2, <1>3 DEF Located
<1>5. /\ StartsAre(p, Front(starts), Front(open))
      /\ Len(starts) # 1
      /\ Last(starts) = p[Last(open).at] + 1
      /\ StackIs(Front(infos), Front(open))
      /\ infos # <<>> /\ Last(infos) = [type |-> Last(open).kind, is_empty |-> FALSE]
  BY <1>4, ScopePopped
<1>6. ~Last(infos).is_empty
  BY <1>5
<1>7. /\ Walker!Around' = Front(infos)
      /\ Walker!Outside' = Walker!Up(iterator')
  BY <1>2, <1>6 DEF Walker!Around, Walker!Outside, Walker!Front, Front, Walker!Last, Last,
                    Walker!Up, Walker!Depth
<1>8. Walker!Up(iterator') =
        [location |-> Last(starts) - 1, start_of_scope |-> Front(starts)]
  <2>1. Len(starts) # 1
    BY <1>5
  <2> QED
    BY <1>1, <2>1 DEF Walker!Up, Walker!Depth, Walker!Front, Front, Walker!Last, Last
<1>9. Inner(st) = Last(open)
  BY <1>3 DEF Inner
<1>10. Last(starts) - 1 = p[Inner(st).at]
  <2>1. PICK v \in Nat : v = p[Inner(st).at]
    OBVIOUS
  <2>2. Last(starts) = v + 1
    BY <1>5, <1>9, <2>1
  <2> QED
    BY <2>1, <2>2
<1>11. PICK it : it = Walker!Up(iterator')
  OBVIOUS
<1>12. it.location = p[Inner(st).at] /\ it.start_of_scope = Front(starts)
       /\ it = [location |-> p[Inner(st).at], start_of_scope |-> it.start_of_scope]
  BY <1>8, <1>10, <1>11
<1>13. Located(p, it, PlaceOf(s, p, q), HostsOf(s, q))
  BY <1>3, <1>5, <1>12 DEF Located
<1>14. /\ q \in 1 .. Len(s) /\ IsEvent(s, q)
       /\ current_type' = ShownType(s, q)
       /\ Located(p, Walker!Outside', PlaceOf(s, p, q), HostsOf(s, q))
       /\ StackIs(Walker!Around', HostsOf(s, q))
  BY <1>3, <1>5, <1>7, <1>11, <1>13
<1> QED
  BY <1>14 DEF WalkReads

\* An empty container is shown to end without having been entered.
LEMMA EndsAtOnce ==
  ASSUME NEW s, NEW p, NEW q \in 1 .. Len(s), IsEvent(s, q),
         ShownType(s, q) = "end_of_container",
         NEW open, HostsOf(s, q) = open, NEW place, PlaceOf(s, p, q) = place,
         current_type' = "end_of_container",
         Located(p, iterator', place, open),
         NEW infos, StackIs(infos, open), NEW type \in Container,
         container_stack' = Append(infos, [type |-> type, is_empty |-> TRUE])
  PROVE  WalkReads(s, p, q)'
<1>1. PICK info : info = [type |-> type, is_empty |-> TRUE]
  OBVIOUS
<1>2. info \in Infos /\ info.is_empty
  BY <1>1 DEF Infos
<1>3. infos \in Seq(Infos)
  BY DEF StackIs
<1>4. PICK all : all = Append(infos, info)
  OBVIOUS
<1>5. Front(all) = infos
  BY <1>2, <1>3, <1>4, FrontOfAppend
<1>6. /\ Len(all) = Len(infos) + 1 /\ all[Len(infos) + 1] = info
      /\ Len(infos) \in Nat
  BY <1>2, <1>3, <1>4, AppendProperties, LenProperties
<1>7. Last(all) = info
  BY <1>6 DEF Last
<1>8. container_stack' = all /\ Last(all).is_empty
  BY <1>1, <1>2, <1>4, <1>7
<1>9. Walker!Around' = Front(all) /\ Walker!Outside' = iterator'
  BY <1>8 DEF Walker!Around, Walker!Outside, Walker!Front, Front, Walker!Last, Last
<1>10. /\ q \in 1 .. Len(s) /\ IsEvent(s, q)
       /\ current_type' = ShownType(s, q)
       /\ Located(p, Walker!Outside', PlaceOf(s, p, q), HostsOf(s, q))
       /\ StackIs(Walker!Around', HostsOf(s, q))
  BY <1>5, <1>9
<1> QED
  BY <1>10 DEF WalkReads

-----------------------------------------------------------------------------
\* The word of a value or a key shows it, once the iterator is there.
LEMMA WordShows ==
  ASSUME NEW s, NEW p, TapeIs(s, p), NEW r, r = Run(s), NEW e \in 1 .. Len(s),
         ScalarRead(r, s, e) \/ BracketRead(r, s, e) \/ KeyRead(r, s, e),
         NEW it, it.location = p[e]
  PROVE  /\ Walker!At(it).type \notin Closing
         /\ ~KeyRead(r, s, e) => Walker!TypeOf(Walker!At(it)) = ShownType(s, e)
         /\ KeyRead(r, s, e) => ShownType(s, e) = "key"
         /\ ShownType(s, e) # "end_of_container"
         /\ HostsOf(s, e) = r[e - 1].open /\ PlaceOf(s, p, e) = p[e]
<1>1. IsState(r[e - 1])
  BY RunStates DEF TapeIs
<1>2. CASE ScalarRead(r, s, e)
  <2>1. /\ s[e] \in ScalarKind /\ ShownType(s, e) = ShownAs[s[e]]
        /\ HostsOf(s, e) = r[e - 1].open /\ PlaceOf(s, p, e) = p[e]
        /\ r[e].expects = "separator"
    BY <1>1, <1>2, ScalarShown
  <2>2. ~KeyRead(r, s, e)
    BY <1>1, <2>1 DEF KeyRead, Expecting, IsState
  <2>3. s[e] # "huge"
    BY <2>1 DEF TapeIs, Holds, HoldsToken
  <2>4. ShownAs[s[e]] # "end_of_container"
    BY <2>1, <2>3, TokenNames DEF ShownAs
  <2>5. /\ Walker!At(it).type \notin Closing
        /\ Walker!TypeOf(Walker!At(it)) = ShownAs[s[e]]
    BY <2>1, ScalarWord
  <2> QED
    BY <2>1, <2>2, <2>4, <2>5
<1>3. CASE BracketRead(r, s, e)
  <2>1. PICK kind \in Container :
          /\ s[e] = Opener[kind] /\ ShownType(s, e) = kind
          /\ HostsOf(s, e) = r[e - 1].open /\ PlaceOf(s, p, e) = p[e]
    BY <1>1, <1>3, BracketShown
  <2>2. ~KeyRead(r, s, e)
    BY <2>1, TokenNames DEF KeyRead
  <2>3. kind # "end_of_container"
    BY TokenNames
  <2>4. /\ Walker!At(it).type \notin Closing
        /\ Walker!TypeOf(Walker!At(it)) = kind
    BY <2>1, OpeningWord
  <2> QED
    BY <2>1, <2>2, <2>3, <2>4
<1>4. CASE KeyRead(r, s, e)
  <2>1. /\ s[e] \in ScalarKind /\ ShownType(s, e) = "key"
        /\ HostsOf(s, e) = r[e - 1].open /\ PlaceOf(s, p, e) = p[e]
    BY <1>1, <1>4, KeyShown
  <2>2. Walker!At(it).type \notin Closing
    BY <2>1, ScalarWord
  <2> QED
    BY <1>4, <2>1, <2>2
<1> QED
  BY <1>2, <1>3, <1>4

\* After an event that opened nothing, the iterator is about to pass it.
Passing(s, p, q) ==
  /\ Walker!Outside = [location |-> Walker!Outside.location,
                       start_of_scope |-> Walker!Outside.start_of_scope]
  /\ Walker!NextLocation(Walker!Outside) = p[q + 1]
  /\ StartsAre(p, Walker!Outside.start_of_scope, Run(s)[q].open)
  /\ StackIs(Walker!Around, Run(s)[q].open)
  /\ current_type \notin Container \cup {"none"}
  /\ current_type = "key" <=> Run(s)[q].expects = "colon"

LEMMA PassingEvent ==
  ASSUME NEW s, NEW p, TapeIs(s, p), NEW q \in 1 .. Len(s), WalkReads(s, p, q),
         Run(s)[q].expects # "first"
  PROVE  Passing(s, p, q)
<1>1. PICK r : r = Run(s)
  OBVIOUS
<1>2. /\ IsEvent(s, q) /\ current_type = ShownType(s, q)
      /\ Located(p, Walker!Outside, PlaceOf(s, p, q), HostsOf(s, q))
      /\ StackIs(Walker!Around, HostsOf(s, q))
  BY DEF WalkReads
<1>3. PICK it : it = Walker!Outside
  OBVIOUS
<1>4. IsState(Run(s)[q - 1]) /\ Len(s) \in Nat
  BY RunStates DEF TapeIs
<1>5. ScalarRead(r, s, q) \/ BracketRead(r, s, q) \/ KeyRead(r, s, q) \/ CloserRead(r, s, q)
  <2>1. PICK last \in 0 .. Len(s) : last = Len(s)
    BY <1>4
  <2> QED
    BY <1>1, <1>2, <1>4, <2>1, EventIs DEF TapeIs
<1>6. ~BracketRead(r, s, q)
  <2>1. BracketRead(r, s, q) => r[q].expects = "first"
    BY DEF BracketRead, Deeper
  <2> QED
    BY <1>1, <2>1
<1>7. it.location = PlaceOf(s, p, q)
  BY <1>2, <1>3 DEF Located
<1>8. /\ HostsOf(s, q) = r[q].open /\ Walker!NextLocation(it) = p[q + 1]
      /\ ShownType(s, q) \notin Container \cup {"none"}
      /\ ShownType(s, q) = "key" <=> r[q].expects = "colon"
  <2>1. CASE ScalarRead(r, s, q)
    <3>1. /\ s[q] \in ScalarKind /\ ShownType(s, q) = ShownAs[s[q]]
          /\ HostsOf(s, q) = r[q - 1].open /\ PlaceOf(s, p, q) = p[q]
          /\ r[q].expects = "separator" /\ r[q].open = r[q - 1].open
      BY <1>1, <1>4, <2>1, ScalarShown
    <3>2. Walker!NextLocation(it) = p[q + 1]
      BY <1>7, <3>1, ScalarWord
    <3>3. s[q] # "huge"
      BY <3>1 DEF TapeIs, Holds, HoldsToken
    <3>4. ShownAs[s[q]] \notin Container \cup {"none", "key"}
      BY <3>1, <3>3, TokenNames DEF ShownAs
    <3> QED
      BY <3>1, <3>2, <3>4
  <2>2. CASE KeyRead(r, s, q)
    <3>1. /\ s[q] \in ScalarKind /\ ShownType(s, q) = "key"
          /\ HostsOf(s, q) = r[q - 1].open /\ PlaceOf(s, p, q) = p[q]
          /\ r[q].expects = "colon" /\ r[q].open = r[q - 1].open
      BY <1>1, <1>4, <2>2, KeyShown
    <3>2. Walker!NextLocation(it) = p[q + 1]
      BY <1>7, <3>1, ScalarWord
    <3> QED
      BY <3>1, <3>2, TokenNames
  <2>3. CASE CloserRead(r, s, q)
    <3>1. /\ ShownType(s, q) = "end_of_container"
          /\ HostsOf(s, q) = Front(r[q - 1].open)
          /\ PlaceOf(s, p, q) = p[Inner(r[q - 1]).at]
          /\ r[q].expects = "separator" /\ r[q].open = Front(r[q - 1].open)
      BY <1>1, <1>4, <2>3, CloserShown
    <3>2. Walker!NextLocation(it) = p[q + 1]
      BY <1>1, <1>7, <2>3, <3>1, ClosedWord
    <3> QED
      BY <3>1, <3>2, TokenNames
  <2> QED
    BY <1>5, <1>6, <2>1, <2>2, <2>3
<1> QED
  BY <1>1, <1>2, <1>3, <1>8 DEF Passing, Located

\* A call that is not in front of a container.
LEMMA CallMovesOn ==
  ASSUME NEW s, NEW p, NEW q, Passing(s, p, q), Walker!CallNext
  PROVE  /\ Run(s)[q].open = <<>> =>
              current_type' = "end_of_document" /\ container_stack' = <<>>
         /\ Run(s)[q].open # <<>> =>
              /\ container_stack' = Walker!Around
              /\ \/ /\ Cell(tape, p[q + 1]).type \in Closing
                    /\ iterator' = Walker!Outside
                    /\ current_type' = "end_of_container"
                 \/ /\ Cell(tape, p[q + 1]).type \notin Closing
                    /\ iterator' = [location |-> p[q + 1],
                                    start_of_scope |-> Walker!Outside.start_of_scope]
                    /\ current_type' =
                         IF Last(Walker!Around).type = "object" /\ current_type # "key"
                           THEN "key" ELSE Walker!TypeOf(Walker!At(iterator'))
<1>1. PICK it : it = Walker!Outside
  OBVIOUS
<1>2. PICK infos : infos = Walker!Around
  OBVIOUS
<1>3. /\ it = [location |-> it.location, start_of_scope |-> it.start_of_scope]
      /\ Walker!NextLocation(it) = p[q + 1]
  BY <1>1 DEF Passing
<1>4. infos = <<>> <=> Run(s)[q].open = <<>>
  <2>1. Len(infos) = Len(Run(s)[q].open) /\ infos \in Seq(Infos)
    BY <1>2 DEF Passing, StackIs
  <2> QED
    BY <2>1, EmptySeq
<1>5. ~Walker!Enter /\ (Walker!DocumentEnds \/ Walker!ContainerEnds \/ Walker!NextWord)
  BY WalkKinds DEF Passing, Walker!CallNext, Walker!Enter
<1>6. Walker!HasNext(it) <=> Cell(tape, p[q + 1]).type \notin Closing
  BY <1>3, WalkKinds DEF Walker!HasNext, Walker!WordAt, Cell
<1>7. Walker!Following(it) = [location |-> p[q + 1], start_of_scope |-> it.start_of_scope]
  BY <1>3 DEF Walker!Following
<1>8. CASE Walker!DocumentEnds
  BY <1>1, <1>2, <1>4, <1>8 DEF Walker!DocumentEnds, Walker!MoveOn
<1>9. CASE Walker!ContainerEnds
  BY <1>1, <1>2, <1>4, <1>6, <1>9 DEF Walker!ContainerEnds, Walker!MoveOn
<1>10. CASE Walker!NextWord
  BY <1>1, <1>2, <1>4, <1>6, <1>7, <1>10
     DEF Walker!NextWord, Walker!MoveOn, Walker!Last, Last
<1> QED
  BY <1>5, <1>8, <1>9, <1>10

\* The next word is shown as the event that it is of.
LEMMA WordArrives ==
  ASSUME NEW s, NEW p, TapeIs(s, p), NEW r, r = Run(s), NEW e \in 1 .. Len(s),
         IsEvent(s, e), ScalarRead(r, s, e) \/ BracketRead(r, s, e) \/ KeyRead(r, s, e),
         NEW starts, StartsAre(p, starts, r[e - 1].open),
         iterator' = [location |-> p[e], start_of_scope |-> starts],
         StackIs(container_stack', r[e - 1].open),
         current_type' = IF KeyRead(r, s, e) THEN "key"
                         ELSE Walker!TypeOf(Walker!At(iterator'))
  PROVE  WalkReads(s, p, e)'
<1>1. PICK it : it = iterator'
  OBVIOUS
<1>2. it.location = p[e] /\ it.start_of_scope = starts
  BY <1>1
<1>3. /\ ~KeyRead(r, s, e) => Walker!TypeOf(Walker!At(it)) = ShownType(s, e)
      /\ KeyRead(r, s, e) => ShownType(s, e) = "key"
      /\ ShownType(s, e) # "end_of_container"
      /\ HostsOf(s, e) = r[e - 1].open /\ PlaceOf(s, p, e) = p[e]
  BY <1>2, WordShows
<1>4. current_type' = ShownType(s, e)
  BY <1>1, <1>3
<1>5. Located(p, iterator', p[e], r[e - 1].open)
  BY <1>1, <1>2 DEF Located
<1> QED
  BY <1>3, <1>4, <1>5, Arrives

LEMMA KeyMoves ==
  ASSUME NEW s, NEW p, TapeIs(s, p), NEW q \in 1 .. Len(s), Passing(s, p, q),
         Run(s)[q].expects = "colon", Walker!CallNext
  PROVE  WalkReads(s, p, NextEvent(s, q))'
<1>1. PICK r : r = Run(s)
  OBVIOUS
<1>2. PICK last \in Nat : last = Len(s)
  BY DEF TapeIs
<1>3. PICK e : e = q + 2
  OBVIOUS
<1>4. /\ e \in 1 .. last /\ NextEvent(s, q) = e /\ IsEvent(s, e)
      /\ s[q + 1] = "colon"
      /\ r[q + 1] = Expecting(r[q], "value")
      /\ ScalarRead(r, s, e) \/ BracketRead(r, s, e)
  <2>1. last \in 0 .. Len(s) /\ IsWhole(r[last]) /\ q \in 1 .. last
    BY <1>1, <1>2 DEF TapeIs
  <2> QED
    BY <1>1, <1>2, <1>3, <2>1, AfterKey
<1>5. p[e] = p[q + 1] /\ q + 1 = e - 1
  <2>1. q + 1 \in 1 .. Len(s) /\ q + 1 + 1 = e
    BY <1>2, <1>3, <1>4
  <2>2. p[e] = p[q + 1] + Width(s[q + 1]) /\ p[q + 1] \in Nat
    BY <2>1, PlaceNext
  <2>3. Width(s[q + 1]) = 0
    BY <1>4 DEF Width, NumberKind
  <2> QED
    BY <1>3, <2>2, <2>3
<1>6. IsState(r[q]) /\ r[q].open # <<>> /\ r[e - 1].open = r[q].open
  <2>1. IsState(r[q])
    BY <1>1, RunStates DEF TapeIs
  <2>2. r[q].open # <<>>
    BY <1>1, <2>1 DEF IsState
  <2>3. Expecting(r[q], "value").open = r[q].open
    BY <2>1 DEF Expecting, IsState
  <2> QED
    BY <1>4, <1>5, <2>1, <2>2, <2>3
<1>7. ~KeyRead(r, s, e)
  <2>0. e \in 1 .. Len(s) /\ e - 1 \in 0 .. Len(s) /\ Len(s) \in Nat
    BY <1>2, <1>4
  <2>1. IsState(r[e - 1])
    BY <1>1, <2>0, RunStates
  <2>2. ScalarRead(r, s, e) => r[e].expects = "separator"
    BY <1>1, <2>0, <2>1, ScalarShown
  <2>3. BracketRead(r, s, e) => r[e].expects = "first"
    BY DEF BracketRead, Deeper
  <2>4. KeyRead(r, s, e) => r[e].expects = "colon"
    BY <1>1, <2>0, <2>1, KeyShown
  <2> QED
    BY <1>4, <2>2, <2>3, <2>4
<1>8. PICK it : it = [location |-> p[e], start_of_scope |-> Walker!Outside.start_of_scope]
  OBVIOUS
<1>9. e \in 1 .. Len(s) /\ it.location = p[e]
  BY <1>2, <1>4, <1>8
<1>10. Cell(tape, p[e]).type \notin Closing
  <2>1. Walker!At(it).type \notin Closing
    BY <1>1, <1>4, <1>9, WordShows
  <2> QED
    BY <1>9, <2>1 DEF Walker!At, Walker!WordAt, Cell
<1>11. current_type = "key" /\ StackIs(Walker!Around, r[e - 1].open)
       /\ StartsAre(p, Walker!Outside.start_of_scope, r[e - 1].open)
  BY <1>1, <1>6 DEF Passing
<1>12. /\ container_stack' = Walker!Around
       /\ iterator' = [location |-> p[e], start_of_scope |-> Walker!Outside.start_of_scope]
       /\ current_type' = Walker!TypeOf(Walker!At(iterator'))
  BY <1>1, <1>5, <1>6, <1>10, <1>11, CallMovesOn
<1>13. WalkReads(s, p, e)'
  BY <1>1, <1>4, <1>7, <1>9, <1>11, <1>12, WordArrives
<1> QED
  BY <1>4, <1>13

LEMMA ValueMoves ==
  ASSUME NEW s, NEW p, TapeIs(s, p), NEW q \in 1 .. Len(s), Passing(s, p, q),
         Run(s)[q].expects = "separator", Walker!CallNext
  PROVE  WalkReads(s, p, NextEvent(s, q))'
<1>1. PICK r : r = Run(s)
  OBVIOUS
<1>2. PICK last \in Nat : last = Len(s)
  BY DEF TapeIs
<1>3. IsState(r[q]) /\ IsWhole(r[last]) /\ last \in 0 .. Len(s) /\ q \in 1 .. last
  BY <1>1, <1>2, RunStates DEF TapeIs
<1>4. CASE IsWhole(r[q])
  <2>1. NextEvent(s, q) = 0 /\ Run(s)[q].open = <<>>
    BY <1>1, <1>4 DEF NextEvent, IsWhole
  <2>2. current_type' = "end_of_document" /\ container_stack' = <<>>
    BY <2>1, CallMovesOn
  <2> QED
    BY <2>1, <2>2 DEF WalkReads
<1>5. CASE /\ q + 1 \in 1 .. last /\ NextEvent(s, q) = q + 1 /\ IsEvent(s, q + 1)
           /\ CloserRead(r, s, q + 1)
  <2>1. PICK e : e = q + 1
    OBVIOUS
  <2>2. /\ e \in 1 .. Len(s) /\ e - 1 = q /\ NextEvent(s, q) = e /\ IsEvent(s, e)
        /\ CloserRead(r, s, e)
    BY <1>2, <1>5, <2>1
  <2>3. /\ ShownType(s, e) = "end_of_container"
        /\ r[q].open # <<>>
        /\ HostsOf(s, e) = Front(r[q].open)
        /\ PlaceOf(s, p, e) = p[Inner(r[q]).at]
    BY <1>1, <1>3, <2>2, CloserShown
  <2>4. PICK v : v = p[Inner(r[q]).at]
    OBVIOUS
  <2>5. v \in Nat
    <3>1. PICK o : o = Inner(r[q]).at
      OBVIOUS
    <3>2. o \in 1 .. e - 1
      BY <1>1, <2>2, <2>3, <3>1, BracketOf DEF TapeIs
    <3>3. o \in 1 .. Len(s)
      BY <1>2, <2>2, <3>2
    <3> QED
      BY <2>4, <3>1, <3>3, PlaceNext
  <2>6. Cell(tape, p[e]).type \in Closing
    <3>1. PICK it : it = [location |-> v]
      OBVIOUS
    <3> QED
      BY <1>1, <2>2, <2>4, <3>1, ClosedWord
  <2>7. /\ container_stack' = Walker!Around /\ iterator' = Walker!Outside
        /\ current_type' = "end_of_container"
    BY <1>1, <2>1, <2>3, <2>6, CallMovesOn
  <2>8. PICK place : place = Walker!Outside.location
    OBVIOUS
  <2>9. Located(p, iterator', place, r[q].open) /\ StackIs(container_stack', r[q].open)
    BY <1>1, <2>7, <2>8 DEF Passing, Located
  <2>10. WalkReads(s, p, e)'
    BY <1>3, <2>2, <2>3, <2>4, <2>5, <2>7, <2>9, Leaves
  <2> QED
    BY <2>2, <2>10
<1>6. CASE /\ q + 2 \in 1 .. last /\ NextEvent(s, q) = q + 2 /\ IsEvent(s, q + 2)
           /\ s[q + 1] = "comma"
           /\ r[q].open # <<>> /\ r[q + 1] = Onward(r[q])
           /\ \/ ScalarRead(r, s, q + 2) \/ BracketRead(r, s, q + 2)
              \/ KeyRead(r, s, q + 2)
           /\ KeyRead(r, s, q + 2) <=> Inner(r[q]).kind = "object"
  <2>1. PICK e : e = q + 2
    OBVIOUS
  <2>2. /\ e \in 1 .. Len(s) /\ e - 1 = q + 1 /\ NextEvent(s, q) = e /\ IsEvent(s, e)
        /\ r[e - 1] = Onward(r[q]) /\ r[q].open # <<>>
        /\ ScalarRead(r, s, e) \/ BracketRead(r, s, e) \/ KeyRead(r, s, e)
        /\ KeyRead(r, s, e) <=> Inner(r[q]).kind = "object"
    BY <1>2, <1>6, <2>1
  <2>3. p[e] = p[q + 1]
    <3>1. q + 1 \in 1 .. Len(s) /\ q + 1 + 1 = e
      BY <1>2, <2>1, <2>2
    <3>2. p[e] = p[q + 1] + Width(s[q + 1]) /\ p[q + 1] \in Nat
      BY <3>1, PlaceNext
    <3>3. Width(s[q + 1]) = 0
      BY <1>6 DEF Width, NumberKind
    <3> QED
      BY <3>2, <3>3
  <2>4. SameScopes(r[q].open, r[e - 1].open)
    <3>1. /\ Len(Onward(r[q]).open) = Len(r[q].open)
          /\ \A m \in 1 .. Len(r[q].open) - 1 : Onward(r[q]).open[m] = r[q].open[m]
          /\ Inner(Onward(r[q])).at = Inner(r[q]).at
          /\ Inner(Onward(r[q])).kind = Inner(r[q]).kind
          /\ Onward(r[q]).open[Len(r[q].open)] = Inner(Onward(r[q]))
      BY <1>3, <2>2, OnwardState
    <3>2. Len(r[q].open) \in Nat \ {0} /\ Inner(r[q]) = r[q].open[Len(r[q].open)]
      BY <1>3, <2>2, InnerFacts
    <3>3. PICK depth \in Nat \ {0} : depth = Len(r[q].open)
      BY <3>2
    <3>4. ASSUME NEW m \in 1 .. depth
          PROVE  /\ r[q].open[m].at = r[e - 1].open[m].at
                 /\ r[q].open[m].kind = r[e - 1].open[m].kind
      <4>1. CASE m = depth
        BY <2>2, <3>1, <3>2, <3>3, <4>1
      <4>2. CASE m # depth
        <5>1. m \in 1 .. depth - 1
          BY <4>2
        <5> QED
          BY <2>2, <3>1, <3>3, <5>1
      <4> QED
        BY <4>1, <4>2
    <3> QED
      BY <2>2, <3>1, <3>3, <3>4 DEF SameScopes
  <2>5. /\ StackIs(Walker!Around, r[e - 1].open)
        /\ StartsAre(p, Walker!Outside.start_of_scope, r[e - 1].open)
    BY <1>1, <2>4, SameStays DEF Passing
  <2>6. current_type # "key" /\ StackIs(Walker!Around, r[q].open)
    BY <1>1 DEF Passing
  <2>7. Last(Walker!Around).type = Inner(r[q]).kind
    <3>1. PICK infos : infos = Walker!Around
      OBVIOUS
    <3>2. PICK depth \in Nat \ {0} : depth = Len(r[q].open)
      BY <1>3, <2>2, InnerFacts
    <3>3. Inner(r[q]) = r[q].open[depth]
      BY <1>3, <2>2, <3>2, InnerFacts
    <3>4. Len(infos) = depth /\ infos[depth] = [type |-> Inner(r[q]).kind, is_empty |-> FALSE]
      BY <2>6, <3>1, <3>2, <3>3 DEF StackIs
    <3> QED
      BY <3>1, <3>4 DEF Last
  <2>8. PICK it : it = [location |-> p[e], start_of_scope |-> Walker!Outside.start_of_scope]
    OBVIOUS
  <2>9. Cell(tape, p[e]).type \notin Closing
    <3>1. it.location = p[e]
      BY <2>8
    <3>2. Walker!At(it).type \notin Closing
      BY <1>1, <2>2, <3>1, WordShows
    <3> QED
      BY <3>1, <3>2 DEF Walker!At, Walker!WordAt, Cell
  <2>10. /\ container_stack' = Walker!Around
         /\ iterator' = [location |-> p[e], start_of_scope |-> Walker!Outside.start_of_scope]
         /\ current_type' = IF KeyRead(r, s, e) THEN "key"
                            ELSE Walker!TypeOf(Walker!At(iterator'))
    BY <1>1, <2>2, <2>3, <2>6, <2>7, <2>9, CallMovesOn
  <2>11. WalkReads(s, p, e)'
    BY <1>1, <2>2, <2>5, <2>10, WordArrives
  <2> QED
    BY <2>2, <2>11
<1> QED
  BY <1>1, <1>2, <1>3, <1>4, <1>5, <1>6, AfterValue

\* A container has something inside unless its end is next.
LEMMA InsideWord ==
  ASSUME NEW s, NEW p, TapeIs(s, p), NEW r, r = Run(s), NEW q \in 1 .. Len(s),
         NEW kind \in Container, s[q] = Opener[kind], r[q] = Deeper(r[q - 1], kind, q),
         NEW e, e = q + 1, e \in 1 .. Len(s),
         NEW it, it.location = p[q]
  PROVE  /\ p[e] = p[q] + 1
         /\ CloserRead(r, s, e) => ~Walker!HasInside(it)
         /\ ScalarRead(r, s, e) \/ BracketRead(r, s, e) \/ KeyRead(r, s, e)
              => Walker!HasInside(it)
<1>1. PICK last \in Nat : last = Len(s)
  BY DEF TapeIs
<1>2. /\ Placing(s, last, p) /\ IsWhole(r[last]) /\ Holds(tape, s, p, last)
      /\ Cell(tape, 0).value = p[last + 1]
      /\ last \in 0 .. Len(s) /\ q \in 1 .. last /\ e \in 1 .. last
      /\ Len(s) \in Nat
  BY <1>1 DEF TapeIs
<1>3. IsState(r[q - 1]) /\ IsState(r[q]) /\ q \in Nat \ {0}
  BY <1>2, RunStates
<1>4. /\ Inner(r[q]).at = q /\ r[q].open # <<>>
      /\ Len(r[q].open) \in Nat \ {0}
      /\ r[q].open[Len(r[q].open)].at = q
  <2>1. Inner(r[q]) = [at |-> q, kind |-> kind, index |-> 0] /\ r[q].expects = "first"
    BY <1>3, DeeperState
  <2>2. r[q].open # <<>>
    BY <1>3, <2>1 DEF IsState
  <2>3. /\ Inner(r[q]) = r[q].open[Len(r[q].open)]
        /\ Len(r[q].open) \in Nat \ {0}
    BY <1>3, <2>2, InnerFacts
  <2> QED
    BY <2>1, <2>2, <2>3
<1>5. p[e] = p[q] + 1 /\ p[q] \in Nat
  BY OpeningWord, PlaceNext
<1>6. PICK value : value = Walker!At(it).value
  OBVIOUS
<1>7. Walker!At(it).type \in Opening
  BY OpeningWord
<1>8. Walker!TapeLength = p[last + 1]
  BY <1>2 DEF Walker!TapeLength, Walker!WordAt, Cell
<1>9. Walker!HasInside(it) <=> p[q] + 1 < p[last + 1] /\ value # p[q] + 2
  BY <1>6, <1>7, <1>8, WalkKinds DEF Walker!HasInside
<1>10. ASSUME CloserRead(r, s, e) PROVE ~Walker!HasInside(it)
  <2>1. it.location = p[Inner(Run(s)[e - 1]).at]
    BY <1>2, <1>4
  <2>2. value = p[e] + 1
    BY <1>6, <1>10, <2>1, ClosedWord
  <2> QED
    BY <1>5, <1>9, <2>2
<1>11. ASSUME ScalarRead(r, s, e) \/ BracketRead(r, s, e) \/ KeyRead(r, s, e)
       PROVE  Walker!HasInside(it)
  <2>1. s[e] \in ScalarKind \cup Opening
    BY <1>11, TokenNames DEF ScalarRead, BracketRead, KeyRead
  <2>2. s[e] \notin Closing /\ Width(s[e]) # 0
    BY <2>1, TokenNames DEF Width, NumberKind
  <2>3. PICK depth \in Nat \ {0} : depth = Len(r[q].open)
    BY <1>4
  <2>4. q \in 0 .. last /\ depth \in 1 .. Len(r[q].open)
    BY <1>2, <2>3
  <2>5. PICK c \in q + 1 .. last :
          /\ CloserNext(r[c - 1], s[c])
          /\ Inner(r[c - 1]).at = r[q].open[depth].at
    <3>1. Len(s) \in Nat /\ r = Run(s) /\ last \in 0 .. Len(s) /\ IsWhole(r[last])
      BY <1>2
    <3>2. PICK m : m = depth
      OBVIOUS
    <3>3. m \in 1 .. Len(r[q].open)
      BY <2>4, <3>2
    <3>4. ClosesLater(r, s, last, q, m)
      BY <2>4, <3>1, <3>3, ClosedLater
    <3> QED
      BY <3>2, <3>4 DEF ClosesLater
  <2>6. c \in 1 .. last /\ c - 1 \in 0 .. last /\ Inner(r[c - 1]).at = q
    BY <1>2, <1>4, <2>3, <2>5
  <2>7. IsState(r[c - 1]) /\ r[c - 1].open # <<>>
    BY <1>2, <2>5, <2>6, RunStates DEF CloserNext
  <2>8. s[c] \in Closing
    BY <2>5, <2>7, InnerFacts, TokenNames DEF CloserNext
  <2>9. TokenReads(r[c - 1], r[c], s[c], c)
    BY <1>2, <2>6, WholeIsLast
  <2>10. CloserRead(r, s, c)
    BY <2>8, <2>9, TokenNames DEF TokenReads, CloserRead
  <2>11. c # e /\ c \in 1 .. Len(s) /\ e < c
    BY <1>1, <2>2, <2>5, <2>6, <2>8
  <2>12. it.location = p[Inner(Run(s)[c - 1]).at]
    BY <2>6
  <2>13. value = p[c] + 1
    BY <1>6, <2>10, <2>11, <2>12, ClosedWord
  <2>14. p[e] < p[c] /\ p[c] \in Nat
    <3>1. e \in 1 .. last + 1 /\ c \in e .. last + 1
      BY <1>2, <2>6, <2>11
    <3> QED
      BY <1>2, <2>2, <2>11, <3>1, PlacesRise
  <2>15. p[e] < p[last + 1] /\ p[last + 1] \in Nat
    <3>1. e \in 1 .. last + 1 /\ last + 1 \in e .. last + 1 /\ e < last + 1
      BY <1>2
    <3> QED
      BY <1>2, <2>2, <3>1, PlacesRise
  <2> QED
    BY <1>5, <1>9, <2>13, <2>14, <2>15
<1> QED
  BY <1>5, <1>10, <1>11

LEMMA BracketMoves ==
  ASSUME NEW s, NEW p, TapeIs(s, p), NEW q \in 1 .. Len(s), WalkReads(s, p, q),
         Run(s)[q].expects = "first", Walker!CallNext
  PROVE  WalkReads(s, p, NextEvent(s, q))'
<1>1. PICK r : r = Run(s)
  OBVIOUS
<1>2. PICK last \in Nat : last = Len(s)
  BY DEF TapeIs
<1>3. /\ IsState(r[q]) /\ IsState(r[q - 1]) /\ IsWhole(r[last]) /\ last \in 0 .. Len(s)
      /\ q \in 1 .. last /\ Len(s) \in Nat /\ IsEvent(s, q)
  <2>1. /\ q \in 1 .. last /\ q \in 0 .. Len(s) /\ q - 1 \in 0 .. Len(s)
        /\ last \in 0 .. Len(s) /\ Len(s) \in Nat
    BY <1>2
  <2>2. IsWhole(r[last])
    BY <1>1, <1>2 DEF TapeIs
  <2>3. IsEvent(s, q)
    BY <2>1 DEF WalkReads
  <2> QED
    BY <1>1, <2>1, <2>2, <2>3, RunStates
<1>4. PICK e : e = q + 1
  OBVIOUS
<1>5. /\ e \in 1 .. Len(s) /\ NextEvent(s, q) = e /\ IsEvent(s, e) /\ e - 1 = q
      /\ ScalarRead(r, s, e) \/ BracketRead(r, s, e) \/ KeyRead(r, s, e)
           \/ CloserRead(r, s, e)
  BY <1>1, <1>2, <1>3, <1>4, AfterBracket
<1>6. BracketRead(r, s, q)
  <2>1. ScalarRead(r, s, q) => r[q].expects = "separator"
    BY <1>1, <1>3, ScalarShown
  <2>2. KeyRead(r, s, q) => r[q].expects = "colon"
    BY <1>1, <1>3, KeyShown
  <2>3. CloserRead(r, s, q) => r[q].expects = "separator"
    BY <1>1, <1>3, CloserShown
  <2>4. ScalarRead(r, s, q) \/ BracketRead(r, s, q) \/ KeyRead(r, s, q)
          \/ CloserRead(r, s, q)
    BY <1>1, <1>3, EventIs
  <2> QED
    BY <1>1, <2>1, <2>2, <2>3, <2>4
<1>7. PICK kind \in Container :
        /\ s[q] = Opener[kind] /\ ShownType(s, q) = kind
        /\ HostsOf(s, q) = r[q - 1].open /\ PlaceOf(s, p, q) = p[q]
        /\ r[q] = Deeper(r[q - 1], kind, q)
  BY <1>1, <1>3, <1>6, BracketShown
<1>8. current_type = kind /\ kind # "end_of_container"
  BY <1>7, TokenNames DEF WalkReads
<1>9. PICK starts : starts = iterator.start_of_scope
  OBVIOUS
<1>10. PICK infos : infos = container_stack
  OBVIOUS
<1>11. /\ iterator = [location |-> p[q], start_of_scope |-> starts]
       /\ iterator.location = p[q]
       /\ StartsAre(p, starts, r[q - 1].open) /\ StackIs(infos, r[q - 1].open)
  <2>1. Walker!Outside = iterator /\ Walker!Around = container_stack
    BY <1>8 DEF Walker!Outside, Walker!Around
  <2> QED
    BY <1>3, <1>7, <1>9, <1>10, <2>1 DEF WalkReads, Located
<1>12. /\ Walker!Enter
       /\ container_stack' =
            Append(infos, [type |-> kind, is_empty |-> ~Walker!HasInside(iterator)])
  <2>1. current_type \in Walker!Container
    BY <1>7, <1>8, WalkKinds
  <2> QED
    BY <1>8, <1>10, <2>1
       DEF Walker!CallNext, Walker!Enter, Walker!DocumentEnds, Walker!ContainerEnds,
           Walker!NextWord, Walker!MoveOn
<1>13. /\ p[e] = p[q] + 1
       /\ CloserRead(r, s, e) => ~Walker!HasInside(iterator)
       /\ ScalarRead(r, s, e) \/ BracketRead(r, s, e) \/ KeyRead(r, s, e)
            => Walker!HasInside(iterator)
  BY <1>1, <1>4, <1>5, <1>7, <1>11, InsideWord
<1>14. CASE CloserRead(r, s, e)
  <2>1. /\ ShownType(s, e) = "end_of_container"
        /\ HostsOf(s, e) = Front(r[q].open)
        /\ PlaceOf(s, p, e) = p[Inner(r[q]).at]
    BY <1>1, <1>3, <1>5, <1>14, CloserShown
  <2>2. Front(r[q].open) = r[q - 1].open /\ Inner(r[q]).at = q
    <3>1. PICK scope : scope = [at |-> q, kind |-> kind, index |-> 0]
      OBVIOUS
    <3>2. scope \in Scopes /\ r[q - 1].open \in Seq(Scopes) /\ q \in Nat \ {0}
      BY <1>3, <3>1 DEF Scopes, IsState
    <3>3. r[q].open = Append(r[q - 1].open, scope)
      BY <1>7, <3>1 DEF Deeper
    <3>4. Inner(r[q]) = [at |-> q, kind |-> kind, index |-> 0]
      BY <1>3, <1>7, <3>2, DeeperState
    <3> QED
      BY <3>2, <3>3, <3>4, FrontOfAppend
  <2>3. ~Walker!HasInside(iterator)
    BY <1>13, <1>14
  <2>4. iterator' = iterator /\ current_type' = "end_of_container"
    BY <1>12, <2>3 DEF Walker!Enter
  <2>5. container_stack' = Append(infos, [type |-> kind, is_empty |-> TRUE])
    BY <1>12, <2>3
  <2>6. Located(p, iterator', p[q], r[q - 1].open)
    BY <1>11, <2>4 DEF Located
  <2>7. HostsOf(s, e) = r[q - 1].open /\ PlaceOf(s, p, e) = p[q]
    BY <2>1, <2>2
  <2>8. WalkReads(s, p, e)'
    BY <1>5, <1>11, <2>1, <2>4, <2>5, <2>6, <2>7, EndsAtOnce
  <2> QED
    BY <1>5, <2>8
<1>15. CASE ScalarRead(r, s, e) \/ BracketRead(r, s, e) \/ KeyRead(r, s, e)
  <2>1. Walker!HasInside(iterator)
    BY <1>13, <1>15
  <2>2. PICK deeper : deeper = Append(starts, p[q] + 1)
    OBVIOUS
  <2>3. /\ iterator' = [location |-> p[e], start_of_scope |-> deeper]
        /\ current_type' = IF kind = "object" THEN "key"
                           ELSE Walker!TypeOf(Walker!At(iterator'))
    BY <1>8, <1>11, <1>12, <1>13, <2>1, <2>2 DEF Walker!Enter, Walker!Down
  <2>4. container_stack' = Append(infos, [type |-> kind, is_empty |-> FALSE])
    BY <1>12, <2>1
  <2>5. p[q] \in Nat /\ q \in Nat \ {0}
    BY <1>3, PlaceNext
  <2>6. /\ StartsAre(p, deeper, r[q].open)
        /\ StackIs(container_stack', r[q].open)
    BY <1>3, <1>7, <1>11, <2>2, <2>4, <2>5, ScopePushed
  <2>7. KeyRead(r, s, e) <=> kind = "object"
    <3>1. Inner(r[q]).kind = kind
      <4>1. Inner(r[q]) = [at |-> q, kind |-> kind, index |-> 0]
        BY <1>3, <1>7, <2>5, DeeperState
      <4> QED
        BY <4>1
    <3>2. KeyRead(r, s, e) => kind = "object"
      BY <1>1, <1>5, <3>1 DEF KeyRead, KeyNext
    <3>3. ScalarRead(r, s, e) \/ BracketRead(r, s, e) => kind = "array"
      BY <1>1, <1>5, <3>1 DEF ScalarRead, BracketRead, ValueNext
    <3> QED
      BY <1>15, <3>2, <3>3
  <2>8. WalkReads(s, p, e)'
    BY <1>1, <1>5, <1>15, <2>3, <2>6, <2>7, WordArrives
  <2> QED
    BY <1>5, <2>8
<1> QED
  BY <1>5, <1>14, <1>15

\* Every call shows the next event of the text.
LEMMA CallShows ==
  ASSUME NEW s, NEW p, TapeIs(s, p), NEW q, WalkReads(s, p, q), Walker!CallNext
  PROVE  WalkReads(s, p, NextEvent(s, q))'
<1>1. CASE /\ q = 0 /\ current_type = "end_of_document" /\ container_stack = <<>>
  <2>1. Walker!Around = <<>> /\ current_type \notin Walker!Container
    BY <1>1, WalkKinds DEF Walker!Around
  <2>2. current_type' = "end_of_document" /\ container_stack' = <<>>
    BY <2>1 DEF Walker!CallNext, Walker!Enter, Walker!DocumentEnds, Walker!ContainerEnds,
                Walker!NextWord, Walker!MoveOn
  <2>3. NextEvent(s, q) = 0
    BY <1>1 DEF NextEvent
  <2> QED
    BY <2>2, <2>3 DEF WalkReads
<1>2. CASE q \in 1 .. Len(s) /\ IsEvent(s, q)
  <2>1. PICK r : r = Run(s)
    OBVIOUS
  <2>2. PICK last \in Nat : last = Len(s)
    BY DEF TapeIs
  <2>3. /\ IsState(r[q - 1]) /\ IsWhole(r[last]) /\ last \in 0 .. Len(s)
        /\ q \in 1 .. last /\ Len(s) \in Nat
    BY <1>2, <2>1, <2>2, RunStates DEF TapeIs
  <2>4. r[q].expects \in {"first", "colon", "separator"}
    <3>1. ScalarRead(r, s, q) => r[q].expects = "separator"
      BY <2>1, <2>3, ScalarShown
    <3>2. KeyRead(r, s, q) => r[q].expects = "colon"
      BY <2>1, <2>3, KeyShown
    <3>3. CloserRead(r, s, q) => r[q].expects = "separator"
      BY <2>1, <2>3, CloserShown
    <3>4. BracketRead(r, s, q) => r[q].expects = "first"
      BY DEF BracketRead, Deeper
    <3>5. ScalarRead(r, s, q) \/ BracketRead(r, s, q) \/ KeyRead(r, s, q)
            \/ CloserRead(r, s, q)
      BY <1>2, <2>1, <2>3, EventIs
    <3> QED
      BY <3>1, <3>2, <3>3, <3>4, <3>5
  <2>5. CASE r[q].expects = "first"
    BY <1>2, <2>1, <2>5, BracketMoves
  <2>6. CASE r[q].expects = "colon"
    <3>1. Passing(s, p, q)
      BY <1>2, <2>1, <2>6, PassingEvent
    <3> QED
      BY <1>2, <2>1, <2>6, <3>1, KeyMoves
  <2>7. CASE r[q].expects = "separator"
    <3>1. Passing(s, p, q)
      BY <1>2, <2>1, <2>7, PassingEvent
    <3> QED
      BY <1>2, <2>1, <2>7, <3>1, ValueMoves
  <2> QED
    BY <2>4, <2>5, <2>6, <2>7
<1> QED
  BY <1>1, <1>2 DEF WalkReads

LEMMA ConstructShows ==
  ASSUME NEW s, NEW p, TapeIs(s, p), Walker!Construct,
         iterator = Walker!AtRoot, container_stack = <<>>
  PROVE  WalkReads(s, p, FirstEvent(s))'
<1>1. PICK r : r = Run(s)
  OBVIOUS
<1>2. PICK last \in Nat : last = Len(s)
  BY DEF TapeIs
<1>3. PICK e : e = FirstEvent(s)
  OBVIOUS
<1>4. /\ e \in 1 .. Len(s) /\ IsEvent(s, e) /\ r[e - 1] = Outset
      /\ ScalarRead(r, s, e) \/ BracketRead(r, s, e)
  <2>1. Len(s) \in Nat /\ last \in 0 .. Len(s) /\ IsWhole(r[last])
    BY <1>1, <1>2 DEF TapeIs
  <2> QED
    BY <1>1, <1>2, <1>3, <2>1, FirstIs
<1>5. p[e] = 1
  <2>1. p[1] = 1
    BY DEF TapeIs, Placing
  <2>2. CASE s[1] = "EF"
    <3>1. e = 2 /\ 1 \in 1 .. Len(s)
      BY <1>2, <1>3, <1>4, <2>2 DEF FirstEvent
    <3>2. p[1 + 1] = p[1] + Width(s[1])
      BY <3>1, PlaceNext
    <3>3. Width(s[1]) = 0
      BY <2>2 DEF Width, NumberKind
    <3> QED
      BY <2>1, <3>1, <3>2, <3>3
  <2>3. CASE s[1] # "EF"
    BY <1>3, <2>1, <2>3 DEF FirstEvent
  <2> QED
    BY <2>2, <2>3
<1>6. ~KeyRead(r, s, e)
  BY <1>4 DEF KeyRead, KeyNext, Outset
<1>7. /\ iterator' = [location |-> p[e], start_of_scope |-> <<1>>]
      /\ container_stack' = <<>>
      /\ current_type' = Walker!TypeOf(Walker!At(iterator'))
  BY <1>5 DEF Walker!Construct, Walker!AtRoot
<1>8. r[e - 1].open = <<>>
  BY <1>4 DEF Outset
<1>9. StartsAre(p, <<1>>, r[e - 1].open)
  <2>1. PICK starts : starts = <<1>>
    OBVIOUS
  <2>2. starts \in Seq(Nat) /\ Len(starts) = 1 /\ starts[1] = 1
    BY <2>1
  <2> QED
    BY <1>8, <2>1, <2>2 DEF StartsAre
<1>10. StackIs(container_stack', r[e - 1].open)
  <2>1. PICK infos : infos = container_stack'
    OBVIOUS
  <2>2. infos = <<>> /\ infos \in Seq(Infos) /\ Len(infos) = 0
    BY <1>7, <2>1
  <2> QED
    BY <1>8, <2>1, <2>2 DEF StackIs
<1>11. WalkReads(s, p, e)'
  BY <1>1, <1>4, <1>6, <1>7, <1>9, <1>10, WordArrives
<1> QED
  BY <1>3, <1>11

\* What is shown is the event.
LEMMA EventIsShown ==
  ASSUME NEW s, NEW p, TapeIs(s, p), NEW q, WalkReads(s, p, q)
  PROVE  Walker!Shown = EventAt(s, q, ShownAs)
<1>1. \A type, payload : Walker!Value(type, payload) = Value(type, payload)
  BY DEF Walker!Value, Value
<1>2. /\ Walker!WithGetter = {"string", "key", "integer", "floating", "boolean"}
      /\ Walker!NoPayload = NoPayload
  BY DEF Walker!WithGetter, Walker!NoPayload, NoPayload
<1>3. PICK payload : payload = Walker!At(iterator).payload
  OBVIOUS
<1>4. Walker!Shown =
        Value(current_type,
              IF current_type \in {"string", "key", "integer", "floating", "boolean"}
                THEN payload ELSE NoPayload)
  BY <1>1, <1>2, <1>3 DEF Walker!Shown
<1>5. CASE q = 0 /\ current_type = "end_of_document"
  BY <1>4, <1>5 DEF EventAt
<1>6. CASE q \in 1 .. Len(s) /\ IsEvent(s, q) /\ current_type = ShownType(s, q)
           /\ Located(p, Walker!Outside, PlaceOf(s, p, q), HostsOf(s, q))
  <2>1. PICK r : r = Run(s)
    OBVIOUS
  <2>2. PICK last \in Nat : last = Len(s)
    BY DEF TapeIs
  <2>3. /\ IsState(r[q - 1]) /\ IsWhole(r[last]) /\ last \in 0 .. Len(s)
        /\ q \in 1 .. last /\ Len(s) \in Nat
    BY <1>6, <2>1, <2>2, RunStates DEF TapeIs
  <2>4. ScalarRead(r, s, q) \/ BracketRead(r, s, q) \/ KeyRead(r, s, q)
          \/ CloserRead(r, s, q)
    BY <1>6, <2>1, <2>3, EventIs
  <2>5. ASSUME s[q] \in ScalarKind, PlaceOf(s, p, q) = p[q],
               current_type # "end_of_container"
        PROVE  payload = Payload(s[q], q)
    <3>1. iterator.location = p[q]
      BY <1>6, <2>5 DEF Located, Walker!Outside
    <3> QED
      BY <1>3, <1>6, <2>5, <3>1, ScalarWord
  <2>6. q # 0
    BY <1>6
  <2>7. CASE ScalarRead(r, s, q)
    <3>1. /\ s[q] \in ScalarKind /\ ShownType(s, q) = ShownAs[s[q]]
          /\ PlaceOf(s, p, q) = p[q] /\ r[q].expects = "separator"
      BY <2>1, <2>3, <2>7, ScalarShown
    <3>2. s[q] # "huge"
      BY <1>6, <3>1 DEF TapeIs, Holds, HoldsToken
    <3>3. /\ ShownAs[s[q]] # "end_of_container"
          /\ ShownAs[s[q]] \in {"string", "key", "integer", "floating", "boolean"}
               \/ s[q] = "null"
          /\ s[q] = "null" => ShownAs[s[q]] = "null"
      BY <3>1, <3>2, TokenNames DEF ShownAs
    <3>4. payload = Payload(s[q], q)
      BY <1>6, <2>5, <3>1, <3>3
    <3>5. s[q] = "null" => Payload(s[q], q) = NoPayload
      BY DEF Payload
    <3>6. EventAt(s, q, ShownAs) = Value(ShownAs[s[q]], Payload(s[q], q))
      <4>1. s[q] \notin {"begin_object", "begin_array"} \cup Closing
        BY <3>1, TokenNames
      <4>2. Run(s)[q].expects # "colon"
        BY <2>1, <3>1
      <4> QED
        BY <2>6, <3>1, <4>1, <4>2 DEF EventAt
    <3>7. Walker!Shown = Value(ShownAs[s[q]], Payload(s[q], q))
      BY <1>4, <1>6, <3>1, <3>3, <3>4, <3>5
    <3> QED
      BY <3>6, <3>7
  <2>8. CASE KeyRead(r, s, q)
    <3>1. /\ s[q] \in ScalarKind /\ ShownType(s, q) = "key"
          /\ PlaceOf(s, p, q) = p[q] /\ r[q].expects = "colon"
      BY <2>1, <2>3, <2>8, KeyShown
    <3>2. payload = Payload(s[q], q) /\ s[q] = "string"
      BY <1>6, <2>5, <2>8, <3>1 DEF KeyRead
    <3>3. EventAt(s, q, ShownAs) = Value("key", Payload("string", q))
      BY <2>1, <2>6, <3>1, <3>2, TokenNames DEF EventAt
    <3> QED
      BY <1>4, <1>6, <3>1, <3>2, <3>3
  <2>9. CASE BracketRead(r, s, q)
    <3>1. PICK kind \in Container : s[q] = Opener[kind] /\ ShownType(s, q) = kind
      BY <2>1, <2>3, <2>9, BracketShown
    <3>2. EventAt(s, q, ShownAs) = Value(kind, NoPayload)
      BY <2>6, <3>1, TokenNames DEF EventAt
    <3> QED
      BY <1>4, <1>6, <3>1, <3>2, TokenNames
  <2>10. CASE CloserRead(r, s, q)
    <3>1. s[q] \in Closing /\ ShownType(s, q) = "end_of_container"
      BY <2>1, <2>3, <2>10, CloserShown
    <3>2. EventAt(s, q, ShownAs) = Value("end_of_container", NoPayload)
      BY <2>6, <3>1, TokenNames DEF EventAt
    <3> QED
      BY <1>4, <1>6, <3>1, <3>2
  <2> QED
    BY <2>4, <2>7, <2>8, <2>9, <2>10
<1> QED
  BY <1>5, <1>6 DEF WalkReads

-----------------------------------------------------------------------------
(***************************************************************************)
(* The verdict. A text is accepted if and only if it is one whole value,   *)
(* has no number out of range and no byte order mark, and there is room    *)
(* for one scope more than is ever open.                                   *)
(***************************************************************************)

Shallow(s, n) == \A k \in 0 .. n : Len(Run(s)[k].open) + 2 <= DepthCapacity
IsTaken(s) ==
  /\ IsWhole(Run(s)[Len(s)])
  /\ \A n \in 1 .. Len(s) : s[n] \notin {"huge", "EF"}
  /\ Shallow(s, Len(s))

\* Behind the text the machine is only if the text was not whole.
VerdictInv ==
  /\ Running /\ next_index <= Len(text) => Shallow(text, next_index)
  /\ Running /\ next_index > Len(text) => ~IsTaken(text)
  /\ Running => \A n \in 1 .. Len(text) : text[n] # "EF"
  /\ label \in {"failed", "died"} => ~IsTaken(text)
  /\ label = "succeeded" => IsTaken(text)

LEMMA TakenAhead ==
  ASSUME NEW s, Len(s) \in Nat, IsTaken(s), NEW i \in 0 .. Len(s) - 1,
         NEW st, st = Run(s)[i], st.expects # "nothing", NEW n, n = i + 1
  PROVE  /\ ~IsWhole(st) /\ n \in 1 .. Len(s)
         /\ TokenReads(st, Run(s)[n], s[n], n)
         /\ s[n] \notin {"huge", "EF"}
         /\ Len(Run(s)[n].open) + 2 <= DepthCapacity
<1>1. /\ i \in 0 .. Len(s) /\ Len(s) \in 0 .. Len(s) /\ i # Len(s)
      /\ n \in 1 .. Len(s) /\ n \in 0 .. Len(s)
  OBVIOUS
<1>2. IsWhole(Run(s)[Len(s)])
  BY DEF IsTaken
<1>3. ~IsWhole(st) /\ TokenReads(st, Run(s)[n], s[n], n)
  BY <1>1, <1>2, WholeAhead
<1> QED
  BY <1>1, <1>3 DEF IsTaken, Shallow

\* Stage 1 refuses no text that is taken.
LEMMA TakenByStage1 ==
  ASSUME text \in Text, Len(text) \in Nat, IsTaken(text)
  PROVE  Stage1Accepts
<1>1. PICK s : s = text
  OBVIOUS
<1>2. text # <<>>
  <2>1. SUFFICES ASSUME Len(s) = 0
                 PROVE  FALSE
    BY <1>1, EmptySeq, SimdjsonAssumption
  <2>2. IsWhole(Run(s)[0])
    BY <1>1, <2>1 DEF IsTaken
  <2>3. Run(s)[0] = Outset
    BY <1>1, RunSteps
  <2> QED
    BY <2>2, <2>3 DEF IsWhole, Outset
<1>3. ASSUME NEW n \in 1 .. Len(s) PROVE s[n] \notin {"open", "EF"}
  <2>1. n - 1 \in 0 .. Len(s) - 1 /\ n - 1 \in 0 .. Len(s) /\ n = (n - 1) + 1
        /\ Len(s) \in 0 .. Len(s)
    BY <1>1
  <2>2. IsWhole(Run(s)[Len(s)])
    BY <1>1 DEF IsTaken
  <2>3. \A k \in 0 .. Len(s) : Run(s)[k].expects # "nothing"
    BY <1>1, <2>1, <2>2, WholeIsLast
  <2>4. PICK st : st = Run(s)[n - 1]
    OBVIOUS
  <2>5. IsState(st) /\ st.expects # "nothing"
    BY <1>1, <2>1, <2>3, <2>4, RunStates
  <2>6. TokenReads(st, Run(s)[n], s[n], n) /\ s[n] # "EF"
    BY <1>1, <2>1, <2>4, <2>5, TakenAhead
  <2>7. \A kind \in Container : Opener[kind] # "open" /\ Closer[kind] # "open"
    BY TokenNames
  <2>8. CloserNext(st, s[n]) => s[n] # "open"
    BY <2>5, <2>7, InnerFacts DEF CloserNext
  <2>9. "open" \notin ScalarKind
    BY TokenNames
  <2> QED
    BY <2>6, <2>7, <2>8, <2>9 DEF TokenReads
<1>4. DOMAIN text = 1 .. Len(text)
  BY SimdjsonAssumption
<1> QED
  BY <1>1, <1>2, <1>3, <1>4 DEF Stage1Accepts

LEMMA Stage1Verdict ==
  ASSUME IInv, next_index = 0, Stage1
  PROVE  VerdictInv'
<1>1. /\ text \in Text /\ Len(text) \in Nat /\ text' = text
      /\ next_index' = 0 /\ DOMAIN text = 1 .. Len(text)
  BY SimdjsonAssumption, LenProperties DEF IInv, TypeOK, Stage1
<1>2. PICK s : s = text
  OBVIOUS
<1>3. Run(s)[0] = Outset
  BY <1>1, <1>2, RunSteps
<1>4. Run(s)[0].open = <<>>
  BY <1>3 DEF Outset
<1>5. Len(Run(s)[0].open) = 0
  BY <1>4, EmptySeq
<1>6. CASE ~Stage1Accepts /\ label' = "failed"
  BY <1>1, <1>6, TakenByStage1 DEF VerdictInv, Running, Verdict
<1>7. CASE Stage1Accepts /\ label' = IF 1 >= DepthCapacity THEN "failed" ELSE "start"
  <2>1. \A n \in 1 .. Len(text) : text[n] # "EF"
    BY <1>1, <1>7 DEF Stage1Accepts
  <2>2. CASE 1 >= DepthCapacity
    <3>1. 0 \in 0 .. Len(s)
      BY <1>1, <1>2
    <3>2. IsTaken(s) => 0 + 2 <= DepthCapacity
      BY <1>5, <3>1 DEF IsTaken, Shallow
    <3>3. ~IsTaken(text')
      BY <1>1, <1>2, <2>2, <3>2, SimdjsonAssumption
    <3> QED
      BY <1>7, <2>2, <3>3 DEF VerdictInv, Running, Verdict
  <2>3. CASE ~(1 >= DepthCapacity)
    <3>1. 0 + 2 <= DepthCapacity
      BY <2>3, SimdjsonAssumption
    <3>2. Shallow(s, 0)
      BY <1>5, <3>1 DEF Shallow
    <3>3. label' = "start" /\ next_index' <= Len(text')
      BY <1>1, <1>7, <2>3
    <3> QED
      BY <1>1, <1>2, <2>1, <3>2, <3>3 DEF VerdictInv, Running, Verdict
  <2> QED
    BY <2>2, <2>3
<1> QED
  BY <1>6, <1>7 DEF Stage1, Goto, Fail

-----------------------------------------------------------------------------
\* Where the machine is, inside of a text that is taken.
Stood(s, n, i, st, c) ==
  /\ s = text /\ Len(s) \in Nat /\ i \in 0 .. Len(s) - 1 /\ n = i + 1
  /\ i = next_index /\ st = Run(s)[i] /\ c = s[n]
  /\ IsState(st) /\ st.expects # "nothing" /\ label = LabelOf(st)
  /\ CharsAt(next_index) = {c}
  /\ \E p : ScopesAre(p, scopes, st.open)
  /\ ~IsWhole(st) /\ TokenReads(st, Run(s)[n], c, n) /\ c \notin {"huge", "EF"}
  /\ Len(Run(s)[n].open) + 2 <= DepthCapacity

\* There is room for the scope of a bracket.
LEMMA RoomThere ==
  ASSUME IInv, Running, NEW s, NEW n, NEW i, NEW st, NEW c, Stood(s, n, i, st, c),
         ValueNext(st), c \in Opening, NEW ret, OpenScope(c, ret)
  PROVE  label' # "failed"
<1>1. PICK kind \in Container : c = Opener[kind]
  BY TokenNames
<1>2. n \in Nat \ {0} /\ IsState(st) /\ st.open \in Seq(Scopes)
  BY DEF Stood, IsState
<1>3. TokenReads(st, Deeper(st, kind, n), c, n)
  BY <1>1 DEF TokenReads
<1>4. TokenReads(st, Run(s)[n], c, n)
  BY DEF Stood
<1>5. Run(s)[n] = Deeper(st, kind, n)
  BY <1>2, <1>3, <1>4, AdvanceIs
<1>6. PICK scope : scope = [at |-> n, kind |-> kind, index |-> 0]
  OBVIOUS
<1>7. scope \in Scopes
  BY <1>2, <1>6 DEF Scopes
<1>8. Deeper(st, kind, n).open = Append(st.open, scope)
  BY <1>6 DEF Deeper
<1>9. Len(Append(st.open, scope)) = Len(st.open) + 1 /\ Len(st.open) \in Nat
  BY <1>2, <1>7, AppendProperties, LenProperties
<1>10. Len(scopes) = Len(st.open) + 1
  BY DEF Stood, ScopesAre
<1>11. Len(scopes') = Len(scopes) + 1
  <2>1. scopes \in Seq(Scope)
    BY DEF IInv, TypeOK
  <2>2. PICK new : scopes' = Append(scopes, new)
    BY DEF OpenScope
  <2>3. scopes \in Seq(Scope \cup {new}) /\ new \in Scope \cup {new}
    BY <2>1, SeqMonotonic
  <2> QED
    BY <2>2, <2>3, AppendProperties
<1>12. Len(st.open) + 1 + 2 <= DepthCapacity
  BY <1>5, <1>8, <1>9 DEF Stood
<1>13. ~TooDeep
  <2>1. PICK depth \in Nat : depth = Len(st.open)
    BY <1>9
  <2>2. PICK new : new = Len(scopes')
    OBVIOUS
  <2>3. new = depth + 1 + 1 /\ depth + 1 + 2 <= DepthCapacity /\ DepthCapacity \in Nat
    BY <1>10, <1>11, <1>12, <2>1, <2>2, SimdjsonAssumption
  <2>4. ~(new >= DepthCapacity)
    BY <2>3
  <2> QED
    BY <2>2, <2>4 DEF TooDeep
<1>14. c \in {"begin_object", "begin_array"}
  BY TokenNames
<1> QED
  BY <1>13, <1>14 DEF OpenScope

\* A container that is closed returns to a label.
LEMMA CloseThere ==
  ASSUME IInv, NEW s, NEW n, NEW i, NEW st, NEW c, Stood(s, n, i, st, c),
         st.open # <<>>, CloseScope(c)
  PROVE  label' # "failed"
<1>1. scopes \in Seq(Scope) /\ IsState(st)
  BY DEF IInv, TypeOK, Stood
<1>2. PICK depth \in Nat \ {0} : depth = Len(st.open)
  BY <1>1, InnerFacts
<1>3. PICK p : ScopesAre(p, scopes, st.open)
  BY DEF Stood
<1>4. Len(scopes) = depth + 1
        /\ scopes[depth + 1] = [offset |-> p[st.open[depth].at], ret |-> ReturnTo(st.open, depth)]
  BY <1>2, <1>3 DEF ScopesAre
<1>5. Last(scopes) = scopes[depth + 1]
  BY <1>4 DEF Last
<1>6. label' = ReturnTo(st.open, depth)
  BY <1>4, <1>5 DEF CloseScope
<1> QED
  BY <1>6 DEF ReturnTo

\* The machine does not fail on a text that is taken.
LEMMA NoFailure ==
  ASSUME IInv, Running, NEW s, NEW n, NEW i, NEW st, NEW c, Stood(s, n, i, st, c),
         \/ Start \/ ObjectBegin \/ ObjectKey \/ ObjectValue \/ ObjectContinue
         \/ ObjectComma \/ ArrayBegin \/ ArraySwitch \/ ArrayContinue
  PROVE  label' # "failed"
<1>1. /\ IsState(st) /\ st.expects # "nothing" /\ label = LabelOf(st)
      /\ CharsAt(next_index) = {c} /\ TokenReads(st, Run(s)[n], c, n)
      /\ c \notin {"huge", "EF"}
  BY DEF Stood
<1>2. /\ ValueNext(st) => c \in ScalarKind \cup Opening \/ CloserNext(st, c)
      /\ KeyNext(st) => c = "string" \/ CloserNext(st, c)
      /\ st.expects = "colon" => c = "colon"
      /\ st.expects = "separator" => c = "comma" \/ CloserNext(st, c)
  BY <1>1, NextToken
<1>3. CloserNext(st, c) => st.open # <<>> /\ c \in {"end_object", "end_array"}
                           /\ c = Closer[Inner(st).kind]
                           /\ st.expects \in {"first", "separator"}
  BY <1>1, InnerFacts, TokenNames DEF CloserNext
<1>4. ASSUME NEW ret, ret # "failed", ReadValue(c, ret), ValueNext(st),
             c \in ScalarKind \cup Opening
      PROVE  label' # "failed"
  <2>1. c \in Opening => c \notin ScalarKind
    BY TokenNames
  <2>2. CASE c \in Opening
    <3>1. OpenScope(c, ret)
      BY <1>4, <2>1, <2>2 DEF ReadValue
    <3> QED
      BY <1>4, <2>2, <3>1, RoomThere
  <2>3. CASE c \in ScalarKind \ {"huge"}
    BY <1>4, <2>1, <2>3 DEF ReadValue, Write
  <2> QED
    BY <1>1, <1>4, <2>2, <2>3
<1>5. ASSUME ReadKey(c), c = "string" PROVE label' # "failed"
  BY <1>5 DEF ReadKey, Write
<1>6. ASSUME CloseScope(c), CloserNext(st, c) PROVE label' # "failed"
  BY <1>3, <1>6, CloseThere
<1>7. Closer["object"] = "end_object" /\ Closer["array"] = "end_array"
  BY TokenNames
<1>8. CASE Start
  <2>1. label = "start" /\ ReadValue(c, "start_continue")
    BY <1>1, <1>8 DEF Start, AtLabel
  <2>2. ValueNext(st) /\ ~CloserNext(st, c)
    BY <1>1, <2>1, LabelReads DEF LabelOf, CloserNext
  <2> QED
    BY <1>2, <1>4, <2>1, <2>2
<1>9. CloserNext(st, c) =>
        /\ KeyNext(st) => c = "end_object"
        /\ ValueNext(st) => c = "end_array" /\ st.expects = "first"
        /\ Inner(st).kind = "object" => c = "end_object"
        /\ Inner(st).kind = "array" => c = "end_array"
        /\ c # "comma" /\ st.expects # "colon"
  BY <1>3, <1>7 DEF KeyNext, ValueNext
<1>10. CASE ObjectBegin
  <2>1. label = "object_begin" /\ IF c = "end_object" THEN CloseScope(c) ELSE ReadKey(c)
    BY <1>1, <1>10 DEF ObjectBegin, AtLabel
  <2>2. KeyNext(st) /\ (c = "end_object" => CloserNext(st, c))
    BY <1>1, <2>1, LabelReads
  <2> QED
    BY <1>2, <1>5, <1>6, <1>9, <2>1, <2>2
<1>11. CASE ObjectKey
  <2>1. label = "object_key" /\ IF c = "colon" THEN Goto("object_value") ELSE Fail
    BY <1>1, <1>11 DEF ObjectKey, AtLabel
  <2>2. st.expects = "colon"
    BY <1>1, <2>1, LabelReads
  <2> QED
    BY <1>2, <2>1, <2>2 DEF Goto
<1>12. CASE ObjectValue
  <2>1. label = "object_value" /\ ReadValue(c, "object_continue")
    BY <1>1, <1>12 DEF ObjectValue, AtLabel, ReturnToObject
  <2>2. ValueNext(st) /\ st.expects # "first"
    <3>1. ValueNext(st)
      BY <1>1, <2>1, LabelReads
    <3>2. st.open # <<>> /\ Inner(st).kind = "object"
      BY <1>1, <2>1, <3>1 DEF LabelOf
    <3> QED
      BY <3>1, <3>2 DEF ValueNext
  <2> QED
    BY <1>2, <1>4, <1>9, <2>1, <2>2
<1>13. CASE ObjectContinue
  <2>1. /\ label = "object_continue"
        /\ CASE c = "comma" -> Goto("object_comma")
             [] c = "end_object" -> CloseScope(c)
             [] OTHER -> Fail
    BY <1>1, <1>13 DEF ObjectContinue, AtLabel
  <2>2. /\ st.expects = "separator" /\ Inner(st).kind = "object"
        /\ c = "end_object" => CloserNext(st, c)
    BY <1>1, <2>1, LabelReads DEF CommaNext
  <2>3. c = "comma" \/ (c = "end_object" /\ CloserNext(st, c))
    BY <1>2, <1>9, <2>2
  <2> QED
    BY <1>6, <2>1, <2>3 DEF Goto
<1>14. CASE ObjectComma
  <2>1. label = "object_comma" /\ ReadKey(c)
    BY <1>1, <1>14 DEF ObjectComma, AtLabel
  <2>2. KeyNext(st) /\ st.expects # "first"
    <3>1. KeyNext(st)
      BY <1>1, <2>1, LabelReads
    <3>2. st.expects # "first"
      BY <1>1, <2>1 DEF LabelOf
    <3> QED
      BY <3>1, <3>2
  <2>3. ~CloserNext(st, c)
    BY <1>3, <2>2 DEF KeyNext
  <2> QED
    BY <1>2, <1>5, <2>1, <2>2, <2>3
<1>15. CASE ArrayBegin
  <2>1. /\ label = "array_begin"
        /\ IF c = "end_array" THEN CloseScope(c) ELSE ReadValue(c, "array_continue")
    BY <1>1, <1>15 DEF ArrayBegin, AtLabel
  <2>2. ValueNext(st) /\ (c = "end_array" => CloserNext(st, c))
    BY <1>1, <2>1, LabelReads
  <2> QED
    BY <1>2, <1>4, <1>6, <1>9, <2>1, <2>2
<1>16. CASE ArraySwitch
  <2>1. label = "array_switch" /\ ReadValue(c, "array_continue")
    BY <1>1, <1>16 DEF ArraySwitch, AtLabel
  <2>2. ValueNext(st) /\ st.expects # "first"
    <3>1. ValueNext(st)
      BY <1>1, <2>1, LabelReads
    <3>2. st.expects # "first"
      BY <1>1, <2>1 DEF LabelOf
    <3> QED
      BY <3>1, <3>2
  <2> QED
    BY <1>2, <1>4, <1>9, <2>1, <2>2
<1>17. CASE ArrayContinue
  <2>1. /\ label = "array_continue"
        /\ CASE c = "comma" -> Goto("array_switch")
             [] c = "end_array" -> CloseScope(c)
             [] OTHER -> Fail
    BY <1>1, <1>17 DEF ArrayContinue, AtLabel
  <2>2. /\ st.expects = "separator" /\ Inner(st).kind = "array"
        /\ c = "end_array" => CloserNext(st, c)
    BY <1>1, <2>1, LabelReads DEF CommaNext
  <2>3. c = "comma" \/ (c = "end_array" /\ CloserNext(st, c))
    BY <1>2, <1>9, <2>2
  <2> QED
    BY <1>6, <2>1, <2>3 DEF Goto
<1> QED
  BY <1>8, <1>10, <1>11, <1>12, <1>13, <1>14, <1>15, <1>16, <1>17

-----------------------------------------------------------------------------
\* A character is read.
LEMMA ReadVerdict ==
  ASSUME IInv, DepthInv, DepthInv', TapeReadsInv, TapeReadsInv', VerdictInv,
         text' = text,
         \/ Start \/ ObjectBegin \/ ObjectKey \/ ObjectValue \/ ObjectContinue
         \/ ObjectComma \/ ArrayBegin \/ ArraySwitch \/ ArrayContinue
  PROVE  VerdictInv'
<1>1. ReadStep
  BY ReadSteps
<1>2. /\ label \in Reading /\ next_index' = next_index + 1 /\ label' \in Inside
      /\ Running /\ label # "succeed"
  BY <1>1 DEF ReadStep, ScopesFollowRead, Running, Reading, Verdict
<1>3. label' # "died" /\ label' # "succeeded"
  BY <1>2 DEF Inside, Reading
<1>4. Len(text) \in Nat /\ next_index \in Nat
  BY SimdjsonAssumption, LenProperties DEF IInv, TypeOK
<1>5. PICK p : Placing(text, Len(text), p)
  BY <1>4, PlacingExists
<1>6. PICK s : s = text
  OBVIOUS
<1>7. PICK i \in Nat : i = next_index
  BY <1>4
<1>8. PICK n : n = i + 1
  OBVIOUS
<1>9. \A k \in 1 .. Len(s) : s[k] # "EF"
  BY <1>2, <1>6 DEF VerdictInv
<1>10. TapeReads(p) /\ TapeReads(p)'
  <2>1. Placing(text', Len(text'), p)
    BY <1>5
  <2> QED
    BY <1>5, <2>1 DEF TapeReadsInv
<1>11. CASE i < Len(s)
  <2>1. Follows(p)
    BY <1>2, <1>6, <1>7, <1>10, <1>11 DEF TapeReads
  <2>2. PICK st : st = Run(s)[i]
    OBVIOUS
  <2>3. PICK c : c = s[n]
    OBVIOUS
  <2>4. /\ st.expects # "nothing" /\ label = LabelOf(st)
        /\ ScopesAre(p, scopes, st.open)
    BY <1>2, <1>6, <1>7, <2>1, <2>2 DEF Follows
  <2>5. i \in 0 .. Len(s) - 1 /\ i \in 0 .. Len(s) /\ Len(s) \in Nat /\ n \in Nat
        /\ n \in 0 .. Len(s) /\ n <= Len(s) /\ \A k \in 0 .. n : k \in 0 .. i \/ k = n
    BY <1>4, <1>6, <1>8, <1>11
  <2>6. IsState(st)
    BY <2>2, <2>5, RunStates
  <2>7. label' = "failed" => ~IsTaken(s)
    <3>1. SUFFICES ASSUME IsTaken(s)
                   PROVE  label' # "failed"
      OBVIOUS
    <3>2. CharsAt(next_index) = {c}
      BY <1>6, <1>7, <1>8, <1>11, <2>3 DEF CharsAt
    <3>3. /\ ~IsWhole(st) /\ TokenReads(st, Run(s)[n], c, n) /\ c \notin {"huge", "EF"}
          /\ Len(Run(s)[n].open) + 2 <= DepthCapacity
      BY <1>8, <2>2, <2>3, <2>4, <2>5, <3>1, TakenAhead
    <3>4. Stood(s, n, i, st, c)
      BY <1>6, <1>7, <1>8, <2>2, <2>3, <2>4, <2>5, <2>6, <3>2, <3>3 DEF Stood
    <3> QED
      BY <1>2, <3>4, NoFailure
  <2>8. label' # "failed" => Shallow(s, n)
    <3>1. SUFFICES ASSUME label' # "failed"
                   PROVE  Shallow(s, n)
      OBVIOUS
    <3>2. Running'
      BY <1>2, <1>3, <3>1 DEF Running, Inside, Reading, Verdict
    <3>3. /\ next_index' = n /\ next_index' <= Len(text') /\ text' = s
      BY <1>2, <1>6, <1>7, <1>8, <2>5
    <3>4. Follows(p)'
      BY <1>10, <3>2, <3>3 DEF TapeReads
    <3>5. ScopesAre(p, scopes', Run(s)[n].open)
      BY <3>3, <3>4 DEF Follows
    <3>6. Len(scopes') = Len(Run(s)[n].open) + 1 /\ Len(scopes') + 1 <= DepthCapacity
      BY <3>2, <3>5 DEF ScopesAre, DepthInv
    <3>7. Len(Run(s)[n].open) + 2 <= DepthCapacity
      <4>1. IsState(Run(s)[n])
        BY <2>5, RunStates
      <4>2. PICK depth \in Nat : depth = Len(Run(s)[n].open)
        BY <4>1, LenProperties DEF IsState
      <4>3. depth + 1 + 1 <= DepthCapacity
        BY <3>6, <4>2
      <4> QED
        BY <4>2, <4>3, SimdjsonAssumption
    <3>8. Shallow(s, i)
      BY <1>2, <1>6, <1>7, <1>11, <2>5 DEF VerdictInv
    <3> QED
      BY <2>5, <3>7, <3>8 DEF Shallow
  <2>9. next_index' = n /\ n <= Len(text') /\ n \in Nat /\ Len(text') \in Nat
    BY <1>2, <1>4, <1>6, <1>7, <1>8, <2>5
  <2>10. ~(next_index' > Len(text'))
    BY <2>9
  <2> QED
    BY <1>3, <1>6, <1>9, <2>7, <2>8, <2>9, <2>10 DEF VerdictInv, Running, Verdict
<1>12. CASE i >= Len(s)
  <2>1. ~IsTaken(s)
    <3>1. CASE i = Len(s)
      <4>1. Follows(p) /\ i \in 0 .. Len(s) /\ Len(s) \in Nat
        BY <1>2, <1>4, <1>6, <1>7, <1>10, <3>1 DEF TapeReads
      <4>2. PICK st : st = Run(s)[i]
        OBVIOUS
      <4>3. label = LabelOf(st)
        BY <1>2, <1>6, <1>7, <4>1, <4>2 DEF Follows
      <4>4. ~IsWhole(st)
        BY <1>2, <4>3 DEF LabelOf, IsWhole, Reading
      <4> QED
        BY <3>1, <4>2, <4>4 DEF IsTaken
    <3>2. CASE i > Len(s)
      BY <1>2, <1>6, <1>7, <3>2 DEF VerdictInv
    <3> QED
      BY <1>4, <1>6, <1>12, <3>1, <3>2
  <2>2. ~(next_index' <= Len(text'))
    BY <1>2, <1>4, <1>6, <1>7, <1>12
  <2> QED
    BY <1>3, <1>6, <1>9, <2>1, <2>2 DEF VerdictInv
<1> QED
  BY <1>4, <1>6, <1>7, <1>11, <1>12

\* The root value is complete; or the machine has run away.
LEMMA EndVerdict ==
  ASSUME IInv, IInv', TapeReadsInv, VerdictInv, text' = text,
         RunAway \/ StartContinue \/ Succeed
  PROVE  VerdictInv'
<1>1. Len(text) \in Nat /\ next_index \in Nat
  BY SimdjsonAssumption, LenProperties DEF IInv, TypeOK
<1>2. PICK p : Placing(text, Len(text), p)
  BY <1>1, PlacingExists
<1>3. TapeReads(p)
  BY <1>2 DEF TapeReadsInv
<1>4. PICK s : s = text
  OBVIOUS
<1>5. Len(s) \in 0 .. Len(s) /\ Len(s) \in Nat
  BY <1>1, <1>4
<1>6. CASE RunAway
  <2>1. Running /\ next_index > Len(text) /\ label' \in {"failed", "died"}
    BY <1>1, <1>6 DEF RunAway, Running, Reading, Verdict, NumberOfIndexes
  <2> QED
    BY <2>1 DEF VerdictInv, Running, Verdict
<1>7. CASE StartContinue
  <2>1. label = "start_continue" /\ Running /\ next_index' = next_index
    BY <1>7 DEF StartContinue, Running, Verdict
  <2>2. CASE AllRead
    <3>1. label' = "succeed" /\ Running'
      BY <1>7, <2>2 DEF StartContinue, Goto, Running, Verdict
    <3> QED
      BY <2>1, <3>1 DEF VerdictInv
  <2>3. CASE ~AllRead
    <3>1. label' = "failed" /\ next_index # Len(text)
      BY <1>1, <1>7, <2>3 DEF StartContinue, Goto, Fail, AllRead, NumberOfIndexes
    <3>2. CASE next_index < Len(text)
      <4>1. Follows(p)
        BY <1>1, <1>3, <2>1, <3>2 DEF TapeReads
      <4>2. PICK i : i = next_index
        OBVIOUS
      <4>3. PICK st : st = Run(s)[i]
        OBVIOUS
      <4>4. i \in 0 .. Len(s) /\ i # Len(s)
        BY <1>1, <1>4, <3>2, <4>2
      <4>5. IsWhole(st)
        <5>1. st.expects # "nothing" /\ LabelOf(st) = "start_continue"
          BY <1>4, <2>1, <4>1, <4>2, <4>3 DEF Follows
        <5>2. IsState(st)
          BY <1>5, <4>3, <4>4, RunStates
        <5> QED
          BY <5>1, <5>2, LabelReads
      <4>6. ~IsTaken(s)
        <5>1. SUFFICES ASSUME IsWhole(Run(s)[Len(s)])
                       PROVE  FALSE
          BY DEF IsTaken
        <5> QED
          BY <1>5, <4>3, <4>4, <4>5, <5>1, WholeIsLast
      <4> QED
        BY <1>4, <3>1, <4>6 DEF VerdictInv, Running, Verdict
    <3>3. CASE next_index > Len(text)
      BY <2>1, <3>1, <3>3 DEF VerdictInv, Running, Verdict
    <3> QED
      BY <1>1, <3>1, <3>2, <3>3
  <2> QED
    BY <2>2, <2>3
<1>8. CASE Succeed
  <2>1. label = "succeed" /\ Running /\ label' = "succeeded"
    <3>1. label = "succeed" /\ label' \in {"internal_bug", "succeeded"}
      BY <1>8 DEF Succeed, Goto
    <3> QED
      BY <3>1 DEF IInv, Running, Verdict
  <2>2. Follows(p) /\ next_index = Len(text) /\ Shallow(text, Len(text))
    <3>1. Len(scopes) = 1
      BY <2>1 DEF IInv, LabelFits
    <3>2. next_index = Len(text)
      BY <2>1 DEF IInv
    <3> QED
      BY <1>1, <1>3, <2>1, <3>2 DEF TapeReads, VerdictInv
  <2>3. IsWhole(Run(s)[Len(s)])
    BY <1>4, <2>1, <2>2 DEF Follows, LabelOf
  <2>4. \A n \in 1 .. Len(s) : s[n] \notin {"huge", "EF"}
    <3>1. \A n \in 1 .. Len(s) : HoldsToken(tape, s, p, n)
      BY <1>4, <2>2 DEF Follows, Holds
    <3>2. \A n \in 1 .. Len(s) : s[n] # "huge"
      BY <3>1, TokenNames DEF HoldsToken
    <3> QED
      BY <1>4, <2>1, <3>2 DEF VerdictInv
  <2> QED
    BY <1>4, <2>1, <2>2, <2>3, <2>4 DEF VerdictInv, IsTaken, Running, Verdict
<1> QED
  BY <1>6, <1>7, <1>8

LEMMA VerdictStarts ==
  ASSUME label = "stage_1"
  PROVE  VerdictInv
BY DEF VerdictInv, Running, Verdict

LEMMA VerdictKeeps ==
  ASSUME IInv, IInv', DepthInv, DepthInv', TapeReadsInv, TapeReadsInv', VerdictInv,
         Parse
  PROVE  VerdictInv'
<1>1. text' = text
  BY StepLabels
<1>2. CASE Stage1
  <2>1. Len(text) \in Nat
    BY SimdjsonAssumption, LenProperties DEF IInv, TypeOK
  <2>2. PICK p : Placing(text, Len(text), p)
    BY <2>1, PlacingExists
  <2>3. next_index = 0
    BY <1>2, <2>2 DEF Stage1, TapeReadsInv, TapeReads
  <2> QED
    BY <1>2, <2>3, Stage1Verdict
<1> QED
  BY <1>1, <1>2, ReadVerdict, EndVerdict DEF Parse
=============================================================================
