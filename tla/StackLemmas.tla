----------------------------- MODULE StackLemmas -----------------------------
(***************************************************************************)
(* Facts the proofs about parsers and traversers share: about sequences    *)
(* that are used as stacks, the top last; induction over the naturals; and *)
(* a text that is read token by token (TextEvents), of which the parsers   *)
(* use what may come next and the traversers where each value, each end    *)
(* and each next event stand.                                              *)
(***************************************************************************)
EXTENDS Integers, TextEvents, SequenceTheorems, WellFoundedInduction, TLAPS

\* pop()
LEMMA FrontFacts ==
  ASSUME NEW S, NEW s \in Seq(S), s # <<>>
  PROVE  /\ Front(s) \in Seq(S)
         /\ Len(s) \in Nat \ {0}
         /\ Len(Front(s)) = Len(s) - 1
         /\ \A n \in 1 .. Len(s) - 1 : Front(s)[n] = s[n]
         /\ Last(s) = s[Len(s)] /\ Last(s) \in S
<1> DEFINE last == Len(s) - 1
<1>1. Len(s) \in Nat \ {0} /\ 1 \in Int /\ last \in Int
  BY EmptySeq
<1>2. \A n \in 1 .. last : s[n] \in S
  BY <1>1, ElementOfSeq
<1>3. Last(s) = s[Len(s)] /\ Last(s) \in S
  BY <1>1, ElementOfSeq DEF Last
<1> HIDE DEF last
<1>4. /\ SubSeq(s, 1, last) \in Seq(S)
      /\ Len(SubSeq(s, 1, last)) = IF 1 <= last THEN last - 1 + 1 ELSE 0
      /\ \A n \in 1 .. last - 1 + 1 : SubSeq(s, 1, last)[n] = s[1 + n - 1]
  BY <1>1, <1>2, SubSeqProperties
<1>5. Front(s) = SubSeq(s, 1, last)
  BY DEF Front, last
<1>6. last \in Nat
  BY <1>1 DEF last
<1>7. Len(SubSeq(s, 1, last)) = last
  BY <1>4, <1>6
<1>8. \A n \in 1 .. last : SubSeq(s, 1, last)[n] = s[n]
  BY <1>4, <1>6
<1> QED
  BY <1>1, <1>3, <1>4, <1>5, <1>7, <1>8 DEF last

\* pop() after push()
LEMMA FrontOfAppend ==
  ASSUME NEW S, NEW s \in Seq(S), NEW x \in S
  PROVE  Front(Append(s, x)) = s
<1> DEFINE t == Append(s, x)
<1>1. /\ t \in Seq(S)
      /\ Len(t) = Len(s) + 1
      /\ \A n \in 1 .. Len(s) : t[n] = s[n]
      /\ Len(s) \in Nat
  BY AppendProperties, LenProperties
<1> HIDE DEF t
<1>2. t # <<>>
  BY <1>1, EmptySeq
<1>3. /\ Front(t) \in Seq(S)
      /\ Len(Front(t)) = Len(s)
      /\ \A n \in 1 .. Len(s) : Front(t)[n] = s[n]
  BY <1>1, <1>2, FrontFacts
<1>4. Front(t) = s
  BY <1>3, SeqEqual
<1> QED
  BY <1>4 DEF t

\* The top is replaced.
LEMMA ReplaceTop ==
  ASSUME NEW S, NEW s \in Seq(S), s # <<>>, NEW x \in S
  PROVE  LET t == Append(Front(s), x)
         IN  /\ t \in Seq(S)
             /\ Len(t) = Len(s)
             /\ t # <<>>
             /\ \A n \in 1 .. Len(s) - 1 : t[n] = s[n]
             /\ t[Len(s)] = x
             /\ Last(t) = x
<1> DEFINE below == Front(s)
           t == Append(below, x)
<1>1. /\ below \in Seq(S)
      /\ Len(s) \in Nat \ {0}
      /\ Len(below) = Len(s) - 1
      /\ \A n \in 1 .. Len(s) - 1 : below[n] = s[n]
  BY FrontFacts
<1> HIDE DEF below
<1>2. /\ t \in Seq(S)
      /\ Len(t) = Len(below) + 1
      /\ \A n \in 1 .. Len(below) : t[n] = below[n]
      /\ t[Len(below) + 1] = x
  BY <1>1, AppendProperties
<1> HIDE DEF t
<1>3. Len(t) = Len(s) /\ t # <<>>
  BY <1>1, <1>2, EmptySeq
<1>4. /\ \A n \in 1 .. Len(s) - 1 : t[n] = s[n]
      /\ t[Len(s)] = x
  BY <1>1, <1>2
<1>5. Last(t) = x
  BY <1>3, <1>4 DEF Last
<1> QED
  BY <1>2, <1>3, <1>4, <1>5 DEF t, below

\* The top is replaced, and something is put on it.
LEMMA ReplaceAndPush ==
  ASSUME NEW S, NEW s \in Seq(S), s # <<>>, NEW x \in S, NEW y \in S
  PROVE  LET t == Front(s) \o <<x, y>>
         IN  /\ t \in Seq(S)
             /\ Len(t) = Len(s) + 1
             /\ t # <<>>
             /\ \A n \in 1 .. Len(s) - 1 : t[n] = s[n]
             /\ t[Len(s)] = x
             /\ t[Len(s) + 1] = y
             /\ Last(t) = y
<1> DEFINE below == Front(s)
           two == <<x, y>>
           t == below \o two
<1>1. /\ below \in Seq(S)
      /\ Len(s) \in Nat \ {0}
      /\ Len(below) = Len(s) - 1
      /\ \A n \in 1 .. Len(s) - 1 : below[n] = s[n]
  BY FrontFacts
<1>2. /\ two \in Seq(S) /\ Len(two) = 2
      /\ two[1] = x /\ two[2] = y
  OBVIOUS
<1> HIDE DEF below, two
<1>3. /\ t \in Seq(S)
      /\ Len(t) = Len(below) + 2
      /\ \A n \in 1 .. Len(below) + 2 :
           t[n] = IF n <= Len(below) THEN below[n] ELSE two[n - Len(below)]
  <2>1. below \in Seq(S) /\ two \in Seq(S) /\ Len(two) = 2
    BY <1>1, <1>2
  <2>2. /\ t \in Seq(S)
        /\ Len(t) = Len(below) + Len(two)
        /\ \A n \in 1 .. Len(below) + Len(two) :
             t[n] = IF n <= Len(below) THEN below[n] ELSE two[n - Len(below)]
    BY <2>1, ConcatProperties
  <2> QED
    BY <2>1, <2>2
<1> HIDE DEF t
<1>4. Len(t) = Len(s) + 1 /\ t # <<>>
  BY <1>1, <1>3, EmptySeq
<1>5. \A n \in 1 .. Len(s) - 1 : t[n] = s[n]
  BY <1>1, <1>3
<1>6. t[Len(s)] = x /\ t[Len(s) + 1] = y
  BY <1>1, <1>2, <1>3
<1>7. Last(t) = y
  BY <1>4, <1>6 DEF Last
<1> QED
  BY <1>3, <1>4, <1>5, <1>6, <1>7 DEF t, below, two

-----------------------------------------------------------------------------
(***************************************************************************)
(* Induction. The theorems of the library are about all predicates, which  *)
(* no prover at hand can instantiate; a set can be.                        *)
(***************************************************************************)

LEMMA SmallestElement ==
  ASSUME NEW T \in SUBSET Nat, T # {}
  PROVE  \E m \in T : \A k \in T : m <= k
<1> DEFINE R == OpToRel(<, Nat)
<1>1. IsWellFoundedOn(R, Nat)
  BY NatLessThanWellFounded, Zenon
<1>2. \A x, y \in Nat : x < y => <<x, y>> \in R
  BY Zenon DEF OpToRel
<1> HIDE DEF R
<1>3. PICK x \in T : \A y \in T : ~(<<y, x>> \in R)
  BY <1>1, WFMin
<1>4. \A y \in T : ~(y < x)
  BY <1>2, <1>3
<1> QED
  BY <1>3, <1>4

LEMMA SetInduction ==
  ASSUME NEW S, 0 \in S, \A n \in Nat : n \in S => n + 1 \in S
  PROVE  Nat \subseteq S
<1> SUFFICES ASSUME ~(Nat \subseteq S) PROVE FALSE
  OBVIOUS
<1> DEFINE T == Nat \ S
<1>1. T \in SUBSET Nat /\ T # {}
  OBVIOUS
<1>2. PICK m \in T : \A k \in T : m <= k
  BY <1>1, SmallestElement
<1>3. m - 1 \in Nat /\ ~(m <= m - 1)
  BY <1>2
<1>4. m - 1 \in S
  BY <1>2, <1>3
<1> QED
  BY <1>2, <1>3, <1>4

-----------------------------------------------------------------------------
\* The recursive function that Run(s) is, or its beginning.
Reads(s, size, f) ==
  f = [n \in 0 .. size |-> IF n = 0 THEN Outset ELSE Advance(f[n - 1], s[n], n)]

LEMMA ReadsExist ==
  ASSUME NEW s, NEW size \in Nat
  PROVE  \E f : Reads(s, size, f)
<1> DEFINE S == {m \in Nat : \E f : Reads(s, m, f)}
<1>1. 0 \in S
  <2> DEFINE f == [n \in 0 .. 0 |-> Outset]
  <2>1. f = [n \in 0 .. 0 |-> IF n = 0 THEN Outset ELSE Advance(f[n - 1], s[n], n)]
    OBVIOUS
  <2>2. Reads(s, 0, f)
    BY <2>1 DEF Reads
  <2> QED
    BY <2>2
<1>2. ASSUME NEW m \in Nat, m \in S PROVE m + 1 \in S
  <2>1. PICK f : Reads(s, m, f)
    BY <1>2
  <2> DEFINE g == [n \in 0 .. m + 1 |->
                     IF n = m + 1 THEN Advance(f[m], s[n], n) ELSE f[n]]
  <2>2. ASSUME NEW n \in 0 .. m + 1
        PROVE  g[n] = IF n = 0 THEN Outset ELSE Advance(g[n - 1], s[n], n)
    <3>1. CASE n = m + 1
      <4>1. n # 0 /\ n - 1 = m /\ m \in 0 .. m + 1 /\ m # m + 1
        BY <3>1
      <4> QED
        BY <3>1, <4>1
    <3>2. CASE n # m + 1
      <4>1. n \in 0 .. m /\ g[n] = f[n]
        BY <3>2
      <4>2. f[n] = IF n = 0 THEN Outset ELSE Advance(f[n - 1], s[n], n)
        BY <2>1, <4>1 DEF Reads
      <4>3. n # 0 => n - 1 \in 0 .. m + 1 /\ n - 1 # m + 1
        BY <4>1
      <4> QED
        BY <4>1, <4>2, <4>3
    <3> QED
      BY <3>1, <3>2
  <2>3. g = [n \in 0 .. m + 1 |-> g[n]]
    OBVIOUS
  <2> HIDE DEF g
  <2>4. Reads(s, m + 1, g)
    BY <2>2, <2>3 DEF Reads
  <2> QED
    BY <2>4
<1>3. Nat \subseteq S
  <2> HIDE DEF S
  <2> QED
    BY <1>1, <1>2, SetInduction
<1> QED
  BY <1>3

LEMMA RunSteps ==
  ASSUME NEW s, Len(s) \in Nat
  PROVE  /\ Run(s)[0] = Outset
         /\ \A n \in 1 .. Len(s) : Run(s)[n] = Advance(Run(s)[n - 1], s[n], n)
<1>1. PICK size \in Nat : size = Len(s)
  OBVIOUS
<1>2. \E f : Reads(s, size, f)
  BY ReadsExist
<1>3. Reads(s, size, CHOOSE f : Reads(s, size, f))
  BY <1>2
<1>4. Run(s) = CHOOSE f : Reads(s, size, f)
  BY <1>1 DEF Run, Reads
<1>5. PICK r : r = Run(s)
  OBVIOUS
<1>6. r = [n \in 0 .. size |-> IF n = 0 THEN Outset ELSE Advance(r[n - 1], s[n], n)]
  BY <1>3, <1>4, <1>5 DEF Reads
<1>7. r[0] = Outset
  BY <1>6
<1>8. ASSUME NEW n \in 1 .. size PROVE r[n] = Advance(r[n - 1], s[n], n)
  <2>1. n \in 0 .. size /\ n # 0
    OBVIOUS
  <2> QED
    BY <1>6, <2>1
<1> QED
  BY <1>1, <1>5, <1>7, <1>8

-----------------------------------------------------------------------------
Scopes == [at : Nat \ {0}, kind : Container, index : Nat]
Expectation == {"value", "first", "key", "colon", "separator", "nothing"}

\* What is expected fits the container it is expected in.
IsState(st) ==
  /\ st = [expects |-> st.expects, open |-> st.open]
  /\ st.expects \in Expectation
  /\ st.open \in Seq(Scopes)
  /\ st.expects = "first" => st.open # <<>>
  /\ st.expects \in {"key", "colon"} => st.open # <<>> /\ Inner(st).kind = "object"
  /\ st.expects = "nothing" => st.open = <<>>

LEMMA InnerFacts ==
  ASSUME NEW st, IsState(st), st.open # <<>>
  PROVE  /\ Len(st.open) \in Nat \ {0}
         /\ Inner(st) = st.open[Len(st.open)]
         /\ Inner(st) \in Scopes
         /\ Inner(st).at \in Nat \ {0} /\ Inner(st).index \in Nat
         /\ Inner(st).kind \in Container
<1>1. /\ Len(st.open) \in Nat \ {0}
      /\ Last(st.open) = st.open[Len(st.open)] /\ Last(st.open) \in Scopes
  BY FrontFacts DEF IsState
<1>2. Inner(st) = Last(st.open)
  BY DEF Inner
<1>3. PICK scope \in Scopes : scope = Inner(st)
  BY <1>1, <1>2
<1>4. scope.at \in Nat \ {0} /\ scope.index \in Nat /\ scope.kind \in Container
  BY DEF Scopes
<1> QED
  BY <1>1, <1>2, <1>3, <1>4

\* What a token does.
LEMMA DeeperState ==
  ASSUME NEW st, IsState(st), NEW kind \in Container, NEW n \in Nat \ {0}
  PROVE  /\ IsState(Deeper(st, kind, n))
         /\ Deeper(st, kind, n).expects = "first"
         /\ Len(st.open) \in Nat
         /\ Len(Deeper(st, kind, n).open) = Len(st.open) + 1
         /\ \A m \in 1 .. Len(st.open) : Deeper(st, kind, n).open[m] = st.open[m]
         /\ Deeper(st, kind, n).open[Len(st.open) + 1] =
              [at |-> n, kind |-> kind, index |-> 0]
         /\ Inner(Deeper(st, kind, n)) = [at |-> n, kind |-> kind, index |-> 0]
<1>1. PICK scope : scope = [at |-> n, kind |-> kind, index |-> 0]
  OBVIOUS
<1>2. scope \in Scopes
  BY <1>1 DEF Scopes
<1>3. PICK open : open = Append(st.open, scope)
  OBVIOUS
<1>4. st.open \in Seq(Scopes) /\ Len(st.open) \in Nat
  BY LenProperties DEF IsState
<1>5. /\ open \in Seq(Scopes) /\ Len(open) = Len(st.open) + 1
      /\ \A m \in 1 .. Len(st.open) : open[m] = st.open[m]
      /\ open[Len(st.open) + 1] = scope
  BY <1>2, <1>3, <1>4, AppendProperties
<1>6. Deeper(st, kind, n) = [expects |-> "first", open |-> open]
  BY <1>1, <1>3 DEF Deeper
<1>7. open # <<>>
  BY <1>4, <1>5, EmptySeq
<1>8. IsState(Deeper(st, kind, n))
  BY <1>5, <1>6, <1>7 DEF IsState, Expectation
<1>9. Inner(Deeper(st, kind, n)) = scope
  BY <1>5, <1>6 DEF Inner, Last
<1> QED
  BY <1>1, <1>4, <1>5, <1>6, <1>8, <1>9

LEMMA ShallowerState ==
  ASSUME NEW st, IsState(st), st.open # <<>>
  PROVE  /\ IsState(Shallower(st))
         /\ Shallower(st).expects = "separator"
         /\ Len(Shallower(st).open) = Len(st.open) - 1
         /\ \A m \in 1 .. Len(st.open) - 1 : Shallower(st).open[m] = st.open[m]
<1>1. PICK open : open = Front(st.open)
  OBVIOUS
<1>2. /\ open \in Seq(Scopes) /\ Len(open) = Len(st.open) - 1
      /\ \A m \in 1 .. Len(st.open) - 1 : open[m] = st.open[m]
  BY <1>1, FrontFacts DEF IsState
<1>3. Shallower(st) = [expects |-> "separator", open |-> open]
  BY <1>1 DEF Shallower
<1> QED
  BY <1>2, <1>3 DEF IsState, Expectation

LEMMA OnwardState ==
  ASSUME NEW st, IsState(st), st.open # <<>>
  PROVE  /\ IsState(Onward(st))
         /\ Onward(st).expects = IF Inner(st).kind = "object" THEN "key" ELSE "value"
         /\ Onward(st).open # <<>>
         /\ Len(Onward(st).open) = Len(st.open)
         /\ \A m \in 1 .. Len(st.open) - 1 : Onward(st).open[m] = st.open[m]
         /\ Inner(Onward(st)).at = Inner(st).at
         /\ Inner(Onward(st)).kind = Inner(st).kind
         /\ Inner(Onward(st)).index = Inner(st).index + 1
         /\ Onward(st).open[Len(st.open)] = Inner(Onward(st))
<1>1. PICK scope : scope = [Inner(st) EXCEPT !.index = @ + 1]
  OBVIOUS
<1>2. /\ scope \in Scopes
      /\ scope.at = Inner(st).at /\ scope.kind = Inner(st).kind
      /\ scope.index = Inner(st).index + 1
  BY <1>1, InnerFacts DEF Scopes
<1>3. PICK open : open = Append(Front(st.open), scope)
  OBVIOUS
<1>4. /\ open \in Seq(Scopes) /\ Len(open) = Len(st.open) /\ open # <<>>
      /\ \A m \in 1 .. Len(st.open) - 1 : open[m] = st.open[m]
      /\ open[Len(st.open)] = scope /\ Last(open) = scope
  BY <1>2, <1>3, ReplaceTop DEF IsState
<1>5. PICK what \in {"key", "value"} :
        what = IF Inner(st).kind = "object" THEN "key" ELSE "value"
  OBVIOUS
<1>6. Onward(st) = [expects |-> what, open |-> open]
  BY <1>1, <1>3, <1>5 DEF Onward
<1>7. Inner(Onward(st)) = scope
  BY <1>4, <1>6 DEF Inner
<1>8. IsState(Onward(st))
  BY <1>2, <1>4, <1>5, <1>6, <1>7 DEF IsState, Expectation
<1> QED
  BY <1>2, <1>4, <1>5, <1>6, <1>7, <1>8

LEMMA ExpectingState ==
  ASSUME NEW st, IsState(st), NEW what \in Expectation \ {"first", "nothing"},
         what \in {"key", "colon"} => st.open # <<>> /\ Inner(st).kind = "object"
  PROVE  /\ IsState(Expecting(st, what))
         /\ Expecting(st, what).expects = what
         /\ Expecting(st, what).open = st.open
         /\ Inner(Expecting(st, what)) = Inner(st)
<1>1. Expecting(st, what) = [expects |-> what, open |-> st.open]
  BY DEF Expecting, IsState
<1> QED
  BY <1>1 DEF IsState, Inner, Expectation

\* What a token may do, unless the text is no JSON.
TokenReads(st, next, token, n) ==
  \/ n = 1 /\ token = "EF" /\ next = st
  \/ ValueNext(st) /\ token \in ScalarKind /\ next = Expecting(st, "separator")
  \/ \E kind \in Container :
       ValueNext(st) /\ token = Opener[kind] /\ next = Deeper(st, kind, n)
  \/ KeyNext(st) /\ token = "string" /\ next = Expecting(st, "colon")
  \/ st.expects = "colon" /\ token = "colon" /\ next = Expecting(st, "value")
  \/ CommaNext(st) /\ token = "comma" /\ next = Onward(st)
  \/ CloserNext(st, token) /\ next = Shallower(st)

LEMMA TokenNames ==
  /\ Opener["object"] = "begin_object" /\ Opener["array"] = "begin_array"
  /\ Closer["object"] = "end_object" /\ Closer["array"] = "end_array"
  /\ Container = {"object", "array"}
  /\ ScalarKind = {"string", "true", "false", "null", "narrow", "wide", "huge", "real"}
  /\ Opening = {"begin_object", "begin_array"}
  /\ Closing = {"end_object", "end_array"}
BY DEF Opener, Closer, Container, ScalarKind, AtomKind, NumberKind, Opening, Closing

\* No token is read in two ways.
LEMMA AdvanceIs ==
  ASSUME NEW st, IsState(st), NEW token, NEW n \in Nat \ {0}
  PROVE  /\ \A next : TokenReads(st, next, token, n) => Advance(st, token, n) = next
         /\ TokenReads(st, Advance(st, token, n), token, n) \/ Advance(st, token, n) = Lost
<1>1. st.open # <<>> => Inner(st).kind \in {"object", "array"}
  BY InnerFacts, TokenNames
<1>2. st.expects = "first" => st.open # <<>>
  BY DEF IsState
<1>3. PICK v \in BOOLEAN : v = ValueNext(st)
  BY DEF ValueNext
<1>4. PICK k \in BOOLEAN : k = KeyNext(st)
  BY DEF KeyNext
<1>5. PICK c \in BOOLEAN : c = CloserNext(st, token)
  BY DEF CloserNext
<1>6. ~(v /\ k) /\ (c => token \in {"end_object", "end_array"})
  BY <1>1, <1>2, <1>3, <1>4, <1>5, TokenNames DEF ValueNext, KeyNext, CloserNext
<1>7. Advance(st, token, n) =
        CASE n = 1 /\ token = "EF" -> st
          [] v /\ token \in ScalarKind -> Expecting(st, "separator")
          [] v /\ token = "begin_object" -> Deeper(st, "object", n)
          [] v /\ token = "begin_array" -> Deeper(st, "array", n)
          [] k /\ token = "string" -> Expecting(st, "colon")
          [] st.expects = "colon" /\ token = "colon" -> Expecting(st, "value")
          [] CommaNext(st) /\ token = "comma" -> Onward(st)
          [] c -> Shallower(st)
          [] OTHER -> Lost
  BY <1>3, <1>4, <1>5 DEF Advance
<1>8. \A next : TokenReads(st, next, token, n) <=>
        \/ n = 1 /\ token = "EF" /\ next = st
        \/ v /\ token \in ScalarKind /\ next = Expecting(st, "separator")
        \/ v /\ token = "begin_object" /\ next = Deeper(st, "object", n)
        \/ v /\ token = "begin_array" /\ next = Deeper(st, "array", n)
        \/ k /\ token = "string" /\ next = Expecting(st, "colon")
        \/ st.expects = "colon" /\ token = "colon" /\ next = Expecting(st, "value")
        \/ CommaNext(st) /\ token = "comma" /\ next = Onward(st)
        \/ c /\ next = Shallower(st)
  BY <1>3, <1>4, <1>5, TokenNames DEF TokenReads
<1> QED
  BY <1>6, <1>7, <1>8, TokenNames

LEMMA AdvanceState ==
  ASSUME NEW st, IsState(st), NEW token, NEW n \in Nat \ {0}
  PROVE  IsState(Advance(st, token, n))
<1>1. CASE Advance(st, token, n) = Lost
  BY <1>1 DEF Lost, IsState, Expectation
<1>2. CASE TokenReads(st, Advance(st, token, n), token, n)
  <2>1. "separator" \in Expectation \ {"first", "nothing"}
        /\ "colon" \in Expectation \ {"first", "nothing"}
        /\ "value" \in Expectation \ {"first", "nothing"}
    BY DEF Expectation
  <2>2. IsState(Expecting(st, "separator")) /\ IsState(Expecting(st, "value"))
    BY <2>1, ExpectingState
  <2>3. KeyNext(st) => IsState(Expecting(st, "colon"))
    BY <2>1, ExpectingState DEF KeyNext, IsState
  <2>4. \A kind \in Container : IsState(Deeper(st, kind, n))
    BY DeeperState
  <2>5. CommaNext(st) => IsState(Onward(st))
    BY OnwardState DEF CommaNext
  <2>6. CloserNext(st, token) => IsState(Shallower(st))
    BY ShallowerState DEF CloserNext
  <2> QED
    BY <1>2, <2>2, <2>3, <2>4, <2>5, <2>6 DEF TokenReads
<1> QED
  BY <1>1, <1>2, AdvanceIs

LEMMA RunStates ==
  ASSUME NEW s, Len(s) \in Nat
  PROVE  \A n \in 0 .. Len(s) : IsState(Run(s)[n])
<1>1. PICK size \in Nat : size = Len(s)
  OBVIOUS
<1>2. PICK r : r = Run(s)
  OBVIOUS
<1> DEFINE S == {n \in Nat : n <= size => IsState(r[n])}
<1>3. 0 \in S
  <2>1. r[0] = Outset
    BY <1>2, RunSteps
  <2> QED
    <3> <<>> \in Seq(Scopes)
      OBVIOUS
    <3> IsState(Outset)
      BY DEF Outset, IsState, Expectation
    <3> QED
      BY <2>1
<1>4. ASSUME NEW n \in Nat, n \in S PROVE n + 1 \in S
  <2>1. CASE n + 1 <= size
    <3>1. r[n + 1] = Advance(r[n], s[n + 1], n + 1)
      <4>1. n + 1 \in 1 .. Len(s) /\ (n + 1) - 1 = n
        BY <1>1, <2>1
      <4> QED
        BY <1>2, <4>1, RunSteps
    <3>2. IsState(r[n]) /\ n + 1 \in Nat \ {0}
      BY <1>4, <2>1
    <3>3. PICK m \in Nat \ {0} : m = n + 1
      BY <3>2
    <3>4. IsState(Advance(r[n], s[m], m))
      BY <3>2, AdvanceState
    <3> QED
      BY <3>1, <3>3, <3>4
  <2> QED
    BY <2>1
<1>5. Nat \subseteq S
  <2> HIDE DEF S
  <2> QED
    BY <1>3, <1>4, SetInduction
<1> QED
  BY <1>1, <1>2, <1>5

\* The scope m that is open after a token was so before it, or is new.
ScopeStays(st, next, m) ==
  /\ m <= Len(st.open)
  /\ next.open[m].at = st.open[m].at
  /\ next.open[m].kind = st.open[m].kind
ScopeOpens(st, next, token, n, m) ==
  /\ m = Len(st.open) + 1
  /\ \E kind \in Container :
       /\ ValueNext(st) /\ token = Opener[kind]
       /\ next.open[m].at = n /\ next.open[m].kind = kind
ScopeStep(st, next, token, n, m) ==
  /\ \A j \in 1 .. m - 1 : next.open[j] = st.open[j]
  /\ ScopeStays(st, next, m) \/ ScopeOpens(st, next, token, n, m)

LEMMA OpenStep ==
  ASSUME NEW st, IsState(st), NEW token, NEW n \in Nat \ {0},
         NEW next, next = Advance(st, token, n),
         NEW m \in 1 .. Len(next.open)
  PROVE  ScopeStep(st, next, token, n, m)
<1>1. Len(st.open) \in Nat
  BY LenProperties DEF IsState
<1>2. CASE next = Lost
  BY <1>2 DEF Lost
<1>3. CASE next.open = st.open
  BY <1>1, <1>3 DEF ScopeStep, ScopeStays
<1>4. ASSUME NEW kind \in Container, ValueNext(st), token = Opener[kind],
             next = Deeper(st, kind, n)
      PROVE  ScopeStep(st, next, token, n, m)
  <2>1. /\ Len(next.open) = Len(st.open) + 1
        /\ \A j \in 1 .. Len(st.open) : next.open[j] = st.open[j]
        /\ next.open[Len(st.open) + 1] = [at |-> n, kind |-> kind, index |-> 0]
    BY <1>4, DeeperState
  <2>2. CASE m = Len(st.open) + 1
    BY <1>1, <1>4, <2>1, <2>2 DEF ScopeStep, ScopeOpens
  <2>3. CASE m <= Len(st.open)
    BY <1>1, <2>1, <2>3 DEF ScopeStep, ScopeStays
  <2> QED
    BY <1>1, <2>1, <2>2, <2>3
<1>5. CASE CommaNext(st) /\ next = Onward(st)
  <2>1. st.open # <<>> /\ Len(st.open) \in Nat \ {0}
        /\ Inner(st) = st.open[Len(st.open)]
    BY <1>5, InnerFacts DEF CommaNext
  <2>2. /\ Len(next.open) = Len(st.open)
        /\ \A j \in 1 .. Len(st.open) - 1 : next.open[j] = st.open[j]
        /\ next.open[Len(st.open)].at = st.open[Len(st.open)].at
        /\ next.open[Len(st.open)].kind = st.open[Len(st.open)].kind
    BY <1>5, <2>1, OnwardState
  <2>3. \A j \in 1 .. m - 1 : next.open[j] = st.open[j]
    BY <1>1, <2>2
  <2>4. m = Len(st.open) \/ m \in 1 .. Len(st.open) - 1
    BY <1>1, <2>2
  <2> QED
    BY <2>2, <2>3, <2>4 DEF ScopeStep, ScopeStays
<1>6. CASE CloserNext(st, token) /\ next = Shallower(st)
  <2>1. /\ Len(next.open) = Len(st.open) - 1
        /\ \A j \in 1 .. Len(st.open) - 1 : next.open[j] = st.open[j]
    BY <1>6, ShallowerState DEF CloserNext
  <2> QED
    BY <1>1, <2>1 DEF ScopeStep, ScopeStays
<1>7. \A what : Expecting(st, what).open = st.open
  BY DEF Expecting, IsState
<1> QED
  BY <1>2, <1>3, <1>4, <1>5, <1>6, <1>7, AdvanceIs DEF TokenReads

\* What a scope that is open after n tokens was since its bracket was read.
WasOpen(r, n, m, k) ==
  /\ m <= Len(r[k].open)
  /\ r[k].open[m].at = r[n].open[m].at
  /\ r[k].open[m].kind = r[n].open[m].kind
  /\ \A j \in 1 .. m - 1 : r[k].open[j] = r[n].open[j]
WasOpened(r, s, n, m, o) ==
  /\ o \in 1 .. n
  /\ s[o] = Opener[r[n].open[m].kind]
  /\ ValueNext(r[o - 1])
  /\ Len(r[o - 1].open) = m - 1
  /\ \A j \in 1 .. m - 1 : r[o - 1].open[j] = r[n].open[j]
  /\ \A k \in o .. n : WasOpen(r, n, m, k)

LEMMA ScopesOpened ==
  ASSUME NEW s, Len(s) \in Nat, NEW r, r = Run(s)
  PROVE  \A n \in 0 .. Len(s) : \A m \in 1 .. Len(r[n].open) :
           WasOpened(r, s, n, m, r[n].open[m].at)
<1>1. PICK size \in Nat : size = Len(s)
  OBVIOUS
<1> DEFINE P(n) == \A m \in 1 .. Len(r[n].open) : WasOpened(r, s, n, m, r[n].open[m].at)
           S == {n \in Nat : n <= size => P(n)}
<1>2. 0 \in S
  <2>1. Len(r[0].open) = 0
    BY RunSteps DEF Outset
  <2> QED
    BY <2>1
<1>3. ASSUME NEW n \in Nat, n \in S PROVE n + 1 \in S
  <2> SUFFICES ASSUME n + 1 <= size PROVE P(n + 1)
    OBVIOUS
  <2>1. PICK i \in Nat \ {0} : i = n + 1
    OBVIOUS
  <2>2. i \in 1 .. Len(s) /\ i - 1 = n /\ n \in 0 .. Len(s)
    BY <1>1, <2>1
  <2>3. r[i] = Advance(r[n], s[i], i) /\ IsState(r[n])
    BY <2>2, RunSteps, RunStates
  <2>4. P(n)
    BY <1>3
  <2> SUFFICES ASSUME NEW m \in 1 .. Len(r[i].open)
               PROVE  WasOpened(r, s, i, m, r[i].open[m].at)
    BY <2>1
  <2>5. ScopeStep(r[n], r[i], s[i], i, m) /\ m \in Nat \ {0}
    BY <2>3, OpenStep
  <2>6. CASE ScopeStays(r[n], r[i], m)
    <3>1. PICK o : o = r[n].open[m].at
      OBVIOUS
    <3>2. /\ r[i].open[m].at = o /\ r[i].open[m].kind = r[n].open[m].kind
          /\ m \in 1 .. Len(r[n].open)
          /\ \A j \in 1 .. m - 1 : r[i].open[j] = r[n].open[j]
      <4>1. Len(r[n].open) \in Nat
        BY <2>3, LenProperties DEF IsState
      <4> QED
        BY <2>5, <2>6, <3>1, <4>1 DEF ScopeStays, ScopeStep
    <3>3. WasOpened(r, s, n, m, o)
      BY <2>4, <3>1, <3>2
    <3>4. o \in 1 .. i /\ \A k \in o .. i : k \in o .. n \/ k = i
      BY <2>1, <3>3 DEF WasOpened
    <3>5. \A k \in o .. i : WasOpen(r, i, m, k)
      <4> TAKE k \in o .. i
      <4>1. CASE k = i
        <5>1. m <= Len(r[i].open)
          OBVIOUS
        <5> QED
          BY <4>1, <5>1 DEF WasOpen
      <4>2. CASE k \in o .. n
        <5>1. WasOpen(r, n, m, k)
          BY <3>3, <4>2 DEF WasOpened
        <5> QED
          BY <5>1, <3>1, <3>2 DEF WasOpen
      <4> QED
        BY <3>4, <4>1, <4>2
    <3> QED
      BY <3>2, <3>3, <3>4, <3>5 DEF WasOpened
  <2>7. CASE ScopeOpens(r[n], r[i], s[i], i, m)
    <3>1. /\ m = Len(r[n].open) + 1 /\ r[i].open[m].at = i
          /\ ValueNext(r[n]) /\ s[i] = Opener[r[i].open[m].kind]
          /\ \A j \in 1 .. m - 1 : r[i].open[j] = r[n].open[j]
      BY <2>5, <2>7 DEF ScopeOpens, ScopeStep
    <3>2. i \in 1 .. i /\ \A k \in i .. i : k = i
      OBVIOUS
    <3>3. WasOpen(r, i, m, i)
      <4>1. m <= Len(r[i].open)
        OBVIOUS
      <4> QED
        BY <4>1 DEF WasOpen
    <3>4. Len(r[n].open) = m - 1
      <4>1. Len(r[n].open) \in Nat
        BY <2>3, LenProperties DEF IsState
      <4> QED
        BY <3>1, <4>1
    <3>5. WasOpened(r, s, i, m, i)
      BY <2>2, <3>1, <3>2, <3>3, <3>4 DEF WasOpened
    <3> QED
      BY <3>1, <3>5
  <2> QED
    BY <2>5, <2>6, <2>7 DEF ScopeStep
<1>4. Nat \subseteq S
  <2> HIDE DEF S
  <2> QED
    BY <1>2, <1>3, SetInduction
<1> QED
  BY <1>1, <1>4

LEMMA ScopesIncrease ==
  ASSUME NEW s, Len(s) \in Nat, NEW r, r = Run(s), NEW n \in 0 .. Len(s),
         NEW m \in 1 .. Len(r[n].open)
  PROVE  /\ r[n].open[m].at \in 1 .. n
         /\ \A j \in 1 .. m - 1 : r[n].open[j].at \in 1 .. r[n].open[m].at - 1
<1>1. PICK o : o = r[n].open[m].at
  OBVIOUS
<1>2. /\ o \in 1 .. n /\ Len(r[o - 1].open) = m - 1
      /\ \A j \in 1 .. m - 1 : r[o - 1].open[j] = r[n].open[j]
  <2>1. WasOpened(r, s, n, m, o)
    BY <1>1, ScopesOpened
  <2> QED
    BY <2>1 DEF WasOpened
<1>3. PICK p \in 0 .. Len(s) : p = o - 1
  BY <1>2
<1>4. \A j \in 1 .. Len(r[p].open) : WasOpened(r, s, p, j, r[p].open[j].at)
  BY <1>3, ScopesOpened
<1>5. ASSUME NEW j \in 1 .. m - 1 PROVE r[n].open[j].at \in 1 .. p
  BY <1>2, <1>3, <1>4 DEF WasOpened
<1> QED
  BY <1>1, <1>2, <1>3, <1>5

\* Nothing is read once a text is no JSON.
LEMMA StaysLost ==
  ASSUME NEW st, IsState(st), st.expects = "nothing", NEW token,
         NEW n \in Nat \ {0}, n # 1
  PROVE  Advance(st, token, n) = Lost
<1>1. st.open = <<>>
  BY DEF IsState
<1>2. /\ ~ValueNext(st) /\ ~KeyNext(st) /\ ~CommaNext(st) /\ ~CloserNext(st, token)
      /\ st.expects # "colon"
  BY <1>1 DEF ValueNext, KeyNext, CommaNext, CloserNext
<1> QED
  BY <1>2, AdvanceIs DEF TokenReads

LEMMA NotLost ==
  ASSUME NEW s, Len(s) \in Nat, NEW r, r = Run(s), NEW n \in 0 .. Len(s),
         r[n].expects # "nothing"
  PROVE  /\ \A k \in 0 .. n : r[k].expects # "nothing"
         /\ \A k \in 1 .. n : TokenReads(r[k - 1], r[k], s[k], k)
<1>1. PICK size \in Nat : size = Len(s)
  OBVIOUS
<1> DEFINE S == {k \in Nat : k <= size /\ r[k].expects # "nothing" =>
                   \A j \in 0 .. k : r[j].expects # "nothing"}
<1>2. 0 \in S
  <2>1. \A j \in 0 .. 0 : j = 0
    OBVIOUS
  <2> QED
    BY <2>1
<1>3. ASSUME NEW k \in Nat, k \in S PROVE k + 1 \in S
  <2> SUFFICES ASSUME k + 1 <= size, r[k + 1].expects # "nothing"
               PROVE  \A j \in 0 .. k + 1 : r[j].expects # "nothing"
    OBVIOUS
  <2>1. PICK i \in Nat \ {0} : i = k + 1
    OBVIOUS
  <2>2. i \in 1 .. Len(s) /\ i - 1 = k /\ k \in 0 .. Len(s)
    BY <1>1, <2>1
  <2>3. r[i] = Advance(r[k], s[i], i) /\ IsState(r[k])
    BY <2>2, RunSteps, RunStates
  <2>4. r[k].expects # "nothing"
    <3>1. CASE i = 1
      <4>1. k = 0
        BY <2>1, <3>1
      <4> QED
        BY <4>1, RunSteps DEF Outset
    <3>2. CASE i # 1
      BY <2>1, <2>3, <3>2, StaysLost DEF Lost
    <3> QED
      BY <3>1, <3>2
  <2>5. \A j \in 0 .. k : r[j].expects # "nothing"
    BY <1>3, <2>2, <2>4, <1>1
  <2>6. \A j \in 0 .. k + 1 : j \in 0 .. k \/ j = k + 1
    OBVIOUS
  <2> QED
    BY <2>5, <2>6
<1>4. Nat \subseteq S
  <2> HIDE DEF S
  <2> QED
    BY <1>2, <1>3, SetInduction
<1>5. \A k \in 0 .. n : r[k].expects # "nothing"
  BY <1>1, <1>4
<1>6. ASSUME NEW k \in 1 .. n PROVE TokenReads(r[k - 1], r[k], s[k], k)
  <2>1. PICK p \in 0 .. Len(s) : p = k - 1
    OBVIOUS
  <2>2. r[k] = Advance(r[p], s[k], k) /\ IsState(r[p])
    BY <2>1, RunSteps, RunStates
  <2>3. r[k] # Lost
    BY <1>5 DEF Lost
  <2>4. k \in Nat \ {0}
    OBVIOUS
  <2> QED
    BY <2>1, <2>2, <2>3, <2>4, AdvanceIs
<1> QED
  BY <1>5, <1>6

\* What follows a whole value is lost.
LEMMA WholeIsLast ==
  ASSUME NEW s, Len(s) \in Nat, NEW r, r = Run(s), NEW last \in 0 .. Len(s),
         IsWhole(r[last])
  PROVE  /\ \A k \in 0 .. last : r[k].expects # "nothing"
         /\ \A k \in 1 .. last : TokenReads(r[k - 1], r[k], s[k], k)
         /\ \A k \in 0 .. last : IsWhole(r[k]) => k = last
<1>1. /\ \A k \in 0 .. last : r[k].expects # "nothing"
      /\ \A k \in 1 .. last : TokenReads(r[k - 1], r[k], s[k], k)
  BY NotLost DEF IsWhole
<1>2. ASSUME NEW k \in 0 .. last, IsWhole(r[k]), k # last PROVE FALSE
  <2>1. PICK i \in 1 .. last : i = k + 1
    BY <1>2
  <2>2. TokenReads(r[k], r[i], s[i], i)
    BY <1>1, <2>1
  <2>3. i = 1
    BY <1>2, <2>2 DEF TokenReads, IsWhole, ValueNext, KeyNext, CommaNext, CloserNext
  <2>4. k = 0
    BY <2>1, <2>3
  <2> QED
    BY <1>2, <2>4, RunSteps DEF IsWhole, Outset
<1> QED
  BY <1>1, <1>2

-----------------------------------------------------------------------------
(***************************************************************************)
(* A text of which the first "last" tokens are a whole value.              *)
(***************************************************************************)

\* Every container that is open is closed.
ClosesLater(r, s, last, n, m) ==
  \E e \in n + 1 .. last :
    /\ CloserNext(r[e - 1], s[e])
    /\ Inner(r[e - 1]).at = r[n].open[m].at

LEMMA ClosedLater ==
  ASSUME NEW s, Len(s) \in Nat, NEW r, r = Run(s), NEW last \in 0 .. Len(s),
         IsWhole(r[last]), NEW n \in 0 .. last, NEW m \in 1 .. Len(r[n].open)
  PROVE  ClosesLater(r, s, last, n, m)
<1> DEFINE T == {k \in n .. last : Len(r[k].open) < m}
<1>1. m \in Nat \ {0} /\ n \in Nat /\ last \in Nat
  OBVIOUS
<1>2. T \in SUBSET Nat /\ last \in T
  <2>1. Len(r[last].open) = 0
    BY DEF IsWhole
  <2> QED
    BY <1>1, <2>1
<1>3. PICK e \in T : \A k \in T : e <= k
  BY <1>2, SmallestElement
<1>4. PICK p : p = e - 1
  OBVIOUS
<1>5. \A k \in 0 .. last : IsState(r[k]) /\ Len(r[k].open) \in Nat
  BY RunStates, LenProperties DEF IsState
<1>6. e # n
  BY <1>3
<1>7. /\ e \in n + 1 .. last /\ p \in n .. last /\ p \in 0 .. last
      /\ e \in 1 .. last /\ p < e
  BY <1>1, <1>3, <1>4, <1>6
<1>8. p \notin T /\ Len(r[e].open) < m
  BY <1>3, <1>7
<1>9. Len(r[p].open) >= m /\ IsState(r[p])
  BY <1>1, <1>5, <1>7, <1>8
<1>10. TokenReads(r[p], r[e], s[e], e)
  BY <1>4, <1>7, WholeIsLast
<1>11. /\ \A what : Expecting(r[p], what).open = r[p].open
       /\ \A kind \in Container : Len(Deeper(r[p], kind, e).open) = Len(r[p].open) + 1
       /\ r[p].open # <<>> => Len(Onward(r[p]).open) = Len(r[p].open)
       /\ r[p].open # <<>> => Len(Shallower(r[p]).open) = Len(r[p].open) - 1
  <2>1. \A what : Expecting(r[p], what).open = r[p].open
    BY <1>9 DEF Expecting, IsState
  <2>2. e \in Nat \ {0}
    BY <1>7
  <2>3. \A kind \in Container : Len(Deeper(r[p], kind, e).open) = Len(r[p].open) + 1
    BY <1>9, <2>2, DeeperState
  <2>4. r[p].open # <<>> => Len(Onward(r[p]).open) = Len(r[p].open)
    BY <1>9, OnwardState
  <2>5. r[p].open # <<>> => Len(Shallower(r[p]).open) = Len(r[p].open) - 1
    BY <1>9, ShallowerState
  <2> QED
    BY <2>1, <2>3, <2>4, <2>5
<1>12. CloserNext(r[p], s[e]) /\ r[e] = Shallower(r[p])
  <2>1. Len(r[e].open) < Len(r[p].open) /\ Len(r[p].open) \in Nat
    BY <1>1, <1>5, <1>7, <1>8, <1>9
  <2> QED
    BY <1>10, <1>11, <2>1 DEF TokenReads, CommaNext
<1>13. Len(r[p].open) = m
  <2>1. Len(r[e].open) = Len(r[p].open) - 1
    BY <1>11, <1>12 DEF CloserNext
  <2> QED
    BY <1>1, <1>5, <1>7, <1>8, <1>9, <2>1
<1>14. PICK o : o = r[p].open[m].at
  OBVIOUS
<1>15. WasOpened(r, s, p, m, o)
  <2>1. p \in 0 .. Len(s) /\ m \in 1 .. Len(r[p].open)
    BY <1>1, <1>7, <1>13
  <2> QED
    BY <1>14, <2>1, ScopesOpened
<1>16. o <= n
  <2> SUFFICES ASSUME o > n PROVE FALSE
    BY <1>15 DEF WasOpened
  <2>1. PICK k : k = o - 1
    OBVIOUS
  <2>2. o \in 1 .. p /\ Len(r[k].open) = m - 1
    BY <1>15, <2>1 DEF WasOpened
  <2>3. k \in n .. last /\ k < e
    BY <1>1, <1>7, <2>1, <2>2
  <2>4. k \in T
    BY <1>1, <2>2, <2>3
  <2> QED
    BY <1>3, <2>3, <2>4
<1>17. r[n].open[m].at = o
  <2>1. n \in o .. p
    BY <1>7, <1>15, <1>16 DEF WasOpened
  <2>2. WasOpen(r, p, m, n)
    BY <1>15, <2>1 DEF WasOpened
  <2> QED
    BY <1>14, <2>2 DEF WasOpen
<1>18. Inner(r[p]) = r[p].open[m]
  BY <1>9, <1>12, <1>13, InnerFacts DEF CloserNext
<1> QED
  BY <1>4, <1>7, <1>12, <1>14, <1>17, <1>18 DEF ClosesLater

\* A token that is an event.
IsEvent(s, q) == s[q] \notin {"colon", "comma"} /\ ~(q = 1 /\ s[1] = "EF")

ScalarRead(r, s, q) ==
  /\ ValueNext(r[q - 1]) /\ s[q] \in ScalarKind
  /\ r[q] = Expecting(r[q - 1], "separator")
BracketRead(r, s, q) ==
  \E kind \in Container :
    ValueNext(r[q - 1]) /\ s[q] = Opener[kind] /\ r[q] = Deeper(r[q - 1], kind, q)
KeyRead(r, s, q) ==
  /\ KeyNext(r[q - 1]) /\ s[q] = "string"
  /\ r[q] = Expecting(r[q - 1], "colon")
CloserRead(r, s, q) ==
  CloserNext(r[q - 1], s[q]) /\ r[q] = Shallower(r[q - 1])

LEMMA EventIs ==
  ASSUME NEW s, Len(s) \in Nat, NEW r, r = Run(s), NEW last \in 0 .. Len(s),
         IsWhole(r[last]), NEW q \in 1 .. last, IsEvent(s, q)
  PROVE  \/ ScalarRead(r, s, q) \/ BracketRead(r, s, q)
         \/ KeyRead(r, s, q) \/ CloserRead(r, s, q)
<1>1. TokenReads(r[q - 1], r[q], s[q], q)
  BY WholeIsLast
<1> QED
  BY <1>1 DEF TokenReads, IsEvent, ScalarRead, BracketRead, KeyRead, CloserRead

\* What follows the event at q.
LEMMA AfterBracket ==
  ASSUME NEW s, Len(s) \in Nat, NEW r, r = Run(s), NEW last \in 0 .. Len(s),
         IsWhole(r[last]), NEW q \in 1 .. last, r[q].expects = "first"
  PROVE  /\ q + 1 \in 1 .. last /\ NextEvent(s, q) = q + 1 /\ IsEvent(s, q + 1)
         /\ \/ ScalarRead(r, s, q + 1) \/ BracketRead(r, s, q + 1)
            \/ KeyRead(r, s, q + 1) \/ CloserRead(r, s, q + 1)
<1>1. ~IsWhole(r[q])
  BY DEF IsWhole
<1>2. PICK i : i = q + 1
  OBVIOUS
<1>3. i \in 1 .. last /\ i # 1 /\ i - 1 = q
  BY <1>1, <1>2
<1>4. TokenReads(r[q], r[i], s[i], i)
  BY <1>3, WholeIsLast
<1>5. \/ ScalarRead(r, s, i) \/ BracketRead(r, s, i)
      \/ KeyRead(r, s, i) \/ CloserRead(r, s, i)
  BY <1>3, <1>4
     DEF TokenReads, CommaNext, ScalarRead, BracketRead, KeyRead, CloserRead
<1>6. s[i] \notin {"colon", "comma"}
  <2>1. r[q].open # <<>> => Inner(r[q]).kind \in Container
    BY RunStates, InnerFacts
  <2> QED
    BY <1>3, <1>5, <2>1, TokenNames DEF ScalarRead, BracketRead, KeyRead, CloserRead, CloserNext
<1>7. NextEvent(s, q) = i
  BY <1>1, <1>2, <1>6 DEF NextEvent
<1> QED
  BY <1>2, <1>3, <1>5, <1>6, <1>7 DEF IsEvent

LEMMA AfterKey ==
  ASSUME NEW s, Len(s) \in Nat, NEW r, r = Run(s), NEW last \in 0 .. Len(s),
         IsWhole(r[last]), NEW q \in 1 .. last, r[q].expects = "colon"
  PROVE  /\ q + 2 \in 1 .. last /\ NextEvent(s, q) = q + 2 /\ IsEvent(s, q + 2)
         /\ s[q + 1] = "colon"
         /\ r[q + 1] = Expecting(r[q], "value")
         /\ ScalarRead(r, s, q + 2) \/ BracketRead(r, s, q + 2)
<1>1. ~IsWhole(r[q])
  BY DEF IsWhole
<1>2. PICK i : i = q + 1
  OBVIOUS
<1>3. i \in 1 .. last /\ i # 1 /\ i - 1 = q
  BY <1>1, <1>2
<1>4. TokenReads(r[q], r[i], s[i], i)
  BY <1>3, WholeIsLast
<1>5. s[i] = "colon" /\ r[i] = Expecting(r[q], "value")
  BY <1>3, <1>4 DEF TokenReads, ValueNext, KeyNext, CommaNext, CloserNext
<1>6. IsState(r[q]) /\ IsState(r[i])
  BY <1>3, RunStates
<1>7. r[i].expects = "value"
  BY <1>5, <1>6 DEF Expecting, IsState
<1>8. PICK j : j = i + 1
  OBVIOUS
<1>9. ~IsWhole(r[i])
  BY <1>7 DEF IsWhole
<1>10. j \in 1 .. last /\ j # 1 /\ j - 1 = i
  BY <1>3, <1>8, <1>9
<1>11. TokenReads(r[i], r[j], s[j], j)
  BY <1>10, WholeIsLast
<1>12. ScalarRead(r, s, j) \/ BracketRead(r, s, j)
  BY <1>7, <1>10, <1>11
     DEF TokenReads, KeyNext, CommaNext, CloserNext, ScalarRead, BracketRead
<1>13. IsEvent(s, j)
  BY <1>10, <1>12, TokenNames DEF ScalarRead, BracketRead, IsEvent
<1>14. j = q + 2
  BY <1>2, <1>8
<1>15. NextEvent(s, q) = q + 2
  BY <1>1, <1>2, <1>5 DEF NextEvent
<1> QED
  BY <1>2, <1>5, <1>10, <1>12, <1>13, <1>14, <1>15

LEMMA AfterValue ==
  ASSUME NEW s, Len(s) \in Nat, NEW r, r = Run(s), NEW last \in 0 .. Len(s),
         IsWhole(r[last]), NEW q \in 1 .. last, r[q].expects = "separator",
         ~IsWhole(r[q])
  PROVE  \/ /\ q + 1 \in 1 .. last /\ NextEvent(s, q) = q + 1 /\ IsEvent(s, q + 1)
            /\ CloserRead(r, s, q + 1)
         \/ /\ q + 2 \in 1 .. last /\ NextEvent(s, q) = q + 2 /\ IsEvent(s, q + 2)
            /\ s[q + 1] = "comma"
            /\ r[q].open # <<>> /\ r[q + 1] = Onward(r[q])
            /\ \/ ScalarRead(r, s, q + 2) \/ BracketRead(r, s, q + 2)
               \/ KeyRead(r, s, q + 2)
            /\ KeyRead(r, s, q + 2) <=> Inner(r[q]).kind = "object"
<1>1. r[q].open # <<>> /\ IsState(r[q])
  BY RunStates DEF IsWhole
<1>2. PICK i : i = q + 1
  OBVIOUS
<1>3. i \in 1 .. last /\ i # 1 /\ i - 1 = q
  <2> q # last
    OBVIOUS
  <2> QED
    BY <1>2
<1>4. TokenReads(r[q], r[i], s[i], i)
  BY <1>3, WholeIsLast
<1>5. Inner(r[q]).kind \in Container
  BY <1>1, InnerFacts
<1>6. \/ s[i] = "comma" /\ r[i] = Onward(r[q])
      \/ CloserRead(r, s, i)
  BY <1>3, <1>4 DEF TokenReads, ValueNext, KeyNext, CommaNext, CloserRead
<1>7. CASE CloserRead(r, s, i)
  <2>1. s[i] \notin {"colon", "comma"}
    BY <1>3, <1>5, <1>7, TokenNames DEF CloserRead, CloserNext
  <2> QED
    BY <1>2, <1>3, <1>7, <2>1 DEF NextEvent, IsEvent
<1>8. CASE s[i] = "comma" /\ r[i] = Onward(r[q])
  <2>1. /\ IsState(r[i]) /\ r[i].open # <<>>
        /\ r[i].expects = IF Inner(r[q]).kind = "object" THEN "key" ELSE "value"
        /\ Inner(r[i]).kind = Inner(r[q]).kind
    BY <1>1, <1>8, OnwardState
  <2>2. PICK j : j = i + 1
    OBVIOUS
  <2>3. ~IsWhole(r[i])
    BY <2>1 DEF IsWhole
  <2>4. j \in 1 .. last /\ j # 1 /\ j - 1 = i
    <3> i # last
      BY <2>3
    <3> QED
      BY <1>3, <2>2
  <2>5. TokenReads(r[i], r[j], s[j], j)
    BY <2>4, WholeIsLast
  <2>6. \/ ScalarRead(r, s, j) \/ BracketRead(r, s, j) \/ KeyRead(r, s, j)
    BY <2>1, <2>4, <2>5
       DEF TokenReads, CommaNext, CloserNext, ScalarRead, BracketRead, KeyRead
  <2>7. KeyRead(r, s, j) <=> Inner(r[q]).kind = "object"
    <3>1. KeyRead(r, s, j) => r[i].expects # "value"
      BY <2>4 DEF KeyRead, KeyNext
    <3>2. ScalarRead(r, s, j) \/ BracketRead(r, s, j) => r[i].expects # "key"
      BY <2>4 DEF ScalarRead, BracketRead, ValueNext
    <3> QED
      BY <2>1, <2>6, <3>1, <3>2
  <2>8. IsEvent(s, j)
    BY <2>4, <2>6, TokenNames DEF ScalarRead, BracketRead, KeyRead, IsEvent
  <2>9. j = q + 2
    BY <1>2, <2>2
  <2>10. NextEvent(s, q) = q + 2
    BY <1>2, <1>8 DEF NextEvent
  <2> QED
    BY <1>1, <1>2, <1>8, <2>4, <2>6, <2>7, <2>8, <2>9, <2>10
<1> QED
  BY <1>6, <1>7, <1>8

LEMMA FirstIs ==
  ASSUME NEW s, Len(s) \in Nat, NEW r, r = Run(s), NEW last \in 0 .. Len(s),
         IsWhole(r[last])
  PROVE  /\ FirstEvent(s) \in 1 .. last /\ IsEvent(s, FirstEvent(s))
         /\ r[FirstEvent(s) - 1] = Outset
         /\ ScalarRead(r, s, FirstEvent(s)) \/ BracketRead(r, s, FirstEvent(s))
<1>1. r[0] = Outset
  BY RunSteps
<1>2. last # 0
  BY <1>1 DEF IsWhole, Outset
<1>3. TokenReads(r[0], r[1], s[1], 1)
  <2>1. 1 \in 1 .. last /\ 1 - 1 = 0
    BY <1>2
  <2>2. \A k \in 1 .. last : TokenReads(r[k - 1], r[k], s[k], k)
    BY WholeIsLast
  <2> QED
    BY <2>1, <2>2
<1>4. CASE s[1] = "EF"
  <2>1. r[1] = Outset
    BY <1>1, <1>3, <1>4, TokenNames
       DEF TokenReads, CloserNext, Outset
  <2>2. 2 \in 1 .. last /\ 2 - 1 = 1
    <3> last # 1
      BY <2>1 DEF IsWhole, Outset
    <3> QED
      BY <1>2
  <2>3. TokenReads(r[1], r[2], s[2], 2)
    <3>1. \A k \in 1 .. last : TokenReads(r[k - 1], r[k], s[k], k)
      BY WholeIsLast
    <3> QED
      BY <2>2, <3>1
  <2>4. ScalarRead(r, s, 2) \/ BracketRead(r, s, 2)
    BY <2>1, <2>2, <2>3
       DEF TokenReads, Outset, KeyNext, CommaNext, CloserNext, ScalarRead, BracketRead
  <2> QED
    BY <1>4, <2>1, <2>2, <2>4, TokenNames
       DEF FirstEvent, IsEvent, ScalarRead, BracketRead
<1>5. CASE s[1] # "EF"
  <2>1. 1 \in 1 .. last /\ 1 - 1 = 0
    BY <1>2
  <2>2. ScalarRead(r, s, 1) \/ BracketRead(r, s, 1)
    BY <1>1, <1>3, <1>5, <2>1
       DEF TokenReads, Outset, KeyNext, CommaNext, CloserNext, ScalarRead, BracketRead
  <2> QED
    BY <1>1, <1>5, <2>1, <2>2, TokenNames
       DEF FirstEvent, IsEvent, ScalarRead, BracketRead
<1> QED
  BY <1>4, <1>5

\* The recursive function EventAfter is a value of, or its beginning.
Counts(s, size, f) ==
  f = [k \in 0 .. size |-> IF k = 0 THEN FirstEvent(s) ELSE NextEvent(s, f[k - 1])]

LEMMA CountsExist ==
  ASSUME NEW s, NEW size \in Nat
  PROVE  \E f : Counts(s, size, f)
<1> DEFINE S == {m \in Nat : \E f : Counts(s, m, f)}
<1>1. 0 \in S
  <2> DEFINE f == [k \in 0 .. 0 |-> FirstEvent(s)]
  <2>1. f = [k \in 0 .. 0 |-> IF k = 0 THEN FirstEvent(s) ELSE NextEvent(s, f[k - 1])]
    OBVIOUS
  <2>2. Counts(s, 0, f)
    BY <2>1 DEF Counts
  <2> QED
    BY <2>2
<1>2. ASSUME NEW m \in Nat, m \in S PROVE m + 1 \in S
  <2>1. PICK f : Counts(s, m, f)
    BY <1>2
  <2> DEFINE g == [k \in 0 .. m + 1 |->
                     IF k = m + 1 THEN NextEvent(s, f[m]) ELSE f[k]]
  <2>2. ASSUME NEW k \in 0 .. m + 1
        PROVE  g[k] = IF k = 0 THEN FirstEvent(s) ELSE NextEvent(s, g[k - 1])
    <3>1. CASE k = m + 1
      <4>1. k # 0 /\ k - 1 = m /\ m \in 0 .. m + 1 /\ m # m + 1
        BY <3>1
      <4> QED
        BY <3>1, <4>1
    <3>2. CASE k # m + 1
      <4>1. k \in 0 .. m /\ g[k] = f[k]
        BY <3>2
      <4>2. f[k] = IF k = 0 THEN FirstEvent(s) ELSE NextEvent(s, f[k - 1])
        BY <2>1, <4>1 DEF Counts
      <4>3. k # 0 => k - 1 \in 0 .. m + 1 /\ k - 1 # m + 1
        BY <4>1
      <4> QED
        BY <4>1, <4>2, <4>3
    <3> QED
      BY <3>1, <3>2
  <2>3. g = [k \in 0 .. m + 1 |-> g[k]]
    OBVIOUS
  <2> HIDE DEF g
  <2>4. Counts(s, m + 1, g)
    BY <2>2, <2>3 DEF Counts
  <2> QED
    BY <2>4
<1>3. Nat \subseteq S
  <2> HIDE DEF S
  <2> QED
    BY <1>1, <1>2, SetInduction
<1> QED
  BY <1>3

\* Two beginnings of it agree.
LEMMA CountsAgree ==
  ASSUME NEW s, NEW m \in Nat, NEW n \in Nat, NEW f, NEW g,
         Counts(s, m, f), Counts(s, n, g)
  PROVE  \A k \in 0 .. m : k <= n => f[k] = g[k]
<1> DEFINE S == {k \in Nat : k <= m /\ k <= n => f[k] = g[k]}
<1>1. 0 \in S
  BY DEF Counts
<1>2. ASSUME NEW k \in Nat, k \in S PROVE k + 1 \in S
  <2> SUFFICES ASSUME k + 1 <= m, k + 1 <= n PROVE f[k + 1] = g[k + 1]
    OBVIOUS
  <2>1. PICK i : i = k + 1
    OBVIOUS
  <2>2. i \in 0 .. m /\ i \in 0 .. n /\ i # 0 /\ i - 1 = k /\ f[k] = g[k]
    BY <1>2, <2>1
  <2>3. f[i] = NextEvent(s, f[k]) /\ g[i] = NextEvent(s, g[k])
    BY <2>2 DEF Counts
  <2> QED
    BY <2>1, <2>2, <2>3
<1>3. Nat \subseteq S
  <2> HIDE DEF S
  <2> QED
    BY <1>1, <1>2, SetInduction
<1> QED
  BY <1>3

LEMMA EventSteps ==
  ASSUME NEW s
  PROVE  /\ EventAfter(s, 0) = FirstEvent(s)
         /\ \A calls \in Nat :
              EventAfter(s, calls + 1) = NextEvent(s, EventAfter(s, calls))
<1>1. ASSUME NEW calls \in Nat
      PROVE  \E f : Counts(s, calls, f) /\ EventAfter(s, calls) = f[calls]
  <2>1. \E f : Counts(s, calls, f)
    BY CountsExist
  <2>2. Counts(s, calls, CHOOSE f : Counts(s, calls, f))
    BY <2>1
  <2>3. EventAfter(s, calls) = (CHOOSE f : Counts(s, calls, f))[calls]
    BY DEF EventAfter, Counts
  <2> QED
    BY <2>2, <2>3
<1>2. EventAfter(s, 0) = FirstEvent(s)
  <2>1. PICK f : Counts(s, 0, f) /\ EventAfter(s, 0) = f[0]
    BY <1>1
  <2> QED
    BY <2>1 DEF Counts
<1>3. ASSUME NEW calls \in Nat
      PROVE  EventAfter(s, calls + 1) = NextEvent(s, EventAfter(s, calls))
  <2>1. PICK next \in Nat : next = calls + 1
    OBVIOUS
  <2>2. PICK f : Counts(s, calls, f) /\ EventAfter(s, calls) = f[calls]
    BY <1>1
  <2>3. PICK g : Counts(s, next, g) /\ EventAfter(s, next) = g[next]
    BY <1>1
  <2>4. f[calls] = g[calls]
    <3>1. calls \in 0 .. calls /\ calls <= next
      BY <2>1
    <3> QED
      BY <2>2, <2>3, <3>1, CountsAgree
  <2>5. next \in 0 .. next /\ next # 0 /\ next - 1 = calls
    BY <2>1
  <2>6. g[next] = NextEvent(s, g[calls])
    BY <2>3, <2>5 DEF Counts
  <2> QED
    BY <2>1, <2>2, <2>3, <2>4, <2>6
<1> QED
  BY <1>2, <1>3

\* A container that was closed is not open later.
LEMMA ClosedOnce ==
  ASSUME NEW s, Len(s) \in Nat, NEW r, r = Run(s), NEW n \in 0 .. Len(s),
         NEW k \in 1 .. n, CloserRead(r, s, k), NEW m \in 1 .. Len(r[n].open)
  PROVE  r[n].open[m].at # Inner(r[k - 1]).at
<1>1. PICK p \in 0 .. Len(s) : p = k - 1
  OBVIOUS
<1>2. IsState(r[p]) /\ r[p].open # <<>>
  BY <1>1, RunStates DEF CloserRead, CloserNext
<1>3. PICK depth \in Nat \ {0} : depth = Len(r[p].open)
  BY <1>2, InnerFacts
<1>4. PICK o : o = r[p].open[depth].at
  OBVIOUS
<1>5. Inner(r[p]).at = o
  BY <1>2, <1>3, <1>4, InnerFacts
<1>6. Len(r[k].open) = depth - 1
  BY <1>1, <1>2, <1>3, ShallowerState DEF CloserRead
<1>7. depth \in 1 .. Len(r[p].open)
  BY <1>3
<1>8. /\ o \in 1 .. p
      /\ \A j \in 1 .. depth - 1 : r[p].open[j].at \in 1 .. o - 1
  BY <1>1, <1>4, <1>7, ScopesIncrease
<1> SUFFICES ASSUME r[n].open[m].at = o PROVE FALSE
  BY <1>1, <1>5
<1>9. WasOpened(r, s, n, m, o)
  BY ScopesOpened
<1>10. p \in o .. n /\ k \in o .. n
  BY <1>1, <1>8
<1>11. WasOpen(r, n, m, p) /\ WasOpen(r, n, m, k)
  BY <1>9, <1>10 DEF WasOpened
<1>12. m \in 1 .. depth - 1
  <2>1. m <= Len(r[k].open)
    BY <1>11 DEF WasOpen
  <2> QED
    BY <1>6, <2>1
<1>13. r[p].open[m].at = o
  BY <1>11 DEF WasOpen
<1> QED
  BY <1>8, <1>12, <1>13

-----------------------------------------------------------------------------
(***************************************************************************)
(* Items and their containers.                                             *)
(***************************************************************************)

IsItem(s, q) ==
  ScalarRead(Run(s), s, q) \/ BracketRead(Run(s), s, q) \/ KeyRead(Run(s), s, q)

Depth(s, n) == Len(Run(s)[n].open)
Host(s, q) == Inner(Run(s)[q - 1])
IsOpen(s, n, q) == \E m \in 1 .. Depth(s, n) : Run(s)[n].open[m].at = q
HostOpen(s, n, q) ==
  Depth(s, q - 1) <= Depth(s, n) /\ Run(s)[n].open[Depth(s, q - 1)].at = Host(s, q).at

\* How many elements a container has in the end.
CountAt(st) == IF st.expects = "first" THEN 0 ELSE Inner(st).index + 1

\* One position is read on from another, and no container that was open is
\* closed.
Onto(s, n, more) ==
  /\ n \in 0 .. Len(s) /\ more \in n .. Len(s)
  /\ Depth(s, n) \in Nat /\ Depth(s, more) \in Nat
  /\ Depth(s, n) <= Depth(s, more)
  /\ \A m \in 1 .. Depth(s, n) : Run(s)[more].open[m].at = Run(s)[n].open[m].at
  /\ \A m \in Depth(s, n) + 1 .. Depth(s, more) : Run(s)[more].open[m].at \notin 1 .. n

LEMMA HostFacts ==
  ASSUME NEW s, Len(s) \in Nat, NEW q \in 1 .. Len(s)
  PROVE  /\ Depth(s, q - 1) \in Nat
         /\ Depth(s, q - 1) # 0 =>
              /\ Host(s, q).at \in 1 .. q - 1 /\ Host(s, q).index \in Nat
              /\ Host(s, q).kind \in Container
              /\ Host(s, q) = Run(s)[q - 1].open[Depth(s, q - 1)]
<1>1. PICK st : st = Run(s)[q - 1]
  OBVIOUS
<1>2. q - 1 \in 0 .. Len(s)
  OBVIOUS
<1>3. IsState(st)
  BY <1>1, <1>2, RunStates
<1>4. PICK depth : depth = Len(st.open)
  OBVIOUS
<1>5. depth \in Nat
  BY <1>3, <1>4, LenProperties DEF IsState
<1>6. ASSUME depth # 0
      PROVE  /\ Host(s, q).at \in 1 .. q - 1 /\ Host(s, q).index \in Nat
             /\ Host(s, q).kind \in Container
             /\ Host(s, q) = st.open[depth]
  <2>1. st.open # <<>>
    BY <1>4, <1>6
  <2>2. /\ Inner(st) = st.open[depth] /\ Inner(st).index \in Nat
        /\ Inner(st).kind \in Container
    BY <1>3, <1>4, <2>1, InnerFacts
  <2>3. depth \in 1 .. Len(Run(s)[q - 1].open)
    BY <1>1, <1>4, <1>5, <1>6
  <2>4. Run(s)[q - 1].open[depth].at \in 1 .. q - 1
    BY <1>2, <2>3, ScopesIncrease
  <2> QED
    BY <1>1, <2>2, <2>4 DEF Host
<1> QED
  BY <1>1, <1>4, <1>5, <1>6 DEF Depth

\* What a token says is what it does.
LEMMA TokenRead ==
  ASSUME NEW s, Len(s) \in Nat, NEW q \in 1 .. Len(s), NEW next,
         TokenReads(Run(s)[q - 1], next, s[q], q)
  PROVE  Run(s)[q] = next
<1>1. q - 1 \in 0 .. Len(s) /\ q \in Nat \ {0}
  OBVIOUS
<1>2. PICK st, token : st = Run(s)[q - 1] /\ token = s[q]
  OBVIOUS
<1>3. IsState(st)
  BY <1>1, <1>2, RunStates
<1>4. Advance(st, token, q) = next
  BY <1>1, <1>2, <1>3, AdvanceIs
<1> QED
  BY <1>2, <1>4, RunSteps

LEMMA ReadOnce ==
  ASSUME NEW s, Len(s) \in Nat, NEW q \in 1 .. Len(s)
  PROVE  /\ ScalarRead(Run(s), s, q) =>
              /\ ~BracketRead(Run(s), s, q) /\ ~KeyRead(Run(s), s, q)
              /\ ~CloserRead(Run(s), s, q)
         /\ BracketRead(Run(s), s, q) =>
              ~KeyRead(Run(s), s, q) /\ ~CloserRead(Run(s), s, q)
         /\ KeyRead(Run(s), s, q) => ~CloserRead(Run(s), s, q)
         /\ IsItem(s, q) \/ CloserRead(Run(s), s, q) => IsEvent(s, q)
<1>1. PICK st, token : st = Run(s)[q - 1] /\ token = s[q]
  OBVIOUS
<1>2. q - 1 \in 0 .. Len(s)
  OBVIOUS
<1>3. IsState(st)
  BY <1>1, <1>2, RunStates
<1>4. CloserNext(st, token) => token \in Closing
  BY <1>3, InnerFacts, TokenNames DEF CloserNext
<1>5. ValueNext(st) => ~KeyNext(st)
  BY DEF ValueNext, KeyNext
<1>6. ScalarRead(Run(s), s, q) => ValueNext(st) /\ token \in ScalarKind
  BY <1>1 DEF ScalarRead
<1>7. BracketRead(Run(s), s, q) => ValueNext(st) /\ token \in Opening
  BY <1>1, TokenNames DEF BracketRead
<1>8. KeyRead(Run(s), s, q) => KeyNext(st) /\ token = "string"
  BY <1>1 DEF KeyRead
<1>9. CloserRead(Run(s), s, q) => token \in Closing
  BY <1>1, <1>4 DEF CloserRead
<1> QED
  BY <1>1, <1>5, <1>6, <1>7, <1>8, <1>9, TokenNames DEF IsItem, IsEvent

\* Two states of reading with the same containers open.
SameOpen(st, later) ==
  /\ Len(later.open) = Len(st.open)
  /\ \A m \in 1 .. Len(st.open) - 1 : later.open[m] = st.open[m]
  /\ later.open[Len(st.open)].at = st.open[Len(st.open)].at
  /\ later.open[Len(st.open)].kind = st.open[Len(st.open)].kind

LEMMA SameItself ==
  ASSUME NEW st
  PROVE  SameOpen(st, st)
BY DEF SameOpen


\* The bracket of a container that is open.
LEMMA ScopeRead ==
  ASSUME NEW s, Len(s) \in Nat, NEW n \in 0 .. Len(s), NEW st, st = Run(s)[n],
         NEW m \in 1 .. Len(st.open), NEW o, o = st.open[m].at
  PROVE  /\ o \in 1 .. n /\ BracketRead(Run(s), s, o)
         /\ st.open[m].kind \in Container /\ s[o] = Opener[st.open[m].kind]
         /\ Run(s)[o] = Deeper(Run(s)[o - 1], st.open[m].kind, o)
         /\ Len(Run(s)[o - 1].open) = m - 1
         /\ \A j \in 1 .. m - 1 : Run(s)[o - 1].open[j] = st.open[j]
<1>1. PICK r, kind : r = Run(s) /\ kind = st.open[m].kind
  OBVIOUS
<1>2. kind \in Container
  <2>1. IsState(st)
    BY RunStates
  <2>2. st.open[m] \in Scopes
    BY <2>1, ElementOfSeq DEF IsState
  <2> QED
    BY <1>1, <2>2 DEF Scopes
<1>3. WasOpened(r, s, n, m, o)
  <2>1. m \in 1 .. Len(r[n].open) /\ o = r[n].open[m].at
    BY <1>1
  <2> QED
    BY <1>1, <2>1, ScopesOpened
<1>4. /\ o \in 1 .. n /\ s[o] = Opener[kind] /\ ValueNext(r[o - 1])
      /\ Len(r[o - 1].open) = m - 1
      /\ \A j \in 1 .. m - 1 : r[o - 1].open[j] = st.open[j]
  BY <1>1, <1>3 DEF WasOpened
<1>5. o \in 1 .. Len(s)
  BY <1>4
<1>6. Run(s)[o] = Deeper(Run(s)[o - 1], kind, o)
  <2>1. TokenReads(Run(s)[o - 1], Deeper(Run(s)[o - 1], kind, o), s[o], o)
    BY <1>1, <1>2, <1>4 DEF TokenReads
  <2> QED
    BY <1>5, <2>1, TokenRead
<1>7. BracketRead(Run(s), s, o)
  BY <1>1, <1>2, <1>4, <1>6 DEF BracketRead
<1> QED
  BY <1>1, <1>2, <1>4, <1>6, <1>7

\* No element of a container was read before its first.
LEMMA FirstIndex ==
  ASSUME NEW s, Len(s) \in Nat, NEW n \in 0 .. Len(s), NEW st, st = Run(s)[n],
         st.expects = "first"
  PROVE  Inner(st).index = 0
<1>1. n # 0
  BY RunSteps DEF Outset
<1>2. PICK k : k = n - 1
  OBVIOUS
<1>3. n \in 1 .. Len(s) /\ k \in 0 .. Len(s) /\ n \in Nat \ {0}
  BY <1>1, <1>2
<1>4. PICK was, token : was = Run(s)[k] /\ token = s[n]
  OBVIOUS
<1>5. st = Advance(was, token, n) /\ IsState(was)
  BY <1>2, <1>3, <1>4, RunSteps, RunStates
<1>6. TokenReads(was, st, token, n)
  BY <1>3, <1>5, AdvanceIs DEF Lost
<1>7. n = 1 => was = Outset
  BY <1>2, <1>4, RunSteps
<1>8. PICK kind \in Container : st = Deeper(was, kind, n)
  <2>1. \A what : Expecting(was, what).expects = what
    BY <1>5 DEF Expecting, IsState
  <2>2. Onward(was).expects # "first" /\ Shallower(was).expects # "first"
    BY DEF Onward, Shallower
  <2>3. Outset.expects # "first"
    BY DEF Outset
  <2> QED
    BY <1>6, <1>7, <2>1, <2>2, <2>3 DEF TokenReads
<1>9. Inner(Deeper(was, kind, n)) = [at |-> n, kind |-> kind, index |-> 0]
  BY <1>3, <1>5, <1>8, DeeperState
<1> QED
  BY <1>8, <1>9

-----------------------------------------------------------------------------
(***************************************************************************)
(* The token q that comes after n others, by what it may be.               *)
(***************************************************************************)

\* st is what was read before the token.
Comes(s, n, q, st) ==
  /\ Len(s) \in Nat /\ n \in Nat /\ n \in 0 .. Len(s) /\ q = n + 1 /\ q \in 1 .. Len(s)
  /\ st = Run(s)[n] /\ IsState(st)

LEMMA ComesFacts ==
  ASSUME NEW s, NEW n, NEW q, NEW st, Comes(s, n, q, st)
  PROVE  /\ Len(s) \in Nat /\ n \in Nat /\ n \in 0 .. Len(s) /\ q \in n .. Len(s)
         /\ q \in 1 .. Len(s) /\ q - 1 = n /\ Run(s)[q - 1] = st /\ IsState(st)
         /\ q \in Nat \ {0} /\ q \notin 1 .. n
         /\ n + 1 .. q = {q} /\ 1 .. n = 1 .. q - 1
         /\ Depth(s, n) = Len(st.open) /\ Depth(s, n) \in Nat
<1>1. /\ Len(s) \in Nat /\ n \in Nat /\ n \in 0 .. Len(s) /\ q = n + 1
      /\ q \in 1 .. Len(s)
  BY DEF Comes
<1>2. /\ q \in n .. Len(s) /\ q - 1 = n /\ q \in Nat \ {0} /\ q \notin 1 .. n
      /\ n + 1 .. q = {q} /\ 1 .. n = 1 .. q - 1
  BY <1>1
<1>3. Run(s)[q - 1] = st /\ IsState(st) /\ Depth(s, n) = Len(st.open)
  BY <1>2 DEF Comes, Depth
<1>4. Depth(s, n) \in Nat
  BY <1>3, LenProperties DEF IsState
<1> QED
  BY <1>1, <1>2, <1>3, <1>4

LEMMA ScalarComes ==
  ASSUME NEW s, NEW n, NEW q, NEW st, Comes(s, n, q, st),
         ValueNext(st), s[q] \in ScalarKind
  PROVE  /\ ScalarRead(Run(s), s, q) /\ ~IsWhole(st) /\ Onto(s, n, q)
         /\ Run(s)[q].open = st.open /\ Run(s)[q].expects = "separator"
<1>1. TokenReads(Run(s)[q - 1], Expecting(st, "separator"), s[q], q)
  BY ComesFacts DEF TokenReads
<1>2. Run(s)[q] = Expecting(st, "separator")
  BY <1>1, ComesFacts, TokenRead
<1>3. Run(s)[q].open = st.open /\ Run(s)[q].expects = "separator"
  BY <1>2, ComesFacts, ExpectingState DEF Expectation
<1>4. ScalarRead(Run(s), s, q)
  BY <1>2, ComesFacts DEF ScalarRead
<1>5. Onto(s, n, q)
  BY <1>3, ComesFacts DEF Onto, Depth
<1> QED
  BY <1>3, <1>4, <1>5 DEF IsWhole, ValueNext

LEMMA BracketComes ==
  ASSUME NEW s, NEW n, NEW q, NEW st, Comes(s, n, q, st),
         ValueNext(st), NEW kind \in Container, s[q] = Opener[kind]
  PROVE  /\ BracketRead(Run(s), s, q) /\ ~IsWhole(st) /\ Onto(s, n, q)
         /\ Run(s)[q] = Deeper(st, kind, q)
         /\ Run(s)[q].expects = "first" /\ Depth(s, q) = Depth(s, n) + 1
         /\ \A m \in 1 .. Depth(s, n) : Run(s)[q].open[m] = st.open[m]
         /\ Run(s)[q].open[Depth(s, n) + 1] = [at |-> q, kind |-> kind, index |-> 0]
         /\ IsOpen(s, q, q)
<1>1. TokenReads(Run(s)[q - 1], Deeper(st, kind, q), s[q], q)
  BY ComesFacts DEF TokenReads
<1>2. Run(s)[q] = Deeper(st, kind, q)
  BY <1>1, ComesFacts, TokenRead
<1>3. PICK depth \in Nat : depth = Depth(s, n) /\ depth = Len(st.open)
  BY ComesFacts
<1>4. /\ Run(s)[q].expects = "first" /\ Depth(s, q) = depth + 1
      /\ \A m \in 1 .. depth : Run(s)[q].open[m] = st.open[m]
      /\ Run(s)[q].open[depth + 1] = [at |-> q, kind |-> kind, index |-> 0]
  <2>1. /\ Deeper(st, kind, q).expects = "first"
        /\ Len(Deeper(st, kind, q).open) = Len(st.open) + 1
        /\ \A m \in 1 .. Len(st.open) : Deeper(st, kind, q).open[m] = st.open[m]
        /\ Deeper(st, kind, q).open[Len(st.open) + 1] =
             [at |-> q, kind |-> kind, index |-> 0]
    BY ComesFacts, DeeperState
  <2> QED
    BY <1>2, <1>3, <2>1 DEF Depth
<1>5. BracketRead(Run(s), s, q)
  BY <1>2, ComesFacts DEF BracketRead
<1>6. Onto(s, n, q)
  <2>1. \A m \in depth + 1 .. depth + 1 : Run(s)[q].open[m].at = q
    BY <1>4
  <2>2. \A m \in 1 .. depth : Run(s)[n].open[m] = st.open[m]
    BY DEF Comes
  <2>3. q \notin 1 .. n /\ n \in 0 .. Len(s) /\ q \in n .. Len(s)
    BY ComesFacts
  <2> QED
    BY <1>3, <1>4, <2>1, <2>2, <2>3 DEF Onto
<1>7. IsOpen(s, q, q)
  <2>1. depth + 1 \in 1 .. depth + 1
    OBVIOUS
  <2> QED
    BY <1>4, <2>1 DEF IsOpen
<1> QED
  BY <1>2, <1>3, <1>4, <1>5, <1>6, <1>7 DEF IsWhole, ValueNext

LEMMA KeyComes ==
  ASSUME NEW s, NEW n, NEW q, NEW st, Comes(s, n, q, st),
         KeyNext(st), s[q] = "string", NEW more, more = q + 1, more \in 1 .. Len(s),
         s[more] = "colon"
  PROVE  /\ KeyRead(Run(s), s, q) /\ ~IsWhole(st) /\ Onto(s, n, more)
         /\ more - 1 = q /\ n + 1 .. more = {q, more} /\ q # more
         /\ Run(s)[more].open = st.open /\ Run(s)[more].expects = "value"
         /\ ~IsItem(s, more) /\ ~CloserRead(Run(s), s, more)
         /\ st.open # <<>> /\ Inner(st).kind = "object"
<1>1. PICK mid, next : mid = Expecting(st, "colon") /\ next = Expecting(mid, "value")
  OBVIOUS
<1>2. more - 1 = q /\ n + 1 .. more = {q, more} /\ q # more /\ more # 1 /\ more \in n .. Len(s)
  <2>1. n \in Nat /\ q = n + 1 /\ more = n + 2 /\ more \in 1 .. Len(s) /\ Len(s) \in Nat
    BY DEF Comes
  <2>2. \A k : k \in n + 1 .. n + 2 <=> k \in {n + 1, n + 2}
    BY <2>1
  <2>3. n + 1 .. more = {q, more}
    BY <2>1, <2>2
  <2> QED
    BY <2>1, <2>3
<1>3. st.open # <<>> /\ Inner(st).kind = "object"
  BY ComesFacts DEF IsState, KeyNext
<1>4. /\ IsState(mid) /\ mid.expects = "colon" /\ mid.open = st.open
      /\ next.expects = "value" /\ next.open = st.open
  <2>1. IsState(mid) /\ mid.expects = "colon" /\ mid.open = st.open
    BY <1>1, <1>3, ComesFacts, ExpectingState DEF Expectation
  <2>2. next.expects = "value" /\ next.open = mid.open
    BY <1>1, <2>1, ExpectingState DEF Expectation
  <2> QED
    BY <2>1, <2>2
<1>5. Run(s)[q] = mid /\ KeyRead(Run(s), s, q)
  <2>1. TokenReads(Run(s)[q - 1], mid, s[q], q)
    BY <1>1, ComesFacts DEF TokenReads
  <2>2. Run(s)[q] = mid
    BY <2>1, ComesFacts, TokenRead
  <2> QED
    BY <1>1, <2>2, ComesFacts DEF KeyRead
<1>6. Run(s)[more] = next
  <2>1. TokenReads(Run(s)[more - 1], next, s[more], more)
    BY <1>1, <1>2, <1>4, <1>5 DEF TokenReads
  <2> QED
    BY <2>1, ComesFacts, TokenRead
<1>7. ~IsItem(s, more) /\ ~CloserRead(Run(s), s, more)
  <2>1. ~ValueNext(mid) /\ ~KeyNext(mid)
    BY <1>4 DEF ValueNext, KeyNext
  <2> QED
    BY <1>2, <1>4, <1>5, <2>1
      DEF CloserRead, CloserNext, IsItem, ScalarRead, BracketRead, KeyRead
<1>8. Onto(s, n, more)
  <2>1. Run(s)[n].open = Run(s)[more].open /\ Depth(s, more) = Depth(s, n)
    BY <1>4, <1>6 DEF Depth, Comes
  <2>2. \A m \in Depth(s, n) + 1 .. Depth(s, n) : FALSE
    BY ComesFacts
  <2> QED
    BY <1>2, <2>1, <2>2, ComesFacts DEF Onto
<1> QED
  BY <1>2, <1>3, <1>4, <1>5, <1>6, <1>7, <1>8 DEF IsWhole

LEMMA CommaComes ==
  ASSUME NEW s, NEW n, NEW q, NEW st, Comes(s, n, q, st),
         st.expects = "separator", st.open # <<>>, s[q] = "comma"
  PROVE  /\ ~IsWhole(st) /\ Onto(s, n, q) /\ Run(s)[q] = Onward(st)
         /\ Run(s)[q].expects = IF Inner(st).kind = "object" THEN "key" ELSE "value"
         /\ Depth(s, q) = Depth(s, n) /\ Depth(s, n) \in Nat \ {0}
         /\ \A m \in 1 .. Depth(s, n) - 1 : Run(s)[q].open[m] = st.open[m]
         /\ Inner(st) = st.open[Depth(s, n)]
         /\ Inner(Run(s)[q]) = Run(s)[q].open[Depth(s, n)]
         /\ Inner(Run(s)[q]).at = Inner(st).at
         /\ Inner(Run(s)[q]).kind = Inner(st).kind
         /\ Inner(Run(s)[q]).index = Inner(st).index + 1
         /\ ~IsItem(s, q) /\ ~CloserRead(Run(s), s, q)
<1>1. PICK next : next = Onward(st)
  OBVIOUS
<1>2. Run(s)[q] = next
  <2>1. TokenReads(Run(s)[q - 1], next, s[q], q)
    BY <1>1, ComesFacts DEF TokenReads, CommaNext
  <2> QED
    BY <2>1, ComesFacts, TokenRead
<1>3. IsState(st)
  BY ComesFacts
<1>4. PICK depth \in Nat \ {0} : depth = Len(st.open) /\ depth = Depth(s, n)
  BY <1>3, ComesFacts, InnerFacts
<1>5. Inner(st) = st.open[depth] /\ Inner(st).kind \in Container
  BY <1>3, <1>4, InnerFacts
<1>6. /\ next.expects = IF Inner(st).kind = "object" THEN "key" ELSE "value"
      /\ Len(next.open) = depth
      /\ \A m \in 1 .. depth - 1 : next.open[m] = st.open[m]
      /\ Inner(next).at = Inner(st).at
      /\ Inner(next).kind = Inner(st).kind
      /\ Inner(next).index = Inner(st).index + 1
      /\ next.open[depth] = Inner(next)
  BY <1>1, <1>3, <1>4, OnwardState
<1>7. ~IsItem(s, q) /\ ~CloserRead(Run(s), s, q)
  <2>1. ~ValueNext(st) /\ ~KeyNext(st)
    BY DEF ValueNext, KeyNext
  <2>2. Closer[Inner(st).kind] # "comma"
    BY <1>5, TokenNames
  <2>3. Run(s)[q - 1] = st
    BY ComesFacts
  <2> QED
    BY <2>1, <2>2, <2>3
      DEF CloserRead, CloserNext, IsItem, ScalarRead, BracketRead, KeyRead
<1>8. Onto(s, n, q)
  <2>1. \A m \in 1 .. depth : next.open[m].at = st.open[m].at
    <3> SUFFICES ASSUME NEW m \in 1 .. depth
                 PROVE  next.open[m].at = st.open[m].at
      OBVIOUS
    <3>1. CASE m = depth
      BY <1>5, <1>6, <3>1
    <3>2. CASE m # depth
      <4>1. m \in 1 .. depth - 1
        BY <3>2
      <4> QED
        BY <1>6, <4>1
    <3> QED
      BY <3>1, <3>2
  <2>2. Run(s)[n] = st
    BY DEF Comes
  <2> QED
    BY <1>2, <1>4, <1>6, <2>1, <2>2, ComesFacts DEF Onto, Depth
<1> QED
  BY <1>1, <1>2, <1>4, <1>5, <1>6, <1>7, <1>8 DEF IsWhole, Depth

LEMMA CloserComes ==
  ASSUME NEW s, NEW n, NEW q, NEW st, Comes(s, n, q, st), CloserNext(st, s[q])
  PROVE  /\ CloserRead(Run(s), s, q) /\ Run(s)[q].expects = "separator"
         /\ Depth(s, n) \in Nat \ {0} /\ Depth(s, q) = Depth(s, n) - 1
         /\ \A m \in 1 .. Depth(s, n) - 1 : Run(s)[q].open[m] = st.open[m]
         /\ Inner(st) = st.open[Depth(s, n)]
         /\ IsState(Run(s)[q])
<1>1. TokenReads(Run(s)[q - 1], Shallower(st), s[q], q)
  BY ComesFacts DEF TokenReads
<1>2. Run(s)[q] = Shallower(st)
  BY <1>1, ComesFacts, TokenRead
<1>3. IsState(st) /\ st.open # <<>>
  BY ComesFacts DEF CloserNext
<1>4. PICK depth \in Nat \ {0} : depth = Len(st.open) /\ depth = Depth(s, n)
  BY <1>3, ComesFacts, InnerFacts
<1>5. /\ IsState(Shallower(st)) /\ Shallower(st).expects = "separator"
      /\ Len(Shallower(st).open) = Len(st.open) - 1
      /\ \A m \in 1 .. Len(st.open) - 1 : Shallower(st).open[m] = st.open[m]
      /\ Inner(st) = st.open[Len(st.open)]
  BY <1>3, InnerFacts, ShallowerState
<1>6. CloserRead(Run(s), s, q)
  BY <1>2, ComesFacts DEF CloserRead
<1> QED
  BY <1>2, <1>4, <1>5, <1>6 DEF Depth

\* What may stand next in a text that turns out to be one whole value.
LEMMA WholeAhead ==
  ASSUME NEW s, Len(s) \in Nat, NEW last \in 0 .. Len(s), IsWhole(Run(s)[last]),
         NEW n \in 0 .. Len(s), NEW st, st = Run(s)[n], st.expects # "nothing"
  PROVE  \/ n = last /\ IsWhole(st)
         \/ /\ n < last /\ ~IsWhole(st) /\ n + 1 \in 1 .. Len(s)
            /\ TokenReads(st, Run(s)[n + 1], s[n + 1], n + 1)
<1>1. PICK r : r = Run(s)
  OBVIOUS
<1>2. /\ \A k \in 1 .. last : TokenReads(r[k - 1], r[k], s[k], k)
      /\ \A k \in 0 .. last : IsWhole(r[k]) => k = last
  BY <1>1, WholeIsLast
<1>3. CASE n = last
  BY <1>3
<1>4. CASE n < last
  <2>1. n + 1 \in 1 .. last /\ n + 1 \in 1 .. Len(s) /\ n \in 0 .. last /\ (n + 1) - 1 = n
    BY <1>4
  <2>2. TokenReads(r[(n + 1) - 1], r[n + 1], s[n + 1], n + 1)
    BY <1>2, <2>1
  <2>3. ~IsWhole(st)
    BY <1>1, <1>2, <1>4, <2>1
  <2> QED
    BY <1>1, <1>4, <2>1, <2>2, <2>3
<1>5. CASE n > last
  <2>1. last + 1 \in 1 .. n /\ (last + 1) - 1 = last
    BY <1>5
  <2>2. \A k \in 1 .. n : TokenReads(r[k - 1], r[k], s[k], k)
    BY <1>1, NotLost
  <2>3. TokenReads(r[last], r[last + 1], s[last + 1], last + 1)
    BY <2>1, <2>2
  <2>4. r[last].expects = "separator" /\ r[last].open = <<>>
    BY <1>1 DEF IsWhole
  <2>5. last + 1 = 1
    BY <2>3, <2>4 DEF TokenReads, ValueNext, KeyNext, CommaNext, CloserNext
  <2>6. last = 0 /\ r[0] = Outset
    BY <1>1, <2>5, RunSteps
  <2> QED
    BY <2>4, <2>6 DEF Outset
<1> QED
  BY <1>3, <1>4, <1>5

LEMMA NextToken ==
  ASSUME NEW st, NEW next, NEW token, NEW n, TokenReads(st, next, token, n),
         ~(n = 1 /\ token = "EF")
  PROVE  /\ ValueNext(st) =>
              token \in ScalarKind \cup Opening \/ CloserNext(st, token)
         /\ KeyNext(st) => token = "string" \/ CloserNext(st, token)
         /\ st.expects = "colon" => token = "colon"
         /\ st.expects = "separator" =>
              st.open # <<>> /\ (token = "comma" \/ CloserNext(st, token))
<1>1. Opening = {"begin_object", "begin_array"}
      /\ \A kind \in Container : Opener[kind] \in Opening
  BY TokenNames
<1>2. ~(ValueNext(st) /\ KeyNext(st))
  BY DEF ValueNext, KeyNext
<1>3. st.expects = "colon" => ~ValueNext(st) /\ ~KeyNext(st) /\ ~CommaNext(st)
                              /\ ~CloserNext(st, token)
  BY DEF ValueNext, KeyNext, CommaNext, CloserNext
<1>4. st.expects = "separator" => ~ValueNext(st) /\ ~KeyNext(st)
  BY DEF ValueNext, KeyNext
<1>5. CommaNext(st) \/ CloserNext(st, token) => st.open # <<>>
  BY DEF CommaNext, CloserNext
<1>6. CommaNext(st) => st.expects = "separator"
  BY DEF CommaNext
<1>7. ValueNext(st) \/ KeyNext(st) => st.expects # "separator" /\ st.expects # "colon"
  BY DEF ValueNext, KeyNext
<1> QED
  BY <1>1, <1>2, <1>3, <1>4, <1>5, <1>6, <1>7 DEF TokenReads

LEMMA StringReads ==
  ASSUME NEW st, IsState(st), KeyNext(st), NEW next, NEW n,
         TokenReads(st, next, "string", n)
  PROVE  next = Expecting(st, "colon")
<1>1. ~ValueNext(st) /\ ~CommaNext(st) /\ st.expects # "colon"
  BY DEF ValueNext, KeyNext, CommaNext
<1>2. \A kind \in Container : Closer[kind] # "string"
  BY TokenNames
<1>3. st.open # <<>>
  BY DEF IsState, KeyNext
<1>4. ~CloserNext(st, "string")
  BY <1>2, <1>3, InnerFacts DEF CloserNext
<1> QED
  BY <1>1, <1>4 DEF TokenReads
=============================================================================
