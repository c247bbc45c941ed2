---------------------------- MODULE JsonGrammar ----------------------------
(***************************************************************************)
(* A reference for the parsers and the traversers: which texts are JSON,   *)
(* and which events they consist of (in the order tests/unittests.cpp      *)
(* spells out for simple_nested.json); and sets of texts to check with.    *)
(***************************************************************************)
EXTENDS Naturals, Sequences, SequencesExt, FiniteSetsExt, JsonText

-----------------------------------------------------------------------------
(***************************************************************************)
(* A text is JSON if its containers can be replaced by values, one without *)
(* containers inside after the other, until one value is left.             *)
(***************************************************************************)

IsMember(tokens) ==
  Len(tokens) = 3 /\ tokens[1] = "string" /\ tokens[2] = "colon"
                  /\ tokens[3] \in ScalarKind

\* Parts of n tokens each, with commas between them.
Parts(inside, n) ==
  [k \in 1 .. (Len(inside) + 1) \div (n + 1) |->
     SubSeq(inside, (k - 1) * (n + 1) + 1, k * (n + 1) - 1)]
Separated(inside, n) ==
  /\ (Len(inside) + 1) % (n + 1) = 0
  /\ \A k \in 1 .. Len(inside) : k % (n + 1) = 0 => inside[k] = "comma"

IsFlat(open, inside) ==
  \/ inside = <<>>
  \/ open = "begin_array" /\ Separated(inside, 1) /\
       \A k \in DOMAIN Parts(inside, 1) : Parts(inside, 1)[k][1] \in ScalarKind
  \/ open = "begin_object" /\ Separated(inside, 3) /\
       \A k \in DOMAIN Parts(inside, 3) : IsMember(Parts(inside, 3)[k])

\* The first container to close is replaced by a value, if it is well-formed.
ReduceInnermost(tokens) ==
  LET closing == {k \in DOMAIN tokens : tokens[k] \in Closing}
      end == Min(closing)
      opening == {k \in 1 .. end : tokens[k] \in Opening}
      start == Max(opening)
  IN  IF /\ closing # {} /\ opening # {}
         /\ \E kind \in Container :
              tokens[start] = Opener[kind] /\ tokens[end] = Closer[kind]
         /\ IsFlat(tokens[start], SubSeq(tokens, start + 1, end - 1))
        THEN SubSeq(tokens, 1, start - 1) \o <<"null">>
               \o SubSeq(tokens, end + 1, Len(tokens))
        ELSE tokens

IsJson(tokens) ==
  LET reduced[n \in 0 .. Len(tokens)] ==
        IF n = 0 THEN tokens ELSE ReduceInnermost(reduced[n - 1])
      rest == reduced[Len(tokens)]
  IN  Len(rest) = 1 /\ rest[1] \in ScalarKind

-----------------------------------------------------------------------------
\* How many containers are open at the deepest place.
Nesting(tokens) ==
  LET open(k) ==
        Cardinality({n \in 1 .. k : tokens[n] \in Opening})
          - Cardinality({n \in 1 .. k : tokens[n] \in Closing})
  IN  Max({open(k) : k \in DOMAIN tokens} \cup {0})

\* The events of a text that is JSON; types[kind] is what a value of that kind
\* is shown as.
EventsOf(tokens, types) ==
  LET key(n) ==
        n < Len(tokens) /\ tokens[n] = "string" /\ tokens[n + 1] = "colon"
      event(n) ==
        CASE tokens[n] = "begin_object" -> <<Value("object", NoPayload)>>
          [] tokens[n] = "begin_array" -> <<Value("array", NoPayload)>>
          [] tokens[n] \in Closing ->
               <<Value("end_of_container", NoPayload)>>
          [] key(n) -> <<Value("key", Payload("string", n))>>
          [] tokens[n] \in ScalarKind /\ ~key(n) ->
               <<Value(types[tokens[n]], Payload(tokens[n], n))>>
          [] OTHER -> <<>>
  IN  FlattenSeq([n \in DOMAIN tokens |-> event(n)])

-----------------------------------------------------------------------------
(***************************************************************************)
(* Texts.                                                                  *)
(***************************************************************************)

WithCommas(parts) ==
  FlattenSeq([n \in DOMAIN parts |->
                IF n = 1 THEN parts[n] ELSE <<"comma">> \o parts[n]])
ArrayText(elements) ==
  <<"begin_array">> \o WithCommas(elements) \o <<"end_array">>
ObjectText(elements) ==
  LET members ==
        [n \in DOMAIN elements |-> <<"string", "colon">> \o elements[n]]
  IN  <<"begin_object">> \o WithCommas(members) \o <<"end_object">>

\* All containers of at most n of the given texts.
Containers(texts, n) ==
  UNION {{ArrayText(s), ObjectText(s)} : s \in BoundedSeq(texts, n)}

Leaves == {<<"string">>, <<"narrow">>}
Flat == Leaves \cup Containers(Leaves, 2)
Nested == Flat \cup Containers(Flat, 2)

\* Every kind of scalar, alone and in containers of up to three elements.
Kinds == {<<kind>> : kind \in ScalarKind}
Mixed == Kinds \cup Containers(Kinds, 2)

\* Four containers inside one another, empty ones at every depth.
Small == Containers({<<"string">>}, 1)
Deep == Containers(Containers(Containers(Small, 1), 1), 2)

SmallTexts == Nested \cup Mixed \cup Deep

\* Texts of which most are not JSON: every short sequence of tokens, and
\* every text that differs from a given one in a token.
Broken(tokens) ==
  {[tokens EXCEPT ![n] = token] : n \in DOMAIN tokens, token \in Token}
    \cup {RemoveAt(tokens, n) : n \in DOMAIN tokens}
    \cup {InsertAt(tokens, n, token) : n \in 1 .. Len(tokens) + 1, token \in Token}
=============================================================================
