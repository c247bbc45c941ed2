-------------------------- MODULE MCSimdjsonParser --------------------------
(***************************************************************************)
(* Values of the constants of SimdjsonParser for model checking: every     *)
(* short text, and every text that differs from one of some longer ones in *)
(* a token.                                                                *)
(***************************************************************************)
EXTENDS SimdjsonParser, JsonGrammar

Structure == {"begin_object", "end_object", "begin_array", "end_array"}

\* An object in an array in an object, members and elements after each.
Nest ==
  <<"begin_object", "string", "colon",
      "begin_array",
        "begin_object", "string", "colon", "real", "end_object",
        "comma", "string",
      "end_array",
    "comma", "string", "colon", "narrow", "end_object">>

\* An array of n numbers of one digit. Of 30 it fills the tape of its length.
Digits(n) ==
  [k \in 1 .. 2 * n + 1 |->
     CASE k = 1 -> "begin_array"
       [] k = 2 * n + 1 -> "end_array"
       [] k \in 2 .. 2 * n /\ k % 2 = 0 -> "narrow"
       [] k \in 2 .. 2 * n /\ k % 2 = 1 -> "comma"]

MCText ==
  BoundedSeq(Structure \cup {"string", "colon", "comma"}, 5)
    \cup BoundedSeq(Structure, 6) \cup BoundedSeq(Token, 2) \cup Broken(Nest)
    \cup {Digits(30), Digits(31)}
=============================================================================
