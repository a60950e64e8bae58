----------------------------- MODULE MCEnvFormat -----------------------------
(* Small instances of EnvFormat for TLC. *)
EXTENDS EnvFormat

MCStarters == {"a", "b"}
MCLetters  == MCStarters \cup {"1"}

MCChars == MCLetters \cup Blank \cup {DQ, SQ, BS, LF, "$", "#", "=", ";"}

MCKeys == <<<<"a">>, <<"a", "1">>, <<"b">>>>

Values == SeqOf({"a", " ", "\t", DQ, SQ, BS, "$", "#", "="}, 2)
            \cup SeqOf({"a", DQ, BS}, 3)
Pairs  == {<<>>, <<"a">>, <<" ">>, <<BS>>}

MCResponses ==
  {NoFlags}
    \cup {<<"a">> :> v : v \in Values \cup {<<LF>>, <<"a", LF>>}}
    \cup {(<<"a">> :> v) @@ (<<"b">> :> w) : v \in Pairs, w \in Pairs}
    \cup {(<<"a">> :> <<"a">>) @@ (k :> v) :
             k \in {<<"a", "1">>, <<"1">>, <<"1", "a">>, <<"#">>, <<>>},
             v \in {<<"a">>, <<" ">>}}

MCAdditions ==
  {<<>>, <<" ", "#", DQ>>, <<";", "a">>, <<"a", "=", "b">>}

=============================================================================
