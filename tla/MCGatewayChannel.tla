-------------------------- MODULE MCGatewayChannel --------------------------
(* What one gateway may send: two registration lines, one that lacks its    *)
(* id, one whose id holds a bar, and data.                                  *)
EXTENDS GatewayChannel

MCText == {"a", "b", "x"}
MCIds  == {<<"a">>, <<"b">>}
MCAddr == <<"addr">>

Data == {<<"x">>}

MCMessages ==
  {<<"RE", "G:", "a", "comma", "semicolon">>,
   <<"RE", "G:", "b", "comma", "x", "semicolon", "eol">>,
   <<"RE", "G:", "blank", "comma", "semicolon">>,
   <<"RE", "G:", "bar", "b", "comma", "semicolon">>} \cup Data
=============================================================================
