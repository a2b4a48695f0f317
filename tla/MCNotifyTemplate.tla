-------------------------- MODULE MCNotifyTemplate --------------------------
(***************************************************************************)
(* Templates built from pieces that start, end or almost form a variable, *)
(* and header values around the growth amount.                             *)
(***************************************************************************)
EXTENDS NotifyTemplate



Pieces ==
  { <<"$", "f", "r", "o", "m", "$">>, <<"$", "F", "R", "O", "M", "$">>,
    <<"$", "e", "n", "v", "-", "f", "r", "o", "m", "$">>,
    <<"$", "s", "u", "b", "j", "e", "c", "t", "$">>,
    <<"$">>, <<"a">>, <<"$", "f", "r", "o">>, <<"f", "r", "o", "m", "$">> }

(* Up to three pieces.                                                     *)
MCTemplates ==
  {<<>>} \cup {p1 : p1 \in Pieces} \cup {p1 \o p2 : p1, p2 \in Pieces}
    \cup {p1 \o p2 \o p3 : p1, p2, p3 \in Pieces}

MissingValue == <<"missing">>
MCValues == {MissingValue, <<>>, <<"v">>, <<"v", "v", "v", "v", "v">>}

=============================================================================
