-------------------------------- MODULE MCDes --------------------------------
(***************************************************************************)
(* Des for TLC: texts of zero to nine characters, keys of zero to five.    *)
(* 1064 is the start of a card number, 19 and 20 are order types, 22909 is *)
(* a Chinese character and 65535 has all bits set.                         *)
(***************************************************************************)
EXTENDS Des

Nbr == <<49, 48, 54, 52>>
Type == <<49, 57>>
Order == <<50, 48>>
Other == <<49, 48, 54, 53, 22909>>

MCArgLists ==
    {<<a, b>> : a, b \in {<<>>, Nbr, Type, Order, Other}}
        \cup {<<t>> : t \in {<<>>, <<65535>>, Other, Nbr \o Other}}
        \cup {<<Nbr, Type, <<>>>>, <<Type, <<>>, Nbr>>, <<<<>>, Nbr, Type>>}

K1 == <<97, 98, 99>>
K2 == <<100, 101, 102>>

MCKeyTriples ==
    {<<K1, K2, <<49, 50, 51>>>>, <<K1, K2, <<>>>>, <<K1, <<>>, K2>>,
     <<<<97, 98, 99, 100, 101>>, K2, K1>>, <<K2, K1, K1>>, <<<<>>, K1, K2>>}
=============================================================================
