----------------------------- MODULE MCNumbers ------------------------------
(***************************************************************************)
(* Numbers with words of two digits, four of them: literals around the     *)
(* borders of the words, on both sides of the point.                       *)
(***************************************************************************)
EXTENDS Numbers

Literal(sign, intg, frac) == [sign |-> sign, intg |-> intg, frac |-> frac]

MCTexts ==
  {Literal(FALSE, <<0>>, <<>>), Literal(FALSE, <<1>>, <<>>), Literal(TRUE, <<3>>, <<>>),
   Literal(FALSE, <<9, 9>>, <<>>),
   Literal(FALSE, <<1, 0, 0, 1>>, <<>>), Literal(FALSE, <<0>>, <<5>>), Literal(TRUE, <<0>>, <<0, 2, 5>>),
   Literal(FALSE, <<9, 8>>, <<9, 9, 9>>), Literal(FALSE, <<1>>, <<5, 0>>)}

=============================================================================
