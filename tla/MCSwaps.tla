------------------------------- MODULE MCSwaps -------------------------------
(***************************************************************************)
(* Swaps on a small instance: two pairs, a rate of each sign, paths with   *)
(* and without a repeated token.                                           *)
(***************************************************************************)
EXTENDS Swaps

MCPaths == {<<"usd">>, <<"usd", "eur">>, <<"usd", "eur", "usd">>}
MCRates == {-10, 15}
=============================================================================
