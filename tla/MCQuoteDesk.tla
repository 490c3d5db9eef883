----------------------------- MODULE MCQuoteDesk ------------------------------
(* The quote desk on a small instance, for TLC: USDC with two decimals.       *)
EXTENDS QuoteDesk, TLC

Symmetry == Permutations(Calls)
==============================================================================
