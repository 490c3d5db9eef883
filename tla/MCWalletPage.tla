----------------------------- MODULE MCWalletPage ------------------------------
(* The wallet page for TLC: one wallet to generate and one to import, so that  *)
(* each can follow the other on the page, and nothing to interchange.          *)
EXTENDS WalletPage
==============================================================================
