----------------------------- MODULE MCFaucet -----------------------------
(* An instance of Faucet.tla for TLC; handlers are alike, and callers.     *)
EXTENDS Faucet, TLC

Symmetry == Permutations(Threads) \cup Permutations(Ips)
===========================================================================
