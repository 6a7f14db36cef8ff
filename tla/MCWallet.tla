------------------------------ MODULE MCWallet ------------------------------
(* An instance of Wallet.tla for TLC.                                      *)
EXTENDS Wallet

\* A sealed wallet.json is met by a user of the command line alone.
OneSubject == box["cli"].seal = "plain" \/ (~box["app"].exists /\ account.seal = "plain")
=============================================================================
