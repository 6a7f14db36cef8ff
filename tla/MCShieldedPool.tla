--------------------------- MODULE MCShieldedPool ---------------------------
(* Instances of ShieldedPool.tla for TLC.                                  *)
EXTENDS ShieldedPool

CONSTANTS org, usd, tok, m1

MCAccounts == {org}
MCAssets   == {usd, tok}
MCRank     == [a \in MCAssets |-> IF a = usd THEN 1 ELSE 2]

MCPolicy == [a \in MCAssets |-> [mintable |-> FALSE, freezable |-> a = tok, pausable |-> a = tok,
                                 pool_eligible |-> TRUE]]
MCIssuer == [a \in MCAssets |-> IF a = tok THEN org ELSE NoIssuer]
MCAlloc  == [x \in MCAccounts |-> [a \in MCAssets |-> IF a = usd THEN 2 ELSE 1]]

\* A note, its change, and an empty one.
MCNotes == {[nf |-> "p", value |-> 2], [nf |-> "q", value |-> 1], [nf |-> "z", value |-> 0]}

\* A usd mandate that its funder holds.
MCRequests == {[id |-> m1, parent |-> NoParent, holder |-> org, asset |-> usd, rate_per_sec |-> 0,
                buffer_max |-> 1, per_tx_max |-> 1, initial_buffer |-> 1, expiry |-> 3]}
=============================================================================
