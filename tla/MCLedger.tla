------------------------------ MODULE MCLedger ------------------------------
(***************************************************************************)
(* A small ledger for TLC: three accounts, the fee asset usd, an asset tok *)
(* that the genesis registered for the agent with every power over it, and *)
(* the id of one that the org may register.                                *)
(***************************************************************************)
EXTENDS Ledger

CONSTANTS org, agent, shop, usd, tok, eur, m1, m2, m3, c1, c2

MCAccounts == {org, agent, shop}
MCAssets   == {usd, tok, eur}

MCPolicy ==
    [a \in MCAssets |-> [mintable |-> a = tok, freezable |-> a = tok, pausable |-> a = tok,
                         pool_eligible |-> TRUE]]
MCIssuer == [a \in MCAssets |-> IF a = tok THEN agent ELSE IF a = eur THEN org ELSE NoIssuer]

\* The org can fund one draw in either asset, the agent pay one fee.
MCAlloc == [x \in MCAccounts |-> [a \in MCAssets |->
                  IF a = eur THEN 0 ELSE IF x = org THEN 2 ELSE IF x = agent /\ a = usd THEN 1 ELSE 0]]

Ask(id, parent, holder, asset, cap, exp) ==
    [id |-> id, parent |-> parent, holder |-> holder, asset |-> asset, rate_per_sec |-> 1,
     buffer_max |-> 2, per_tx_max |-> cap, initial_buffer |-> 2, expiry |-> exp]

\* For trees: a usd root held by the org or by the agent, children in both
\* assets, and a chain past MAX_DEPTH.
AskTrees ==
    { Ask(m1, NoParent, org, usd, 2, 3), Ask(m1, NoParent, agent, usd, 2, 3),
      Ask(m2, m1, agent, usd, 2, 2), Ask(m2, m1, agent, tok, 2, 2), Ask(m3, m2, shop, usd, 2, 2) }

\* For channels: one root.
AskOne == { Ask(m1, NoParent, agent, usd, 4, 2), Ask(m1, NoParent, agent, tok, 4, 2) }

MCRequests == AskTrees \cup AskOne

Open(id, m, asset, price, steps, exp) ==
    [id |-> id, payer |-> agent, mandate |-> m, payee |-> shop, asset |-> asset,
     unit_price |-> price, max_steps |-> steps, expiry |-> exp]

OpenSome == { Open(c1, m1, usd, 1, 2, 1), Open(c1, m1, tok, 1, 2, 1), Open(c2, m1, usd, 1, 1, 0) }

\* A behaviour is about new accounts and assets; or the issuer's powers and the
\* channels of one root; or trees of mandates.
OneSubject ==
    \/ mandates = NoFunction /\ assets[tok].frozen = {} /\ ~assets[tok].paused
    \/ /\ accounts = GenesisAccounts /\ eur \notin DOMAIN assets
       /\ \/ /\ \A m \in DOMAIN mandates : m = m1 /\ mandates[m].per_tx_max = 4
             /\ Cardinality(assets[tok].frozen) <= 1 /\ (assets[tok].paused => assets[tok].frozen = {})
          \/ /\ channels = NoFunction
             /\ assets[tok] = [supply |-> 2, burned |-> 0, paused |-> FALSE, frozen |-> {}]
=============================================================================
