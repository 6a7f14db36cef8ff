----------------------------- MODULE MCMempool -----------------------------
(* Instances of Mempool.tla for TLC.                                       *)
EXTENDS Mempool

Tx(s, n, key, next) == [sender |-> s, nonce |-> n, key |-> key, next_auth |-> next,
                        sig |-> TRUE, kind |-> "transfer"]

Open(t, steps)   == [sender |-> t.sender, nonce |-> t.nonce, key |-> t.key, next_auth |-> t.next_auth,
                     sig |-> TRUE, kind |-> "open", channel |-> "c", max_steps |-> steps]
Settle(t, step)  == [sender |-> t.sender, nonce |-> t.nonce, key |-> t.key, next_auth |-> t.next_auth,
                     sig |-> TRUE, kind |-> "settle", channel |-> "c", step |-> step]
Refund(t)        == [sender |-> t.sender, nonce |-> t.nonce, key |-> t.key, next_auth |-> t.next_auth,
                     sig |-> TRUE, kind |-> "refund", channel |-> "c"]
Spend(t)         == [sender |-> t.sender, nonce |-> t.nonce, key |-> t.key, next_auth |-> t.next_auth,
                     sig |-> TRUE, kind |-> "spend", anchor |-> "root", nullifier |-> "n"]

\* The two accounts' ratchets, and a key of neither.
A(n) == Tx("a", n, <<"a", n>>, <<"a", n + 1>>)
B(n) == Tx("b", n, <<"b", n>>, <<"b", n + 1>>)

MCAuth == [s \in {"a", "b"} |-> <<s, 0>>]
MCKeys == [s \in {"a", "b"} |-> {<<s, n>> : n \in 0..3}]

\* A queue ahead of the chain, with frames nobody's key signed, and a channel
\* opened before the R18 height that is longer than a block may settle.
DoorTxs ==
    {A(1), Settle(A(0), 4),
     Open(B(0), 4), Open(B(0), 3), Settle(B(1), 2), Refund(B(2)),
     [A(0) EXCEPT !.sig = FALSE], [A(1) EXCEPT !.key = <<"x", 0>>]}

\* Two ways to use one slot, and a successor.
WalTxs == {A(0), [A(0) EXCEPT !.next_auth = <<"a", 2>>], A(1)}

\* One note spent by two accounts, under a root that may leave the window.
SpendTxs == {Spend(A(0)), Spend(B(0))}

\* A node without a store, across the R18 activation; and two with a WAL.
MCSettings == {[store |-> FALSE, payword_cap_from |-> 3, anchors |-> {}, txs |-> DoorTxs],
               [store |-> TRUE,  payword_cap_from |-> 0, anchors |-> {"root"}, txs |-> SpendTxs],
               [store |-> TRUE,  payword_cap_from |-> 0, anchors |-> {}, txs |-> WalTxs]}
=============================================================================
