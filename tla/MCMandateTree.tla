--------------------------- MODULE MCMandateTree ----------------------------
(***************************************************************************)
(* A small tree for TLC.                                                    *)
(***************************************************************************)
EXTENDS MandateTree

CONSTANTS m1, m2, m3, a1, usd

MCIds == {m1, m2, m3}

Ask(id, parent, rate, buf, cap, initial, exp) ==
    [id |-> id, parent |-> parent, holder |-> a1, asset |-> usd, rate_per_sec |-> rate,
     buffer_max |-> buf, per_tx_max |-> cap, initial_buffer |-> initial, expiry |-> exp]

\* A root that drips slowly under a full buffer; a child that oversubscribes
\* it from an empty one and expires first, or a second root; a grandchild, a
\* sibling, one that outlives its parent, and one that names itself.
MCRequests ==
    { Ask(m1, NoParent, 1, 2, 2, 3, 3),
      Ask(m2, m1, 2, 3, 1, 0, 2), Ask(m2, NoParent, 0, 1, 1, 1, 3),
      Ask(m3, m2, 1, 1, 1, 1, 2), Ask(m3, m1, 1, 2, 2, 1, 3), Ask(m3, m2, 0, 2, 1, 2, 3),
      Ask(m3, m3, 0, 1, 1, 1, 3) }

==================================================
