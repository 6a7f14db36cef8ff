--------------------------- MODULE MCValidatorSet ---------------------------
(* Instances of ValidatorSet for TLC: two genesis seats (this node and one  *)
(* other) and one outsider.                                                 *)
EXTENDS ValidatorSet

MCRoots  == {"me", "peer", "guest"}
MCKeys   == {"m0", "m1", "m2", "p0", "p1", "g0", "g1"}
MCOpKey  == [e \in 0..2 |-> <<"m0", "m1", "m2">>[e + 1]]
MCGenesis == [r \in {"me", "peer"} |->
                 [public_key |-> IF r = "me" THEN "m0" ELSE "p0", voting_power |-> 2]]

Rotation(r, key, e, valid, dom) ==
    [root_pk |-> r, new_op_pk |-> key, epoch |-> e, valid_from_height |-> valid, domain |-> dom]

\* Two rotations of this node on either side of the v2 height, one of the
\* other seat, one that waits too long, one of a seat not yet admitted.
MCRotations ==
    {Rotation("me", "m1", 1, 1, "v1"), Rotation("me", "m2", 2, 2, "v2"),
     Rotation("peer", "p1", 1, 2, "v2"), Rotation("guest", "g1", 1, 3, "v2")}

Signed(rs) == [i \in DOMAIN rs |-> [root_pk |-> rs[i], valid |-> TRUE]]

Change(kind, r, key, power, window, approvals) ==
    [kind |-> kind, root_pk |-> r, public_key |-> key, voting_power |-> power,
     not_before |-> window[1], not_after |-> window[2], this_chain |-> TRUE,
     approvals |-> approvals]

both == Signed(<<"me", "peer">>)
all  == Signed(<<"me", "peer", "guest">>)

Admit       == Change("admit", "guest", "g0", 1, <<1, 3>>, both)
AdmitAsPeer == Change("admit", "guest", "p0", 1, <<1, 3>>, both)
Expel       == Change("remove", "peer", "p0", 0, <<1, 3>>, all)
LeaveMe     == Change("remove", "me", "m0", 0, <<1, 3>>, Signed(<<"me", "guest">>))
LeaveGuest  == Change("remove", "guest", "g0", 0, <<1, 4>>, Signed(<<"guest">>))
ExpelGuest  == Change("remove", "guest", "g0", 0, <<1, 4>>, both)
Raise       == Change("set_power", "guest", "g0", 9, <<2, 3>>, both)
LeavePeer   == Change("remove", "peer", "p0", 0, <<1, 3>>, Signed(<<"peer">>))
Absurd      == Change("set_power", "peer", "p0", 11, <<1, 3>>, both)
Twice       == Change("set_power", "peer", "p0", 3, <<1, 3>>, Signed(<<"peer", "peer">>))

MCChanges == {Admit, AdmitAsPeer, Expel, LeaveMe, LeaveGuest, Raise, LeavePeer, Absurd, Twice}

One(c)      == [rotations |-> <<>>, set_changes |-> <<c>>]
Rotates(cs) == [rotations |-> cs, set_changes |-> <<>>]

\* Single certificates, and the blocks in which several meet: two rotations of
\* one seat, a rotation of a seat the block then removes, an admission whose
\* seat approves the next change, every seat leaving in turn.
MCBlocks ==
    {One(c) : c \in MCChanges \ {LeavePeer}} \cup {Rotates(<<c>>) : c \in MCRotations}
    \cup {Rotates(<<Rotation("me", "m1", 1, 1, "v1"), Rotation("me", "m2", 2, 2, "v2")>>),
          [rotations |-> <<Rotation("peer", "p1", 1, 2, "v2")>>, set_changes |-> <<Admit, Expel>>],
          [rotations |-> <<>>, set_changes |-> <<Raise, LeaveMe, LeaveGuest, LeavePeer>>],
          [rotations |-> <<>>, set_changes |-> <<>>]}
=============================================================================
