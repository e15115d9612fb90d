------------------------------ MODULE MCLogOutbox ------------------------------
(* Three records of two users.  One call at a time and faults, or two calls   *)
(* that overlap, by the cfg.                                                  *)
EXTENDS LogOutbox, TLC

CONSTANTS l1, l2, l3, alice, bob

MCLog == {l1, l2, l3}
Symmetry == Permutations(Sender)
MCUser == {alice, bob}
MCLoginNameOf == [l \in MCLog |-> IF l = l3 THEN bob ELSE alice]
=============================================================================
