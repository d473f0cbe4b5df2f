------------------------------ MODULE MCEscrow ------------------------------
(* Instances of Escrow: a caller in ghbrk-clients, the same caller when the *)
(* group lookup failed, root, and the daemon's own user.                    *)
EXTENDS Escrow

MCUid == {"ghbrk", "root", "alice"}

MCGid == {"ghbrk", "ghbrk-clients", "users"}

Alice == [uid |-> "alice", gid |-> "users", groups |-> {"users", "ghbrk-clients"}]

AliceUnlisted == [Alice EXCEPT !.groups = {}]

Root == [uid |-> "root", gid |-> "users", groups |-> {}]

Self == [uid |-> "ghbrk", gid |-> "ghbrk", groups |-> {}]

AllCallers == {Alice, AliceUnlisted, Root, Self}

=============================================================================
