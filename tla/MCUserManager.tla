----------------------------- MODULE MCUserManager -----------------------------
(* Instances of UserManager for TLC.                                       *)
EXTENDS UserManager, TLC

CONSTANTS m1, m2, u1, u2

\* Two names, each alone in its shard.
MCShardOf == (u1 :> 1) @@ (u2 :> 2)

=============================================================================
