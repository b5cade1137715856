------------------------------ MODULE MCListPopups ------------------------------
(* Two users whose names differ in case only, two addresses, both methods, *)
(* and two buffer sizes.                                                   *)
EXTENDS ListPopups

CONSTANTS bob, Bob, v6, v4

MCOrder == [k \in {bob, Bob, v6, v4} |-> IF k = v4 THEN 2 ELSE 1]

MCMaxOther == [k \in Kinds |-> IF k \in {"sockets", "buffer"} THEN 2 ELSE 1]

\* An admin, with another user or without.
MCStartUsers ==
    {users \in [{bob, Bob} -> {"admin", "regular", None}] : users[bob] = "admin" /\ users[Bob] # "admin"}

MCFilters == {[roles |-> {"regular"}, names |-> {bob, Bob}]}

=================================================================================
