-------------------------------- MODULE Pipeline --------------------------------
(***************************************************************************)
(* What sandstorm_protocol.txt asks of pipelining, in its section of that  *)
(* name: a client sends requests without waiting, and the server answers   *)
(* each of them once.  Requests that must be synchronized (those with the  *)
(* same class) are answered in the order in which they were asked.         *)
(***************************************************************************)
EXTENDS Naturals, Sequences

CONSTANTS
    Connections,    \* the sandstorm connections
    Menu            \* the requests their clients may send, each with its class

VARIABLES
    asked,          \* the requests of each connection, in order
    answered        \* the positions in asked of those answered, in order

vars == <<asked, answered>>

Answered(c) == {answered[c][i] : i \in 1 .. Len(answered[c])}

Unanswered(c) == (1 .. Len(asked[c])) \ Answered(c)

Init ==
    /\ asked = [c \in Connections |-> <<>>]
    /\ answered = [c \in Connections |-> <<>>]

Ask(c) ==
    /\ \E request \in Menu : asked' = [asked EXCEPT ![c] = Append(@, request)]
    /\ UNCHANGED answered

Answer(c, id) ==
    /\ id \in Unanswered(c)
    /\ \A earlier \in Unanswered(c) :
          asked[c][earlier].class = asked[c][id].class => earlier >= id
    /\ answered' = [answered EXCEPT ![c] = Append(@, id)]
    /\ UNCHANGED asked

Next ==
    \E c \in Connections : Ask(c) \/ \E id \in Unanswered(c) : Answer(c, id)

Spec == Init /\ [][Next]_vars

=============================================================================
