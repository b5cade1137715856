--------------------------------- MODULE Tunnel ---------------------------------
(***************************************************************************)
(* What a proxied connection promises to its two ends: in each direction,  *)
(* what is delivered is what was sent, in order; the end of one side is    *)
(* passed on after all it sent; a connection that is given up delivers     *)
(* nothing more.                                                           *)
(***************************************************************************)
EXTENDS Naturals, Sequences, SequencesExt

CONSTANTS Directions

VARIABLES
    sent,           \* what the source of each direction has sent
    ended,          \* whether it has closed its side
    delivered,      \* what the sink of each direction has got
    shut,           \* whether it was told of the end
    over            \* nothing more is passed on

vars == <<sent, ended, delivered, shut, over>>

Init ==
    /\ sent = [d \in Directions |-> <<>>]
    /\ ended = [d \in Directions |-> FALSE]
    /\ delivered = [d \in Directions |-> <<>>]
    /\ shut = [d \in Directions |-> FALSE]
    /\ over = FALSE

\* The sources of both directions send more, or close their sides.
Sources ==
    /\ \A d \in Directions :
          /\ IsPrefix(sent[d], sent'[d])
          /\ ended[d] => sent'[d] = sent[d] /\ ended'[d]
    /\ UNCHANGED <<delivered, shut, over>>

Deliver(d) ==
    /\ ~over /\ ~shut[d]
    /\ \E n \in Len(delivered[d]) + 1 .. Len(sent[d]) :
          delivered' = [delivered EXCEPT ![d] = SubSeq(sent[d], 1, n)]
    /\ UNCHANGED <<sent, ended, shut, over>>

Shut(d) ==
    /\ ~over /\ ended[d] /\ delivered[d] = sent[d]
    /\ shut' = [shut EXCEPT ![d] = TRUE]
    /\ UNCHANGED <<sent, ended, delivered, over>>

GiveUp ==
    /\ over' = TRUE
    /\ UNCHANGED <<sent, ended, delivered, shut>>

Next ==
    \/ Sources
    \/ \E d \in Directions : Deliver(d) \/ Shut(d)
    \/ GiveUp

Spec == Init /\ [][Next]_vars

=============================================================================
