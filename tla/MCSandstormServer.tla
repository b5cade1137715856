---------------------------- MODULE MCSandstormServer ----------------------------
(* Instances of SandstormServer for TLC.                                   *)
EXTENDS SandstormServer, TLC

CONSTANTS c1, c2, a, b, z

\* The requests of the given types, about sockets or not.
Of(types) == {r \in Requests : r.type \in types}

SocksOf(types) == {r \in Of(types) : r.class = "socks5"}

\* A connection on its own is asked for socks5 sockets, one of which is the sandstorm
\* listeners' as well, and what is answered at once, three times.
SocketPlan ==
    [made |-> {c1}, most |-> 3,
     menu |-> SocksOf({"List"}) \cup {r \in SocksOf({"Add", "Remove"}) : r.address = a}
              \cup {r \in Of({"Add"}) : r.class = "sandstorm" /\ r.address = a}
              \cup Of({"Metrics", "SetBufferSize"})]

\* Or else for the stream of events and the metrics.
StreamPlan ==
    [made |-> {c1}, most |-> 3,
     menu |-> SocksOf({"List"}) \cup Of({"EventsOn", "EventsOff", "Metrics", "SetBufferSize"})]

\* What two connections compete for, and the request that ends both.
SharedPlan ==
    [made |-> {c1, c2}, most |-> 1,
     menu |-> SocksOf({"List"}) \cup Of({"Metrics", "Shutdown", "Direct"})]

MCPlans == {SocketPlan, StreamPlan, SharedPlan}

MCStreamPlans ==
    {[made |-> {c1}, most |-> 2, menu |-> SocksOf({"List"}) \cup Of({"EventsOn", "Metrics"})]}

MCInitialSockets == ("socks5" :> {a, b}) @@ ("sandstorm" :> {})

=============================================================================
