-------------------------------- MODULE MCSocks5 --------------------------------
(***************************************************************************)
(* A few clients: each message in each place it may be read in, one that   *)
(* sends data ahead, and one that logs in where it need not.               *)
(***************************************************************************)
EXTENDS Socks5

CONSTANTS a, b, c

Hello(methods) == [kind |-> "Hello", methods |-> methods]
Login(valid) == [kind |-> "Login", valid |-> valid]
Request(for) == [kind |-> "Request", for |-> for]
Name(valid) == [kind |-> "Name", valid |-> valid]
Data(n) == [kind |-> "Data", n |-> n]

MCScripts ==
    { <<[kind |-> "BadVersion"]>>,
      <<Hello({"noauth"}), Request(c), Data(1), Data(2), Data(3)>>,
      <<Hello({"userpass", "other"}), Login(TRUE), Request("name"), Name(TRUE), Data(1)>>,
      <<Hello({"noauth", "userpass"}), Login(FALSE), Request(c), Data(1)>>,
      <<Hello({"userpass"}), [kind |-> "Garbled"], Request(c)>>,
      <<Hello({"noauth"}), Request("name"), Name(FALSE)>>,
      <<Hello({"noauth"}), Request("command")>>,
      <<Hello({"noauth"}), Request("atyp")>> }

MCResolutions == {<<>>, <<a, b>>}

=================================================================================
