--------------------------------- MODULE Socks5 ---------------------------------
(***************************************************************************)
(* One socks5 connection of the server (dust-devil/src/socks5): the        *)
(* negotiation with the client, the attempts to reach a destination, and   *)
(* the copy of bytes both ways, each with a half-close of its own.  The    *)
(* client may send ahead of the answers, stop, or be reset at any moment;  *)
(* managers change the authentication methods and the users meanwhile.     *)
(*                                                                         *)
(* What the client sends is a sequence of tokens: a whole message of the   *)
(* negotiation, or a byte of data.  Direction "up" is from the client to   *)
(* the destination, "down" is back.                                        *)
(***************************************************************************)
EXTENDS Naturals, Sequences, FiniteSets, SequencesExt

CONSTANTS
    Scripts,        \* what clients send, sequences of Tokens
    Addresses,      \* the addresses of destinations
    Resolutions,    \* the sequences of addresses a name may resolve to
    BufferSize,     \* the capacity of the readers
    MaxDown,        \* bound on the bytes a destination sends
    MaxChanges      \* bound on the changes managers make

Directions == {"up", "down"}

Opposite(d) == CHOOSE other \in Directions : other # d

Methods == {"noauth", "userpass"}

\* A message is known by its first byte: a Hello and a Request start with a 5, a
\* Login with a 1, and so does a Garbled one, whose name or password is not UTF-8.  A
\* Name follows a Request for a domain name.
Tokens ==
    [kind : {"Hello"}, methods : SUBSET (Methods \cup {"other"})]
    \cup [kind : {"BadVersion"}]
    \cup [kind : {"Login"}, valid : BOOLEAN]
    \cup [kind : {"Garbled"}]
    \cup [kind : {"Request"}, for : {"name", "command", "atyp"} \cup Addresses]
    \cup [kind : {"Name"}, valid : BOOLEAN]
    \cup [kind : {"Data"}, n : Nat]

\* The statuses that stand for an error of connect, each for a few kinds of error: that
\* it timed out is HostUnreachable.
ConnectErrors == {"ConnectionRefused", "NetworkUnreachable", "ConnectionNotAllowed",
                  "HostUnreachable", "AddressTypeNotSupported", "GeneralFailure"}

\* What comes of an attempt to connect: its status, or no local socket.
Outcomes == {"Success", "bind"} \cup ConnectErrors

ASSUME Socks5Assumption ==
    /\ Scripts \subseteq Seq(Tokens)
    /\ Addresses \cap {"name", "command", "atyp"} = {}
    /\ \A s \in Scripts : \A i \in 1 .. Len(s) :
          /\ s[i].kind = "Hello" => i = 1
          /\ s[i].kind = "Request" => i > 1 /\ s[1].kind = "Hello"
    /\ Resolutions \subseteq Seq(Addresses)
    /\ BufferSize \in Nat \ {0} /\ MaxDown \in Nat /\ MaxChanges \in Nat

VARIABLES
    script,         \* what the client has yet to send
    enabled,        \* the authentication methods enabled
    known,          \* whether the user of a valid Login is registered
    changes,        \* the changes managers have made
    stage,          \* where handle_socks5_inner is
    offered,        \* the methods of the client's handshake
    addresses,      \* the addresses still to try
    attempts,       \* those tried, each with its outcome
    lastError,      \* last_error of connect_socket, HostUnreachable for None
    replies,        \* what was written to the client, in order
    incoming,       \* what each source has sent and the server has not read
    ended,          \* whether each source has closed its side
    reset,          \* whether each end is reset: client, destination
    buffer,         \* the contents of each BufReader
    state,          \* the TransferState of each direction
    delivered,      \* what has been written to each sink
    count,          \* bytes_sent and bytes_received of the context
    result          \* what log_socks_finished reports

managerVars == <<enabled, known, changes>>

dialogueVars == <<stage, offered, addresses, attempts, lastError, replies, result>>

copyVars == <<state, delivered, count>>

peerVars == <<script, incoming, ended, reset>>

vars == <<script, enabled, known, changes, stage, offered, addresses, attempts,
          lastError, replies, incoming, ended, reset, buffer, state, delivered, count,
          result>>

ReadingStages == {"version", "login", "request", "name"}

Stages == ReadingStages \cup {"noauth", "userpass", "connect", "copy", "finished"}

Statuses == {"Success", "CommandNotSupported"} \cup ConnectErrors

\* What may be written to the client: a method, the status of a login, of a request.
Replies == {"NoAuth", "UserPass", "NoMethod", "Granted", "Denied"} \cup Statuses

TypeOK ==
    /\ script \in Seq(Tokens)
    /\ enabled \in SUBSET Methods /\ known \in BOOLEAN /\ changes \in 0 .. MaxChanges
    /\ stage \in Stages
    /\ offered \in SUBSET (Methods \cup {"other"})
    /\ addresses \in Seq(Addresses)
    /\ attempts \in Seq([address : Addresses, outcome : Outcomes])
    /\ lastError \in ConnectErrors
    /\ replies \in Seq(Replies)
    /\ incoming \in [Directions -> Seq(Tokens)]
    /\ buffer \in [Directions -> Seq(Tokens)]
    /\ delivered \in [Directions -> Seq(Tokens)]
    /\ \A d \in Directions : Len(buffer[d]) <= BufferSize
    /\ ended \in [Directions -> BOOLEAN]
    /\ reset \in [Directions -> BOOLEAN]
    /\ state \in [Directions -> {"Running", "ShuttingDown", "Done"}]
    /\ count \in [Directions -> Nat]
    /\ result \in {"none", "ok", "failed"}

Init ==
    /\ script \in Scripts
    /\ enabled \in SUBSET Methods /\ known \in BOOLEAN /\ changes = 0
    /\ stage = "version" /\ offered = {} /\ result = "none"
    /\ addresses = <<>> /\ attempts = <<>> /\ lastError = "HostUnreachable" /\ replies = <<>>
    /\ incoming = [d \in Directions |-> <<>>]
    /\ ended = [d \in Directions |-> FALSE]
    /\ reset = [d \in Directions |-> FALSE]
    /\ buffer = [d \in Directions |-> <<>>]
    /\ state = [d \in Directions |-> "Running"]
    /\ delivered = [d \in Directions |-> <<>>]
    /\ count = [d \in Directions |-> 0]

Alive == stage # "finished"

--------------------------------------------------------------------------------
(***************************************************************************)
(* The client, the destination and the managers.  The source of direction  *)
(* "up" is the client, that of "down" the destination.                     *)
(***************************************************************************)

Source(d) == Alive /\ ~ended[d] /\ ~reset[d] /\ (d = "down" => stage = "copy")

ClientSends ==
    /\ Source("up") /\ script # <<>>
    /\ incoming' = [incoming EXCEPT !["up"] = Append(@, Head(script))]
    /\ script' = Tail(script)
    /\ UNCHANGED <<managerVars, dialogueVars, copyVars, ended, reset, buffer>>

DestinationSends ==
    LET n == Len(delivered["down"] \o buffer["down"] \o incoming["down"]) + 1
    IN  /\ Source("down") /\ n <= MaxDown
        /\ incoming' = [incoming EXCEPT !["down"] = Append(@, [kind |-> "Data", n |-> n])]
        /\ UNCHANGED <<managerVars, dialogueVars, copyVars, script, ended, reset, buffer>>

SourceEnds(d) ==
    /\ Source(d)
    /\ ended' = [ended EXCEPT ![d] = TRUE]
    /\ UNCHANGED <<managerVars, dialogueVars, copyVars, script, incoming, reset, buffer>>

SourceResets(d) ==
    /\ Alive /\ ~reset[d] /\ (d = "down" => stage = "copy")
    /\ reset' = [reset EXCEPT ![d] = TRUE]
    /\ UNCHANGED <<managerVars, dialogueVars, copyVars, script, incoming, ended, buffer>>

Change ==
    /\ Alive /\ changes < MaxChanges
    /\ changes' = changes + 1
    /\ UNCHANGED <<dialogueVars, copyVars, peerVars, buffer>>

\* toggle_auth_method.
ManagerToggles ==
    /\ Change
    /\ \E m \in Methods : enabled' = IF m \in enabled THEN enabled \ {m} ELSE enabled \cup {m}
    /\ UNCHANGED known

\* The user is added, deleted, or given another password.
ManagerChangesUser ==
    /\ Change
    /\ known' = ~known
    /\ UNCHANGED enabled

--------------------------------------------------------------------------------
(***************************************************************************)
(* The negotiation                                                         *)
(***************************************************************************)

Room(d) == BufferSize

\* A reader refills its buffer only when it is empty.
Fill(d) ==
    /\ buffer[d] = <<>> /\ incoming[d] # <<>>
    /\ IF stage = "copy" THEN state[d] = "Running" ELSE d = "up" /\ stage \in ReadingStages
    /\ \E n \in 1 .. Len(incoming[d]) :
          /\ n <= Room(d)
          /\ buffer' = [buffer EXCEPT ![d] = SubSeq(incoming[d], 1, n)]
          /\ incoming' = [incoming EXCEPT ![d] = SubSeq(@, n + 1, Len(@))]
    /\ UNCHANGED <<managerVars, dialogueVars, copyVars, script, ended, reset>>

\* The next message of the client, read at a stage.
Reads(at, token) ==
    /\ stage = at
    /\ buffer["up"] # <<>> /\ token = Head(buffer["up"])
    /\ buffer' = [buffer EXCEPT !["up"] = Tail(@)]
    /\ UNCHANGED <<managerVars, copyVars, peerVars>>

Reply(what) == replies' = Append(replies, what)

Finish(how) == stage' = "finished" /\ result' = how

GoOn(to) == stage' = to /\ UNCHANGED result

\* parse_handshake.
ReadHello(token) ==
    /\ Reads("version", token)
    /\ IF token.kind = "Hello"
       THEN GoOn("noauth") /\ offered' = token.methods /\ UNCHANGED replies
       ELSE Finish("ok") /\ Reply("NoMethod") /\ UNCHANGED offered
    /\ UNCHANGED <<addresses, attempts, lastError>>

\* select_auth_method looks at one method after the other.
TryNoAuth ==
    /\ stage = "noauth"
    /\ IF "noauth" \in enabled \cap offered
       THEN Reply("NoAuth") /\ stage' = "request"
       ELSE stage' = "userpass" /\ UNCHANGED replies
    /\ UNCHANGED <<managerVars, copyVars, peerVars, buffer, offered, addresses,
                   attempts, lastError, result>>

TryUserPass ==
    /\ stage = "userpass"
    /\ IF "userpass" \in enabled \cap offered
       THEN Reply("UserPass") /\ GoOn("login")
       ELSE Reply("NoMethod") /\ Finish("ok")
    /\ UNCHANGED <<managerVars, copyVars, peerVars, buffer, offered, addresses, attempts, lastError>>

\* handle_userpass_auth, and the early return after it.
LoginStatus(token) == token.kind = "Login" /\ known /\ token.valid

\* Mutation of ReadLogin: the status is answered and forgotten.
ReadLoginAndGoOn(token) ==
    /\ Reads("login", token)
    /\ Reply(IF LoginStatus(token) THEN "Granted" ELSE "Denied")
    /\ GoOn("request")
    /\ UNCHANGED <<offered, addresses, attempts, lastError>>

\* One that is not UTF-8 is not answered.
ReadLogin(token) ==
    /\ Reads("login", token)
    /\ IF token.kind = "Garbled" THEN Finish("failed") /\ UNCHANGED replies
       ELSE IF LoginStatus(token) THEN Reply("Granted") /\ GoOn("request")
       ELSE Reply("Denied") /\ Finish("ok")
    /\ UNCHANGED <<offered, addresses, attempts, lastError>>

\* parse_request, up to the name, and the answers to requests that are not served.
ReadRequest(token) ==
    /\ Reads("request", token)
    /\ LET for == IF token.kind = "Request" THEN token.for ELSE "version"
       IN  \/ /\ for = "name" /\ GoOn("name")
              /\ UNCHANGED <<addresses, replies>>
           \/ /\ for \in Addresses /\ GoOn("connect")
              /\ addresses' = <<for>> /\ UNCHANGED replies
           \/ /\ for \in {"command", "atyp", "version"} /\ Finish("ok")
              /\ Reply(CASE for = "command" -> "CommandNotSupported"
                         [] for = "atyp" -> "AddressTypeNotSupported"
                         [] OTHER -> "GeneralFailure")
              /\ UNCHANGED addresses
    /\ UNCHANGED <<offered, attempts, lastError>>

\* read_domainname, and lookup_host.  Either may fail, which ends the connection
\* without an answer.
ReadName(token) ==
    /\ Reads("name", token)
    /\ \/ /\ token.kind = "Name" /\ token.valid
          /\ addresses' \in Resolutions /\ GoOn("connect")
       \/ Finish("failed") /\ UNCHANGED addresses
    /\ UNCHANGED <<offered, attempts, lastError, replies>>

\* The end of the client's stream in the middle of the negotiation.  read_domainname
\* does not look for it: it reads nothing for ever.
\* Mutation of NoticesEnd: the status byte of a login is waited for.
NoticesEndBeforeLogin == {"version", "request"}

NoticesEnd == {"version", "login", "request"}

EndInNegotiation ==
    /\ stage \in NoticesEnd
    /\ ended["up"] /\ incoming["up"] = <<>> /\ buffer["up"] = <<>>
    /\ Finish("failed")
    /\ UNCHANGED <<managerVars, copyVars, peerVars, buffer, offered, addresses,
                   attempts, lastError, replies>>

--------------------------------------------------------------------------------
(***************************************************************************)
(* connect_socket                                                          *)
(***************************************************************************)

\* Mutation of NextAddress: the last address is popped.
NextAddressFromEnd == [next |-> Last(addresses), rest |-> Front(addresses)]

NextAddress == [next |-> Head(addresses), rest |-> Tail(addresses)]

\* What last_error is after an attempt: to be without a socket is no error to tell.
LastError(outcome) == IF outcome \in {"Success", "bind"} THEN lastError ELSE outcome

Connect ==
    /\ stage = "connect" /\ addresses # <<>>
    /\ \E outcome \in Outcomes :
          /\ attempts' = Append(attempts, [address |-> NextAddress.next, outcome |-> outcome])
          /\ lastError' = LastError(outcome)
          /\ IF outcome = "Success"
             THEN Reply("Success") /\ GoOn("copy")
             ELSE UNCHANGED <<replies, stage, result>>
    /\ addresses' = NextAddress.rest
    /\ UNCHANGED <<managerVars, copyVars, peerVars, buffer, offered>>

ConnectFails ==
    /\ stage = "connect" /\ addresses = <<>>
    /\ Reply(lastError)
    /\ Finish("ok")
    /\ UNCHANGED <<managerVars, copyVars, peerVars, buffer, offered, addresses, attempts, lastError>>

--------------------------------------------------------------------------------
(***************************************************************************)
(* copy_bidirectional                                                      *)
(***************************************************************************)

\* poll_write takes i of the bytes in the buffer; as many are counted and consumed.

\* Mutation of Consumed: a short write counts as a whole one.
ConsumedAll(bytes, i) == <<>>

Consumed(bytes, i) == SubSeq(bytes, i + 1, Len(bytes))

\* Mutation of Registered: the bytes that were offered, not those taken.
RegisteredAll(bytes, i) == Len(bytes)

Registered(bytes, i) == i

\* Mutation of Transfer: one end closing its side ends the copy the other way.
TransferWhileBoth(d) ==
    /\ stage = "copy" /\ state[d] = "Running" /\ buffer[d] # <<>>
    /\ state[Opposite(d)] # "Done"
    /\ \E i \in 1 .. Len(buffer[d]) :
          /\ delivered' = [delivered EXCEPT ![d] = @ \o SubSeq(buffer[d], 1, i)]
          /\ count' = [count EXCEPT ![d] = @ + Registered(buffer[d], i)]
          /\ buffer' = [buffer EXCEPT ![d] = Consumed(@, i)]
    /\ UNCHANGED <<managerVars, dialogueVars, peerVars, state>>

Transfer(d) ==
    /\ stage = "copy" /\ state[d] = "Running" /\ buffer[d] # <<>>
    /\ \E i \in 1 .. Len(buffer[d]) :
          /\ delivered' = [delivered EXCEPT ![d] = @ \o SubSeq(buffer[d], 1, i)]
          /\ count' = [count EXCEPT ![d] = @ + Registered(buffer[d], i)]
          /\ buffer' = [buffer EXCEPT ![d] = Consumed(@, i)]
    /\ UNCHANGED <<managerVars, dialogueVars, peerVars, state>>

SeesEnd(d) ==
    /\ stage = "copy" /\ state[d] = "Running"
    /\ ended[d] /\ incoming[d] = <<>> /\ buffer[d] = <<>>
    /\ state' = [state EXCEPT ![d] = "ShuttingDown"]
    /\ UNCHANGED <<managerVars, dialogueVars, peerVars, buffer, delivered, count>>

ShutsDown(d) ==
    /\ stage = "copy" /\ state[d] = "ShuttingDown"
    /\ state' = [state EXCEPT ![d] = "Done"]
    /\ UNCHANGED <<managerVars, dialogueVars, peerVars, buffer, delivered, count>>

\* Mutation of BothDone: the first direction to end takes the other with it.
OneDone == \E d \in Directions : state[d] = "Done"

BothDone == \A d \in Directions : state[d] = "Done"

CopyEnds ==
    /\ stage = "copy" /\ BothDone
    /\ Finish("ok")
    /\ UNCHANGED <<managerVars, copyVars, peerVars, buffer, offered, addresses,
                   attempts, lastError, replies>>

--------------------------------------------------------------------------------

\* A direction touches its source only to fill an empty buffer, and its sink only to
\* write what is in the buffer or to shut it down.
ReadFails(d) == reset[d] /\ state[d] = "Running" /\ buffer[d] = <<>>

WriteFails(d) ==
    /\ reset[Opposite(d)]
    /\ \/ state[d] = "Running" /\ buffer[d] # <<>>
       \/ state[d] = "ShuttingDown"

\* A read or a write of an end that was reset fails, and the whole copy with it.
IOFails ==
    /\ IF stage = "copy"
       THEN \E d \in Directions : ReadFails(d) \/ WriteFails(d)
       ELSE /\ reset["up"]
            /\ \/ stage \in ReadingStages \cup {"userpass"}
               \/ stage = "connect" /\ addresses = <<>>
    /\ Finish("failed")
    /\ UNCHANGED <<managerVars, copyVars, peerVars, buffer, offered, addresses,
                   attempts, lastError, replies>>

\* The server stops: the connection is dropped where it is, and not logged.
Cancelled ==
    /\ Alive
    /\ stage' = "finished"
    /\ UNCHANGED <<managerVars, copyVars, peerVars, buffer, offered, addresses,
                   attempts, lastError, replies, result>>

Terminated == ~Alive /\ UNCHANGED vars

Negotiates ==
    \/ \E token \in ToSet(buffer["up"]) :
          ReadHello(token) \/ ReadLogin(token) \/ ReadRequest(token) \/ ReadName(token)
    \/ TryNoAuth \/ TryUserPass \/ EndInNegotiation \/ Connect \/ ConnectFails

Copies(d) == Fill(d) \/ Transfer(d) \/ SeesEnd(d) \/ ShutsDown(d)

Next ==
    \/ ClientSends \/ DestinationSends
    \/ \E d \in Directions : SourceEnds(d) \/ SourceResets(d)
    \/ ManagerToggles \/ ManagerChangesUser
    \/ Negotiates \/ \E d \in Directions : Copies(d)
    \/ CopyEnds \/ IOFails \/ Cancelled \/ Terminated

\* The task is polled when it can go on; an attempt to connect comes to an end, and
\* the two ends read what they are sent.
Fairness ==
    /\ WF_vars(Negotiates) /\ WF_vars(CopyEnds) /\ WF_vars(IOFails)
    /\ \A d \in Directions : WF_vars(Copies(d))

Spec == Init /\ [][Next]_vars /\ Fairness

--------------------------------------------------------------------------------
(***************************************************************************)
(* Properties                                                              *)
(***************************************************************************)

Admissions == {<<"NoAuth">>, <<"UserPass", "Granted">>}

Refusals == {<<>>, <<"NoMethod">>, <<"UserPass">>, <<"UserPass", "Denied">>}

Dialogues == Refusals \cup Admissions \cup {a \o <<s>> : a \in Admissions, s \in Statuses}

\* What the client is told is a dialogue of the protocol, whatever it sends and
\* whatever managers change on the way: a refused client hears nothing more, an
\* admitted one at most one status.  The method is one of those it offered, and no
\* destination is attempted, nor a byte copied, for a client that was not admitted
\* (handle_socks5_inner, mod.rs:72-144).
DialogueLegal ==
    /\ replies \in Dialogues
    /\ "NoAuth" \in ToSet(replies) => "noauth" \in offered
    /\ "UserPass" \in ToSet(replies) => "userpass" \in offered
    /\ attempts # <<>> => \E a \in Admissions : IsPrefix(a, replies)
    /\ \A d \in Directions : delivered[d] # <<>> => Last(replies) = "Success"

\* It does so in states of their type.
DialogueInv == TypeOK /\ DialogueLegal

Reached == attempts # <<>> /\ Last(attempts).outcome = "Success"

\* Of the attempts, all of them failures, the one that tells why is the last that had
\* a socket; if none had, the host is unreachable, as it is if that one timed out.
Explains(status) ==
    \/ /\ status = "HostUnreachable"
       /\ \A i \in 1 .. Len(attempts) : attempts[i].outcome = "bind"
    \/ \E i \in 1 .. Len(attempts) :
          /\ attempts[i].outcome = status
          /\ \A j \in i + 1 .. Len(attempts) : attempts[j].outcome = "bind"

\* The addresses of a name are attempted in the order of its resolution, each once
\* and none after one that answered; the client is told of success exactly when one
\* did, and of failure only when all have failed, with the reason of the last that
\* had a socket (connect_socket; README.md:13).
AttemptsInOrder ==
    LET tried == [i \in 1 .. Len(attempts) |-> attempts[i].address]
    IN  /\ tried \o addresses \in Resolutions \cup {<<a>> : a \in Addresses} \cup {<<>>}
        /\ \A i \in 1 .. Len(attempts) - 1 : attempts[i].outcome # "Success"
        /\ "Success" \in ToSet(replies) <=> Reached
        /\ (stage = "finished" /\ attempts # <<>> /\ result = "ok") =>
              Reached \/ (addresses = <<>> /\ Explains(Last(replies)))

\* What the source of a direction has sent, once there is a destination.
Sent(d) == IF Reached THEN delivered[d] \o buffer[d] \o incoming[d] ELSE <<>>

T == INSTANCE Tunnel WITH
        sent <- [d \in Directions |-> Sent(d)],
        ended <- [d \in Directions |-> Reached /\ ended[d]],
        shut <- [d \in Directions |-> state[d] = "Done"],
        over <- stage = "finished"

\* The connection is a tunnel of two independent directions: what comes out of each
\* is what went in, in order and without a gap, what the client sent ahead of the
\* answers included, however the writes are cut; the end of one side is passed on
\* after everything it sent (copy_bidirectional).
ImplementsTunnel == T!Spec

\* What the log reports of a connection is true: the totals are those of the bytes
\* that were written, not of those that were read and lost with it, and a copy that
\* ended well has ended on both sides and delivered everything both of them sent
\* (register_bytes_sent, log_socks_finished, copy.rs:104-107).
ReportTrue ==
    /\ \A d \in Directions : count[d] = Len(delivered[d])
    /\ Reached /\ result = "ok" =>
          \A d \in Directions : ended[d] /\ delivered[d] = Sent(d)

\* What the client is told and what the log is told are what happened.
TellsTheTruth == AttemptsInOrder /\ ReportTrue

\* A destination that has closed its side, or a client that has, still gets what the
\* other one sends, unless the connection ends (transfer_one_direction).
HalfCloseServes ==
    \A d \in Directions : \A n \in 1 .. MaxDown :
        (stage = "copy" /\ Len(Sent(d)) >= n) ~> (Len(delivered[d]) >= n \/ ~Alive)

\* A client that closes its side during the negotiation is let go, or is copied for.
\* In the middle of a name it is not: there read_domainname takes the end of the
\* stream for a read of no bytes, and reads again (chunk_reader.rs:44-57).
NegotiationEnds == ended["up"] ~> stage \in {"copy", "finished", "name"}

\* The copy ends when both ends have closed their side, or when one that has not is
\* reset.  (An end that closes its side and is reset later is noticed only when the
\* other one has something for it.)
CopyReturns ==
    (/\ stage = "copy"
     /\ (\A d \in Directions : ended[d]) \/ (\E d \in Directions : reset[d] /\ ~ended[d]))
    ~> ~Alive

\* A connection serves its ends, and ends when they want it to.
ServesAndEnds == HalfCloseServes /\ NegotiationEnds /\ CopyReturns

================================================================================
