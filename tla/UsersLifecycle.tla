----------------------------- MODULE UsersLifecycle -----------------------------
(***************************************************************************)
(* The users from one run of the server to the next: run_server_inner and  *)
(* create_user_manager in dust-devil/src/server.rs, UserManager::from and  *)
(* save_to in users.rs, process_lines_utf8.                                *)
(*                                                                         *)
(* The file is read in chunks of whatever size the reads return, through a *)
(* buffer of Capacity bytes.  Users given as arguments are added, and an   *)
(* administrator if there is none.  Requests then change the table, here   *)
(* each in one step (UserManager shows that they implement that).  At the  *)
(* end the file is truncated and written through a buffer; the server may  *)
(* die anywhere.                                                           *)
(***************************************************************************)
EXTENDS UsersFile

CONSTANTS
    Capacity,           \* BUFFER_CAPACITY of process_lines.rs
    InitialFiles,       \* what the file may hold before the first start
    NoFile,             \* there is none
    NewUsers,           \* the users among the arguments
    DefaultName,        \* DEFAULT_USER_USERNAME
    DefaultPassword,    \* DEFAULT_USER_PASSWORD
    Usernames,          \* the names and passwords requests may hold
    Passwords,
    MaxRequests,        \* bound on the requests of a behaviour
    MaxStarts           \* bound on the starts of the server

\* What the protocol has room for in a request, and parse_line_into_user accepts.
Fields == {field \in Text : Len(field) <= MaxLength}

UserData == [password : Fields, role : DOMAIN RoleChars]

\* Any line of a name and a password, with all the name escaped, fits the buffer.
ASSUME UsersLifecycleAssumption ==
    /\ Capacity \in Nat /\ Capacity > 3 * MaxLength + 2
    /\ \A content \in InitialFiles \ {NoFile} : content \in Text
    /\ IsFiniteSet(DOMAIN NewUsers)
    /\ \A u \in DOMAIN NewUsers : u \in Fields /\ NewUsers[u] \in UserData
    /\ DefaultName \in Fields /\ DefaultPassword \in Fields
    /\ \A u \in Usernames \cup Passwords : u \in Fields
    /\ MaxRequests \in Nat /\ MaxStarts \in Nat

VARIABLES
    phase,          \* where the server is
    file,           \* what the users file holds
    position,       \* how much of it has been read
    buffer,         \* the start of a line, read but not complete
    table,          \* users and admin_count, and whether loading goes well
    cause,          \* why loading ended, if it did
    written,        \* what the save has written, into the file or its buffer
    unsaved,        \* the users it has yet to write
    origin,         \* what the file comes from: the table saved, if it was
    requests_left,  \* bounds
    starts_left

loadVars == <<position, buffer, cause>>

saveVars == <<written, unsaved, origin>>

bounds == <<requests_left, starts_left>>

vars == <<phase, file, loadVars, table, saveVars, bounds>>

EmptyTable == [ok |-> TRUE, users |-> NoUsers, admin_count |-> 0]

\* Where the content of a file comes from: an editor, or a save, interrupted or not.
HandWritten == [users |-> NoUsers, by |-> "hand"]

TypeOK ==
    /\ phase \in {"stopped", "reading", "loaded", "running", "saving"}
    /\ position \in Nat /\ (phase = "reading" => position <= Len(file))
    /\ Len(buffer) < Capacity
    /\ table.admin_count \in Nat
    /\ cause \in {"none", "end", "line", "io"}
    /\ unsaved \subseteq DOMAIN table.users
    /\ origin.by \in {"hand", "save", "part"}
    /\ requests_left \in 0 .. MaxRequests /\ starts_left \in 0 .. MaxStarts

Init ==
    /\ phase = "stopped"
    /\ file \in InitialFiles
    /\ position = 0
    /\ buffer = <<>>
    /\ table = EmptyTable
    /\ cause = "none"
    /\ written = <<>>
    /\ unsaved = {}
    /\ origin = HandWritten
    /\ requests_left = MaxRequests
    /\ starts_left = MaxStarts

-----------------------------------------------------------------------------
(* Starting up                                                             *)

\* File::open, which fails if there is no file, or for another reason.
Open ==
    /\ phase = "stopped" /\ starts_left > 0
    /\ starts_left' = starts_left - 1
    /\ position' = 0
    /\ buffer' = <<>>
    /\ table' = EmptyTable
    /\ \/ file # NoFile /\ phase' = "reading" /\ cause' = "none"
       \/ phase' = "loaded" /\ cause' = "io"
    /\ UNCHANGED <<file, saveVars, requests_left>>

\* Loading ends badly: the server goes on with an empty table.
Give(reason) ==
    /\ phase' = "loaded"
    /\ cause' = reason
    /\ table' = EmptyTable
    /\ buffer' = <<>>

\* The buffer is full and holds no newline.
TooLong(split, bytes) == split.lines = <<>> /\ Len(bytes) = Capacity

Remaining == Len(file) - position

\* Mutation of Room: off by one.
RoomLessOne == Capacity - Len(buffer) - 1

Room == Capacity - Len(buffer)

\* A read returns some of the bytes that are left, as many as fit at most; the
\* lines they complete are taken one after the other.
ReadChunk ==
    /\ phase = "reading"
    /\ \E n \in 1 .. (IF Room < Remaining THEN Room ELSE Remaining) :
        LET bytes == buffer \o SubSeq(file, position + 1, position + n)
            split == Split(bytes)
            result == LoadLines(table, split.lines)
        IN
        /\ position' = position + n
        /\ \/ /\ result.ok /\ ~TooLong(split, bytes)
              /\ table' = result
              /\ buffer' = split.rest
              /\ UNCHANGED <<phase, cause>>
           \/ /\ ~result.ok \/ TooLong(split, bytes)
              /\ Give("line")
    /\ UNCHANGED <<file, saveVars, bounds>>

\* A read of nothing: the end of the file, or no room to read into.
EndRead ==
    /\ phase = "reading"
    /\ Remaining = 0 \/ Room = 0
    /\ LET result == IF buffer = <<>> THEN table ELSE LoadLine(table, buffer) IN
        \/ /\ result.ok /\ result.users # NoUsers
           /\ phase' = "loaded"
           /\ cause' = "end"
           /\ table' = result
           /\ buffer' = <<>>
        \/ /\ ~result.ok \/ result.users = NoUsers
           /\ Give("line")
    /\ UNCHANGED <<file, position, saveVars, bounds>>

ReadError ==
    /\ phase = "reading"
    /\ Give("io")
    /\ UNCHANGED <<file, position, saveVars, bounds>>

\* insert_or_update of every user among the arguments.
WithArguments(loaded) ==
    LET names == SetToSeq(DOMAIN NewUsers)
        upTo[n \in 0 .. Len(names)] ==
            IF n = 0 THEN loaded ELSE Replaced(upTo[n - 1], names[n], NewUsers[names[n]])
    IN  upTo[Len(names)]

\* Mutation of WithDefault: only an empty table gets the default user.
WithDefaultIfEmpty(t) ==
    IF t.users = NoUsers
    THEN Replaced(t, DefaultName, [password |-> DefaultPassword, role |-> "Admin"])
    ELSE t

\* Without administrators one is inserted; insert refuses a name that is taken,
\* and nobody looks at its answer.
WithDefault(t) ==
    IF t.admin_count = 0 /\ DefaultName \notin DOMAIN t.users
    THEN Replaced(t, DefaultName, [password |-> DefaultPassword, role |-> "Admin"])
    ELSE t

\* The rest of create_user_manager; then the server listens.
Start ==
    /\ phase = "loaded"
    /\ phase' = "running"
    /\ table' = WithDefault(WithArguments(table))
    /\ UNCHANGED <<file, loadVars, saveVars, bounds>>

\* No socks5 socket can be bound: the server returns, and saves nothing.
Abort ==
    /\ phase = "loaded"
    /\ phase' = "stopped"
    /\ table' = EmptyTable
    /\ UNCHANGED <<file, loadVars, saveVars, bounds>>

-----------------------------------------------------------------------------
(* Requests: each needs a manager, and to have logged in as one takes an   *)
(* administrator.                                                          *)

Request ==
    /\ phase = "running"
    /\ Admins(table.users) # {}
    /\ requests_left > 0
    /\ requests_left' = requests_left - 1
    /\ UNCHANGED <<phase, file, loadVars, saveVars, starts_left>>

\* add_user refuses the characters that are not graphic, but no empty name.
Printable(name) == \A i \in 1 .. Len(name) : name[i] \notin {Blank, "\n"}

OnlyAdmin(u) == u \in Admins(table.users) /\ table.admin_count = 1

AddUser ==
    /\ Request
    /\ \E u \in Usernames, password \in Passwords, role \in DOMAIN RoleChars :
        /\ u \notin DOMAIN table.users /\ Printable(u)
        /\ table' = Replaced(table, u, [password |-> password, role |-> role])

UpdateUser ==
    /\ Request
    /\ \E u \in DOMAIN table.users, role \in DOMAIN RoleChars :
        /\ OnlyAdmin(u) => role = "Admin"
        /\ \E password \in Passwords \cup {table.users[u].password} :
              table' = Replaced(table, u, [password |-> password, role |-> role])

DeleteUser ==
    /\ Request
    /\ \E u \in DOMAIN table.users :
        /\ ~OnlyAdmin(u)
        /\ table' = [table EXCEPT
              !.users = [name \in DOMAIN table.users \ {u} |-> table.users[name]],
              !.admin_count = @ - One(u \in Admins(table.users))]

-----------------------------------------------------------------------------
(* Stopping                                                                *)

\* File::create truncates the file.
Stop ==
    /\ phase = "running"
    /\ phase' = "saving"
    /\ file' = <<>>
    /\ written' = <<>>
    /\ unsaved' = DOMAIN table.users
    /\ origin' = [users |-> table.users, by |-> "part"]
    /\ UNCHANGED <<loadVars, table, bounds>>

\* Mutation of SaveUser: the users are not sorted.
SaveUserUnsorted ==
    /\ phase = "saving"
    /\ \E u \in unsaved :
        /\ written' = written \o (IF unsaved = DOMAIN table.users THEN <<>> ELSE <<"\n">>)
                              \o SavedLine(table.users, u)
        /\ unsaved' = unsaved \ {u}
    /\ UNCHANGED <<phase, file, loadVars, table, origin, bounds>>

\* Administrators come first; the order of names within a role is abstracted.
SaveUser ==
    /\ phase = "saving"
    /\ \E u \in unsaved :
        /\ u \in Admins(table.users) \/ unsaved \cap Admins(table.users) = {}
        /\ written' = written \o (IF unsaved = DOMAIN table.users THEN <<>> ELSE <<"\n">>)
                              \o SavedLine(table.users, u)
        /\ unsaved' = unsaved \ {u}
    /\ UNCHANGED <<phase, file, loadVars, table, origin, bounds>>

\* The buffer is flushed, and the server is done.
EndSave ==
    /\ phase = "saving" /\ unsaved = {}
    /\ phase' = "stopped"
    /\ file' = written
    /\ origin' = [origin EXCEPT !.by = "save"]
    /\ table' = EmptyTable
    /\ UNCHANGED <<loadVars, written, unsaved, bounds>>

\* The server dies, or the save fails: the file holds some of what was written.
Die ==
    /\ phase # "stopped"
    /\ phase' = "stopped"
    /\ \/ phase # "saving" /\ UNCHANGED file
       \/ phase = "saving" /\ \E n \in 0 .. Len(written) : file' = SubSeq(written, 1, n)
    /\ table' = EmptyTable
    /\ unsaved' = {}
    /\ buffer' = <<>>
    /\ UNCHANGED <<position, cause, written, origin, bounds>>

Next ==
    \/ Open \/ ReadChunk \/ EndRead \/ ReadError \/ Start \/ Abort
    \/ AddUser \/ UpdateUser \/ DeleteUser
    \/ Stop \/ SaveUser \/ EndSave \/ Die

Spec == Init /\ [][Next]_vars

-----------------------------------------------------------------------------
(* Properties                                                              *)

\* However the reads cut the file, what is loaded is what the format says, and
\* a line that does not fit in the buffer is an error, never the end of the file
\* or a shorter line (process_lines.rs:60, users.rs:154).
LoadsTheFile ==
    phase = "loaded" /\ cause # "io" =>
        LET documented == DocumentedUsers(file)
            fits == \A i \in 1 .. Len(AllLines(file)) : Len(AllLines(file)[i]) < Capacity
        IN table.users = IF documented.ok /\ fits THEN documented.users ELSE NoUsers

\* admin_count is the number of administrators, in whatever order lines,
\* arguments, the default user and requests replaced one another.
AdminsCounted == table.admin_count = Cardinality(Admins(table.users))

\* The buffer stays within its capacity meanwhile.
LoadInv == TypeOK /\ LoadsTheFile /\ AdminsCounted

\* A running server has an administrator, unless the name of the default one
\* was taken by a regular user (server.rs:265): then nobody can ever log in.
SomeoneCanLogIn ==
    phase = "running" =>
        \/ Admins(table.users) # {}
        \/ DefaultName \in DOMAIN table.users

Plain(s) == s # <<>> /\ \A i \in 1 .. Len(s) : s[i] \notin {Escape, "\n"}

Simple(users) ==
    \A u \in DOMAIN users :
        /\ u # <<>> /\ \A i \in 1 .. Len(u) : u[i] # "\n"
        /\ Plain(users[u].password)

\* "the ability to load and save this information from disk" (users.rs:1): a
\* server that stopped properly comes back with the users it had.
RestartKeepsUsers ==
    phase = "loaded" /\ origin.by = "save" /\ cause # "io" => table.users = origin.users

\* It does, if no name is empty or has a newline in it, as one among the arguments may,
\* and no password is empty or has an escape character or a newline in it: names, with
\* escapes or colons, all come back.
RestartKeepsSimpleUsers == Simple(origin.users) => RestartKeepsUsers

\* A save that did not come to its end leaves a file that is refused, or one that
\* holds some of the users, with their roles, administrators first; the password
\* of the last one may be cut.
PartialSaveInventsNothing ==
    phase = "loaded" /\ origin.by = "part" /\ Simple(origin.users) =>
        /\ DOMAIN table.users \subseteq DOMAIN origin.users
        /\ \A u \in DOMAIN table.users :
              /\ table.users[u].role = origin.users[u].role
              /\ IsPrefix(table.users[u].password, origin.users[u].password)
        /\ table.users # NoUsers /\ Admins(origin.users) # {} => Admins(table.users) # {}
        /\ Cardinality({u \in DOMAIN table.users : table.users[u] # origin.users[u]}) <= 1

=============================================================================
