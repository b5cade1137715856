------------------------------- MODULE UsersFile -------------------------------
(***************************************************************************)
(* The format of the users file, in dust-devil/src/users.rs and            *)
(* utils/process_lines.rs: how a line is read as a user, how a whole file  *)
(* is, and how a table of users is written.  A string is a sequence of     *)
(* characters, each of one byte; a table is a function on the names that   *)
(* have an entry.                                                          *)
(***************************************************************************)
EXTENDS Integers, FiniteSets, SequencesExt

CONSTANTS
    Chars,              \* the characters there are
    MaxLength           \* the 255 characters a name or a password may have

Escape == "\\"

Blank == " "            \* the white space there is

ASSUME UsersFileAssumption ==
    /\ {Escape, ":", "\n", Blank, "@", "#", "!"} \subseteq Chars
    /\ MaxLength \in Nat \ {0}

Text == Seq(Chars)

RoleChars == [Admin |-> "@", Regular |-> "#"]

NoUsers == <<>>         \* the table without entries

With(users, u, data) ==
    [name \in DOMAIN users \cup {u} |-> IF name = u THEN data ELSE users[name]]

Admins(users) == {u \in DOMAIN users : users[u].role = "Admin"}

-----------------------------------------------------------------------------
(* Reading                                                                 *)

TrimStart(line) ==
    LET first == SelectInSeq(line, LAMBDA c : c # Blank)
    IN IF first = 0 THEN <<>> ELSE SubSeq(line, first, Len(line))

\* One character after the role.  Either field may hold escaped characters; the
\* name ends at the first colon that is not.
ScanChar(scan, c) ==
    CASE ~scan.escape /\ c = Escape -> [scan EXCEPT !.escape = TRUE]
      [] ~scan.escape /\ c = ":" /\ scan.field = "username"
            -> [scan EXCEPT !.field = "password"]
      [] OTHER -> [scan EXCEPT !.escape = FALSE, ![scan.field] = Append(@, c)]

ScanStart == [field |-> "username", escape |-> FALSE, username |-> <<>>, password |-> <<>>]

Scan(chars) ==
    LET upTo[n \in 0 .. Len(chars)] ==
            IF n = 0 THEN ScanStart ELSE ScanChar(upTo[n - 1], chars[n])
    IN  upTo[Len(chars)]

FitsLength(field) == field # <<>> /\ Len(field) <= MaxLength

\* What a trimmed line is: nothing, an error, or a user.
ParsedLine(line) ==
    LET scan == Scan(Tail(line))
        Bad == [type |-> "error"]
    IN
    CASE line = <<>> \/ Head(line) = "!" -> [type |-> "nothing"]
      [] line # <<>> /\ Head(line) \notin {"!", "@", "#"} -> Bad
      [] OTHER ->
            IF scan.field = "password" /\ FitsLength(scan.username) /\ FitsLength(scan.password)
            THEN [type |-> "user", username |-> scan.username,
                  data |-> [password |-> scan.password,
                            role |-> IF Head(line) = "@" THEN "Admin" ELSE "Regular"]]
            ELSE Bad

Parsed(line) == ParsedLine(TrimStart(line))

One(condition) == IF condition THEN 1 ELSE 0

\* Mutation of Replaced: the entry that was there is forgotten.
ReplacedUncounted(table, u, data) ==
    [table EXCEPT !.users = With(@, u, data),
                  !.admin_count = @ + One(data.role = "Admin")]

\* An entry is put in the table over the one it may replace, and counted.
Replaced(table, u, data) ==
    [table EXCEPT !.users = With(@, u, data),
                  !.admin_count = @ - One(u \in Admins(table.users)) + One(data.role = "Admin")]

\* A line of the file; after an error nothing more is read.
LoadLine(table, line) ==
    LET parsed == Parsed(line) IN
    CASE ~table.ok \/ parsed.type = "nothing" -> table
      [] table.ok /\ parsed.type = "error" -> [table EXCEPT !.ok = FALSE]
      [] OTHER -> Replaced(table, parsed.username, parsed.data)

\* Lines of the file, one after the other.
LoadLines(table, lines) ==
    LET upTo[n \in 0 .. Len(lines)] ==
            IF n = 0 THEN table ELSE LoadLine(upTo[n - 1], lines[n])
    IN  upTo[Len(lines)]

\* The complete lines of some bytes, and what comes after the last newline.
SplitChar(split, c) ==
    IF c = "\n" THEN [lines |-> Append(split.lines, split.rest), rest |-> <<>>]
    ELSE [split EXCEPT !.rest = Append(@, c)]

SplitStart == [lines |-> <<>>, rest |-> <<>>]

Split(bytes) ==
    LET upTo[n \in 0 .. Len(bytes)] ==
            IF n = 0 THEN SplitStart ELSE SplitChar(upTo[n - 1], bytes[n])
    IN  upTo[Len(bytes)]

-----------------------------------------------------------------------------
(* Writing                                                                 *)

\* Mutation of Escaped: names are written as they are.
Unescaped(name) == name

EscapeChar(s, c) == s \o (IF c \in {Escape, ":"} THEN <<Escape, c>> ELSE <<c>>)

Escaped(name) ==
    LET upTo[n \in 0 .. Len(name)] ==
            IF n = 0 THEN <<>> ELSE EscapeChar(upTo[n - 1], name[n])
    IN  upTo[Len(name)]

\* The name is escaped.  The password is not.
SavedLine(users, u) ==
    <<RoleChars[users[u].role]>> \o Escaped(u) \o <<":">> \o users[u].password

-----------------------------------------------------------------------------
(* What the documentation of the format says, for files within the limits  *)

\* All lines of a file, the last one with or without a newline.
AllLines(file) ==
    LET split == Split(file)
    IN IF split.rest = <<>> THEN split.lines ELSE Append(split.lines, split.rest)

UserLines(lines) == {i \in 1 .. Len(lines) : Parsed(lines[i]).type = "user"}

NameAt(lines, i) == Parsed(lines[i]).username

WellFormed(lines) == \A i \in 1 .. Len(lines) : Parsed(lines[i]).type # "error"

LastAbout(lines, u) ==
    CHOOSE i \in UserLines(lines) :
        /\ NameAt(lines, i) = u
        /\ \A j \in UserLines(lines) : NameAt(lines, j) = u => j <= i

\* The users of some lines: none is malformed, there is one user at least, and of
\* several lines about one name the last one holds.
UsersOf(lines) ==
    [ok |-> UserLines(lines) # {} /\ WellFormed(lines),
     users |-> [u \in {NameAt(lines, i) : i \in UserLines(lines)} |->
                  Parsed(lines[LastAbout(lines, u)]).data]]

DocumentedUsers(file) == UsersOf(AllLines(file))

=============================================================================
