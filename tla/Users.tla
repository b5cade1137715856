--------------------------------- MODULE Users ---------------------------------
(***************************************************************************)
(* The data of the user management: what a user is (UserData in            *)
(* dust-devil/src/users.rs, UserRole in dust-devil-core/src/users.rs), and *)
(* the names, passwords and managers of an instance.                       *)
(***************************************************************************)
EXTENDS FiniteSets

CONSTANTS
    Managers,           \* the sandstorm connections that send requests
    Usernames,          \* every name a request or the users file can hold
    UnprintableNames,   \* the names add_user refuses (the file may hold them)
    Passwords,
    NoUser,             \* marks a name that has no entry
    None                \* an absent optional field, or no request at all

Roles == {"Admin", "Regular"}

UserData == [password : Passwords, role : Roles]

Table == [Usernames -> UserData \cup {NoUser}]

ASSUME UsersAssumption ==
    /\ IsFiniteSet(Managers)
    /\ IsFiniteSet(Usernames)
    /\ UnprintableNames \subseteq Usernames
    /\ NoUser \notin UserData
    /\ NoUser \notin Roles
    /\ None \notin Passwords
    /\ None \notin Roles

\* What a request can be answered.
Answers == {"Ok", "InvalidValues", "AlreadyExists", "NothingWasRequested",
            "UserNotFound", "CannotDeleteOnlyAdmin"}

RoleIn(table, u) == IF table[u] = NoUser THEN NoUser ELSE table[u].role

AdminsOf(table) == {u \in Usernames : RoleIn(table, u) = "Admin"}

\* An update keeps the fields the request leaves out.
Updated(old, password, role) ==
    [password |-> IF password = None THEN old.password ELSE password,
     role |-> IF role = None THEN old.role ELSE role]

=============================================================================
