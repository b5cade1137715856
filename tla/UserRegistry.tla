----------------------------- MODULE UserRegistry -----------------------------
(***************************************************************************)
(* What the user management of the server promises, with no lock, counter  *)
(* or interleaving in sight: a table of users that changes atomically, one *)
(* administrator request at a time, and never loses its last               *)
(* administrator.  UserManager.tla is shown to implement it.               *)
(***************************************************************************)

EXTENDS Users

VARIABLES
    registry,   \* the table of users
    answer      \* the answer each manager holds, or "waiting", or "ready"

vars == <<registry, answer>>

TypeOK ==
    /\ registry \in Table
    /\ answer \in [Managers -> Answers \cup {"ready", "waiting"}]

-----------------------------------------------------------------------------

IsAdmin(u) == u \in AdminsOf(registry)

OtherAdmin(u) == AdminsOf(registry) \ {u} # {}

Answer(m, a) ==
    /\ answer[m] = "waiting"
    /\ answer' = [answer EXCEPT ![m] = a]

Init ==
    /\ registry \in Table
    /\ AdminsOf(registry) # {}
    /\ answer = [m \in Managers |-> "ready"]

Ask(m) ==
    /\ answer[m] # "waiting"
    /\ answer' = [answer EXCEPT ![m] = "waiting"]
    /\ UNCHANGED registry

Add(m, u, data) ==
    \/ /\ u \notin UnprintableNames
       /\ registry[u] = NoUser
       /\ Answer(m, "Ok")
       /\ registry' = [registry EXCEPT ![u] = data]
    \/ /\ u \in UnprintableNames
       /\ Answer(m, "InvalidValues")
       /\ UNCHANGED registry
    \/ /\ registry[u] # NoUser
       /\ Answer(m, "AlreadyExists")
       /\ UNCHANGED registry

Update(m, u, password, role) ==
    \/ /\ registry[u] # NoUser
       /\ <<password, role>> # <<None, None>>
       /\ IsAdmin(u) /\ role = "Regular" => OtherAdmin(u)
       /\ Answer(m, "Ok")
       /\ registry' = [registry EXCEPT ![u] = Updated(@, password, role)]
    \/ /\ IsAdmin(u) /\ role = "Regular"
       /\ Answer(m, "CannotDeleteOnlyAdmin")
       /\ UNCHANGED registry
    \/ /\ password = None /\ role = None
       /\ Answer(m, "NothingWasRequested")
       /\ UNCHANGED registry
    \/ /\ registry[u] = NoUser
       /\ Answer(m, "UserNotFound")
       /\ UNCHANGED registry

Delete(m, u) ==
    \/ /\ registry[u] # NoUser
       /\ IsAdmin(u) => OtherAdmin(u)
       /\ Answer(m, "Ok")
       /\ registry' = [registry EXCEPT ![u] = NoUser]
    \/ /\ IsAdmin(u)
       /\ Answer(m, "CannotDeleteOnlyAdmin")
       /\ UNCHANGED registry
    \/ /\ registry[u] = NoUser
       /\ Answer(m, "UserNotFound")
       /\ UNCHANGED registry

Next ==
    \E m \in Managers :
        \/ Ask(m)
        \/ \E u \in Usernames :
            \/ \E data \in UserData : Add(m, u, data)
            \/ \E password \in Passwords \cup {None}, role \in Roles \cup {None} :
                  Update(m, u, password, role)
            \/ Delete(m, u)

Spec == Init /\ [][Next]_vars

=============================================================================
