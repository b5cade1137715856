------------------------------ MODULE UserManager ------------------------------
(***************************************************************************)
(* The users of the server: dust-devil/src/users.rs, and the user requests *)
(* of SandstormContext in context.rs that call it and log what they did.   *)
(*                                                                         *)
(* The table is a DashMap: NumShards shards, each under its own            *)
(* reader-writer lock.  A request locks only the shard of the name it is   *)
(* about, while the number of administrators lives in an atomic outside    *)
(* every lock, and the event is logged after the shard is released.  Each  *)
(* manager (sandstorm connection) runs on some worker thread, one request  *)
(* at a time; the main task saves the table when the server stops, with    *)
(* requests possibly still running.                                        *)
(***************************************************************************)
EXTENDS Integers, FiniteSets, Users

CONSTANTS
    NumShards,          \* how many shards the DashMap has
    ShardOf,            \* the shard each name hashes to
    Unlocked,           \* the owner of a shard lock nobody writes under
    MaxRequests         \* bound on the requests of a behaviour

Shards == 1 .. NumShards

ASSUME UserManagerAssumption ==
    /\ NumShards \in Nat
    /\ ShardOf \in [Usernames -> Shards]
    /\ Unlocked \notin Managers
    /\ MaxRequests \in Nat

VARIABLES
    users,          \* UserManager.users: the entry of each name
    admin_count,    \* UserManager.admin_count
    shard_lock,     \* the manager that holds each shard's write lock
    pc,             \* where each manager is in its request
    op,             \* the request each manager is executing
    answer,         \* what its latest request returned, or "waiting"
    announced,      \* the roles a reader of the event log so far knows
    requests_left,  \* bound: requests still to come
    save_phase,     \* where save_to_file is
    next_shard,     \* the shard its iterator reads next
    guards,         \* the shards it holds read guards of
    collected,      \* the entries its guards give it access to
    unwritten,      \* the collected names that are not in the file yet
    written         \* what it has put in the file

tableVars == <<users, admin_count, shard_lock, pc, op, answer, announced,
               requests_left>>

saveVars == <<save_phase, next_shard, guards, collected, unwritten, written>>

vars == <<tableVars, saveVars>>

Requests ==
    [type : {"Add"}, username : Usernames, password : Passwords, role : Roles]
    \cup [type : {"Update"}, username : Usernames,
          password : Passwords \cup {None}, role : Roles \cup {None}]
    \cup [type : {"Delete"}, username : Usernames,
          password : {None}, role : {None}]

\* The phases of a request: "entry" waits for the shard, "count" is between
\* the insertion and its fetch_add, "write" holds the shard locked after the
\* count was updated, "log" is done with the table and has an event to send.
Phases == {"idle", "entry", "count", "write", "log"}

SavePhases == {"idle", "collect", "write", "done", "failed"}

TypeOK ==
    /\ users \in Table
    /\ admin_count \in Nat
    /\ shard_lock \in [Shards -> Managers \cup {Unlocked}]
    /\ pc \in [Managers -> Phases]
    /\ op \in [Managers -> Requests \cup {None}]
    /\ answer \in [Managers -> Answers \cup {"ready", "waiting"}]
    /\ announced \in [Usernames -> Roles \cup {NoUser}]
    /\ requests_left \in Nat
    /\ save_phase \in SavePhases
    /\ next_shard \in Nat
    /\ guards \subseteq Shards
    /\ collected \in Table
    /\ unwritten \subseteq Usernames
    /\ written \in Table

-----------------------------------------------------------------------------
(* The table                                                               *)

InShard(s) == {u \in Usernames : ShardOf[u] = s}

\* The entry of a request's name once its pending write is done.
NewData(m) ==
    IF op[m].type = "Delete" THEN NoUser
    ELSE Updated(users[op[m].username], op[m].password, op[m].role)

\* The entry of u as every later request will find it: what is in the map, or
\* what the manager that has u's shard locked is about to put there.
Effective(u) ==
    LET holder == shard_lock[ShardOf[u]] IN
    IF holder # Unlocked /\ op[holder].username = u THEN NewData(holder)
    ELSE users[u]

EffectiveUsers == [u \in Usernames |-> Effective(u)]

Registry == INSTANCE UserRegistry WITH registry <- EffectiveUsers

Init ==
    /\ users \in Table
    /\ AdminsOf(users) # {}
    /\ admin_count = Cardinality(AdminsOf(users))
    /\ shard_lock = [s \in Shards |-> Unlocked]
    /\ pc = [m \in Managers |-> "idle"]
    /\ op = [m \in Managers |-> None]
    /\ answer = [m \in Managers |-> "ready"]
    /\ announced = [u \in Usernames |-> RoleIn(users, u)]
    /\ requests_left = MaxRequests
    /\ save_phase = "idle"
    /\ next_shard = 1
    /\ guards = {}
    /\ collected = [u \in Usernames |-> NoUser]
    /\ unwritten = {}
    /\ written = [u \in Usernames |-> NoUser]

-----------------------------------------------------------------------------
(* Requests                                                                *)

Request(m) ==
    /\ pc[m] = "idle"
    /\ requests_left > 0
    /\ requests_left' = requests_left - 1
    /\ pc' = [pc EXCEPT ![m] = "entry"]
    /\ \E r \in Requests : op' = [op EXCEPT ![m] = r]
    /\ answer' = [answer EXCEPT ![m] = "waiting"]
    /\ UNCHANGED <<users, admin_count, shard_lock, announced, saveVars>>

\* Mutation of CanLock: writers do not exclude each other.
CanLockSharing(u) == ShardOf[u] \notin guards

\* DashMap::entry gets the write lock: no writer and no reader has the shard.
CanLock(u) ==
    /\ shard_lock[ShardOf[u]] = Unlocked
    /\ ShardOf[u] \notin guards

At(m, phase, type) == pc[m] = phase /\ op[m].type = type

\* A request that returns early: nothing was changed and nothing is logged.
Return(m, a) ==
    /\ pc' = [pc EXCEPT ![m] = "idle"]
    /\ op' = [op EXCEPT ![m] = None]
    /\ answer' = [answer EXCEPT ![m] = a]
    /\ UNCHANGED <<users, admin_count, shard_lock, announced, requests_left, saveVars>>

\* add_user looks at the characters of the name before anything else.
RefusesName(u) == u \in UnprintableNames

\* update_user is given neither a password nor a role.
RequestsNothing(m) == op[m].password = None /\ op[m].role = None

\* add_user and UserManager::insert up to the end of entry.insert(...), whose
\* temporary releases the shard before admin_count is touched.
Insert(m) ==
    LET u == op[m].username IN
    /\ At(m, "entry", "Add")
    /\ \/ RefusesName(u) /\ Return(m, "InvalidValues")
       \/ /\ ~RefusesName(u)
          /\ CanLock(u)
          /\ users[u] # NoUser
          /\ Return(m, "AlreadyExists")
       \/ /\ ~RefusesName(u)
          /\ CanLock(u)
          /\ users[u] = NoUser
          /\ users' = [users EXCEPT ![u] = [password |-> op[m].password,
                                            role |-> op[m].role]]
          /\ pc' = [pc EXCEPT ![m] = IF op[m].role = "Admin" THEN "count" ELSE "log"]
          /\ answer' = [answer EXCEPT ![m] = "Ok"]
          /\ UNCHANGED <<admin_count, shard_lock, op, announced,
                         requests_left, saveVars>>

InsertFetchAdd(m) ==
    /\ pc[m] = "count"
    /\ admin_count' = admin_count + 1
    /\ pc' = [pc EXCEPT ![m] = "log"]
    /\ UNCHANGED <<users, shard_lock, op, answer, announced, requests_left, saveVars>>

\* Mutation of LockAndCount: the count is left for later, and forgotten.
LockOnly(m, u, count) ==
    /\ shard_lock' = [shard_lock EXCEPT ![ShardOf[u]] = m]
    /\ pc' = [pc EXCEPT ![m] = "write"]
    /\ answer' = [answer EXCEPT ![m] = "Ok"]
    /\ UNCHANGED <<users, admin_count, op, announced, requests_left, saveVars>>

\* The first half of an update or a delete that goes through: the shard is
\* locked and the count says what it will be once the entry is written.
LockAndCount(m, u, count) ==
    /\ shard_lock' = [shard_lock EXCEPT ![ShardOf[u]] = m]
    /\ admin_count' = count
    /\ pc' = [pc EXCEPT ![m] = "write"]
    /\ answer' = [answer EXCEPT ![m] = "Ok"]
    /\ UNCHANGED <<users, op, announced, requests_left, saveVars>>

\* Mutations of OnlyOneCounted: no check, and a check that is off by one.
NeverOnlyOne == FALSE
OneOrTwoCounted == admin_count <= 2

\* The closure given to fetch_update refuses to take away the only counted
\* administrator.
OnlyOneCounted == admin_count = 1

Update(m) ==
    LET u == op[m].username
        Demotes == users[u].role = "Admin" /\ op[m].role = "Regular"
        Promotes == users[u].role = "Regular" /\ op[m].role = "Admin"
    IN
    /\ At(m, "entry", "Update")
    /\ \/ RequestsNothing(m) /\ Return(m, "NothingWasRequested")
       \/ /\ ~RequestsNothing(m)
          /\ CanLock(u)
          /\ \/ users[u] = NoUser /\ Return(m, "UserNotFound")
             \/ /\ users[u] # NoUser /\ Demotes /\ OnlyOneCounted
                /\ Return(m, "CannotDeleteOnlyAdmin")
             \/ /\ users[u] # NoUser /\ Demotes /\ ~OnlyOneCounted
                /\ LockAndCount(m, u, admin_count - 1)
             \/ /\ users[u] # NoUser /\ Promotes
                /\ LockAndCount(m, u, admin_count + 1)
             \/ /\ users[u] # NoUser /\ ~Demotes /\ ~Promotes
                /\ LockAndCount(m, u, admin_count)

Delete(m) ==
    LET u == op[m].username IN
    /\ At(m, "entry", "Delete")
    /\ CanLock(u)
    /\ \/ users[u] = NoUser /\ Return(m, "UserNotFound")
       \/ /\ RoleIn(users, u) = "Admin" /\ OnlyOneCounted
          /\ Return(m, "CannotDeleteOnlyAdmin")
       \/ /\ RoleIn(users, u) = "Admin" /\ ~OnlyOneCounted
          /\ LockAndCount(m, u, admin_count - 1)
       \/ /\ RoleIn(users, u) = "Regular"
          /\ LockAndCount(m, u, admin_count)

\* Mutation of Write: the shard stays locked.
WriteKeepingLock(m) ==
    /\ pc[m] = "write"
    /\ users' = [users EXCEPT ![op[m].username] = NewData(m)]
    /\ pc' = [pc EXCEPT ![m] = "log"]
    /\ UNCHANGED <<admin_count, shard_lock, op, answer, announced,
                   requests_left, saveVars>>

\* The second half: the entry is overwritten or removed and the shard is
\* released.  The role that will be logged is the one the entry has, or had.
Write(m) ==
    LET u == op[m].username IN
    /\ pc[m] = "write"
    /\ users' = [users EXCEPT ![u] = NewData(m)]
    /\ op' = [op EXCEPT ![m].role = IF @ = None /\ op[m].type = "Update"
                                    THEN users[u].role ELSE @]
    /\ shard_lock' = [shard_lock EXCEPT ![ShardOf[u]] = Unlocked]
    /\ pc' = [pc EXCEPT ![m] = "log"]
    /\ UNCHANGED <<admin_count, answer, announced, requests_left, saveVars>>

\* UserRegisteredByManager, UserUpdatedByManager or UserDeletedByManager.
LogEvent(m) ==
    /\ pc[m] = "log"
    /\ announced' = [announced EXCEPT ![op[m].username] =
                        IF op[m].type = "Delete" THEN NoUser ELSE op[m].role]
    /\ pc' = [pc EXCEPT ![m] = "idle"]
    /\ op' = [op EXCEPT ![m] = None]
    /\ UNCHANGED <<users, admin_count, shard_lock, answer, requests_left, saveVars>>

ManagerStep(m) ==
    Insert(m) \/ InsertFetchAdd(m) \/ Update(m) \/ Delete(m) \/ Write(m) \/ LogEvent(m)

-----------------------------------------------------------------------------
(* Saving the users, once the main loop has ended                          *)

\* File::create truncates the file before the table is read.
BeginSave ==
    /\ save_phase = "idle"
    /\ save_phase' = "collect"
    /\ UNCHANGED <<tableVars, next_shard, guards, collected, unwritten, written>>

\* The shards some of these users are in: a guard lives as long as a reference
\* to an entry of its shard does.
ShardsOfNames(names) == {ShardOf[u] : u \in names}

\* Mutation of CollectShard: the guards of the shards before it are dropped, as
\* take_snapshot drops them.
CollectShardDropping ==
    LET names == {u \in InShard(next_shard) : users[u] # NoUser} IN
    /\ save_phase = "collect"
    /\ next_shard \in Shards
    /\ shard_lock[next_shard] = Unlocked
    /\ next_shard' = next_shard + 1
    /\ guards' = {next_shard}
    /\ unwritten' = unwritten \cup names
    /\ collected' = [u \in Usernames |->
                        IF u \in names THEN users[u] ELSE collected[u]]
    /\ UNCHANGED <<tableVars, save_phase, written>>

\* The iterator moves on to its next shard: it takes that shard's read lock,
\* then drops its own reference to the one before it.
CollectShard ==
    LET names == {u \in InShard(next_shard) : users[u] # NoUser} IN
    /\ save_phase = "collect"
    /\ next_shard \in Shards
    /\ shard_lock[next_shard] = Unlocked
    /\ next_shard' = next_shard + 1
    /\ guards' = ShardsOfNames(unwritten) \cup {next_shard}
    /\ unwritten' = unwritten \cup names
    /\ collected' = [u \in Usernames |->
                        IF u \in names THEN users[u] ELSE collected[u]]
    /\ UNCHANGED <<tableVars, save_phase, written>>

EndCollect ==
    /\ save_phase = "collect"
    /\ next_shard \notin Shards
    /\ save_phase' = "write"
    /\ guards' = ShardsOfNames(unwritten)
    /\ UNCHANGED <<tableVars, next_shard, collected, unwritten, written>>

\* Administrators come first; the order of names within a role is abstracted.
SaveUser ==
    /\ save_phase = "write"
    /\ \E u \in unwritten :
        /\ \/ collected[u].role = "Admin"
           \/ unwritten \cap AdminsOf(collected) = {}
        /\ unwritten' = unwritten \ {u}
        /\ guards' = ShardsOfNames(unwritten')
        /\ written' = [written EXCEPT ![u] = collected[u]]
    /\ UNCHANGED <<tableVars, save_phase, next_shard, collected>>

\* Mutation of EndSave: the entries still to be written are forgotten.
EndSaveEarly ==
    /\ save_phase = "write"
    /\ save_phase' = "done"
    /\ UNCHANGED <<tableVars, next_shard, guards, collected, unwritten, written>>

EndSave ==
    /\ save_phase = "write"
    /\ unwritten = {}
    /\ save_phase' = "done"
    /\ UNCHANGED <<tableVars, next_shard, guards, collected, unwritten, written>>

\* The file cannot be created, or a write or the final flush fails: save_to
\* returns and drops every guard.
SaveError ==
    /\ save_phase \in {"idle", "write"}
    /\ save_phase' = "failed"
    /\ guards' = {}
    /\ unwritten' = {}
    /\ UNCHANGED <<tableVars, next_shard, collected, written>>

SaveStep == CollectShard \/ EndCollect \/ SaveUser \/ EndSave

-----------------------------------------------------------------------------

Next ==
    \/ \E m \in Managers : Request(m) \/ ManagerStep(m)
    \/ BeginSave
    \/ SaveStep
    \/ SaveError

Spec == Init /\ [][Next]_vars

\* A worker thread that polls a connection runs its request to the end, and
\* the main task keeps being polled while the save is not over; a manager may
\* never send a request, and the server may never stop.
Fairness ==
    /\ \A m \in Managers : WF_vars(ManagerStep(m))
    /\ WF_vars(SaveStep)

FairSpec == Spec /\ Fairness

-----------------------------------------------------------------------------
(* Properties                                                              *)

\* Every shard has one writer at most, the manager whose entry is pending, and
\* none while the save holds a guard on it: the entry a request counted on
\* (users.rs:284, :327) is the entry it overwrites.
ShardExclusion ==
    /\ \A m \in Managers :
          pc[m] = "write" => shard_lock[ShardOf[op[m].username]] = m
    /\ \A s \in Shards : shard_lock[s] # Unlocked =>
          /\ s \notin guards
          /\ pc[shard_lock[s]] = "write"
          /\ ShardOf[op[shard_lock[s]].username] = s

\* What each phase says of the request it is about, as the proofs need it: the
\* entry under a pending write exists, and a request is unanswered until it has
\* been to the table.
RequestPhases ==
    \A m \in Managers :
        /\ pc[m] # "idle" => op[m] \in Requests
        /\ pc[m] = "entry" <=> answer[m] = "waiting"
        /\ pc[m] = "count" => op[m].type = "Add"
        /\ pc[m] = "write" => /\ op[m].type \in {"Update", "Delete"}
                              /\ users[op[m].username] # NoUser
        /\ pc[m] = "log" /\ op[m].type # "Delete" => op[m].role \in Roles

Uncounted == {m \in Managers : pc[m] = "count"}

\* admin_count is the number of administrators, less those that insert has put
\* in the map and not counted yet (users.rs:259 to :261).  Counting and writing
\* happen in different steps, under different locks, for different names.
CountAccounting ==
    admin_count + Cardinality(Uncounted) = Cardinality(AdminsOf(EffectiveUsers))

\* The counter never reaches the value its fetch_update would wrap around at,
\* and deletions and demotions that race each other, or an insertion, never
\* take the last administrator away (users.rs:294, :334).
AdminRemains ==
    /\ admin_count >= 1
    /\ AdminsOf(EffectiveUsers) # {}

\* A user is refused because it is the only administrator only when no other
\* is counted: any other one is still between its insertion and its fetch_add.
RefusalExplained ==
    [][\A m \in Managers :
         answer[m] = "waiting" /\ answer'[m] = "CannotDeleteOnlyAdmin"
           => Cardinality(AdminsOf(EffectiveUsers)) = 1 + Cardinality(Uncounted)]_vars

\* Once no request is running, a client that followed the event stream knows
\* every user and its role: the events were sent in the order of the changes.
EventsTellUsers ==
    (\A m \in Managers : pc[m] = "idle")
        => \A u \in Usernames : announced[u] = RoleIn(users, u)

\* What the save has yet to write is what the table holds now, names that are
\* absent included: no request changes a shard the save has a guard of, and the
\* guard outlives the writes of its last entry (users.rs:206, :215).
SavedShardsFrozen ==
    /\ ShardsOfNames(unwritten) \subseteq guards
    /\ \A u \in Usernames : ShardOf[u] \in guards => collected[u] = users[u]

\* The iterator has collected nothing of the shards it has not come to.
SaveProgress ==
    \A u \in Usernames : ShardOf[u] >= next_shard => collected[u] = NoUser

\* The inductive invariant.
IInv ==
    /\ TypeOK
    /\ RequestPhases
    /\ ShardExclusion
    /\ CountAccounting
    /\ AdminRemains
    /\ SavedShardsFrozen
    /\ SaveProgress

\* A save that ends well has put every collected entry in the file.
SaveComplete == save_phase = "done" => written = collected

\* The file of a save that ends well is made of entries that nobody could change
\* between the moment they were collected and the moment they were written.
SaveTrue == SavedShardsFrozen /\ SaveComplete

\* Every request comes to an end, although it may wait for a shard that another
\* request, or the save, has locked.
RequestsReturn == \A m \in Managers : pc[m] # "idle" ~> pc[m] = "idle"

\* The save comes to an end although requests keep taking the shards.
SaveEnds == save_phase = "collect" ~> save_phase \in {"done", "failed"}

\* Neither starves the other.
EveryoneReturns == RequestsReturn /\ SaveEnds

\* The table, seen through the writes that are pending, changes as the registry
\* of UserRegistry.tla does and gives the answers it may give.
ImplementsRegistry == Registry!Spec

=============================================================================
