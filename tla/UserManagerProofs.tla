--------------------------- MODULE UserManagerProofs ---------------------------
(***************************************************************************)
(* Proofs about UserManager: its types, the exclusion of its shard locks,  *)
(* the accounting of its administrators, that a save writes what it        *)
(* collected, and the refinement of the atomic registry.                   *)
(***************************************************************************)
EXTENDS UserManager, FiniteSetTheorems, TLAPS

-----------------------------------------------------------------------------
(* Tables and their administrators                                         *)

\* An update of a user keeps the table's type.
LEMMA UpdatedType ==
    ASSUME NEW old \in UserData,
           NEW password \in Passwords \cup {None}, NEW role \in Roles \cup {None}
    PROVE  Updated(old, password, role) \in UserData
  BY DEF Updated, UserData

\* The administrators are finitely many, so they can be counted.
LEMMA AdminsFinite ==
    ASSUME NEW table
    PROVE  /\ IsFiniteSet(AdminsOf(table))
           /\ Cardinality(AdminsOf(table)) \in Nat
           /\ Cardinality(AdminsOf(table)) = 0 <=> AdminsOf(table) = {}
  <1>1. AdminsOf(table) \subseteq Usernames
    BY DEF AdminsOf
  <1>2. IsFiniteSet(AdminsOf(table))
    BY <1>1, UsersAssumption, FS_Subset
  <1> QED
    BY <1>2, FS_CardinalityType, FS_EmptySet

\* Changing one entry adds or removes at most that name.
LEMMA AdminsChange ==
    ASSUME NEW table \in Table, NEW u \in Usernames,
           NEW data \in UserData \cup {NoUser}
    PROVE  LET changed == [table EXCEPT ![u] = data] IN
           /\ changed \in Table
           /\ data # NoUser /\ data.role = "Admin"
                => AdminsOf(changed) = AdminsOf(table) \cup {u}
           /\ ~(data # NoUser /\ data.role = "Admin")
                => AdminsOf(changed) = AdminsOf(table) \ {u}
  <1> DEFINE changed == [table EXCEPT ![u] = data]
  <1>1. changed \in Table
    BY DEF Table
  <1>2. RoleIn(changed, u) = "Admin" <=> data # NoUser /\ data.role = "Admin"
    BY UsersAssumption DEF Table, RoleIn, Roles
  <1>3. \A v \in Usernames \ {u} : RoleIn(changed, v) = RoleIn(table, v)
    BY DEF Table, RoleIn
  <1> HIDE DEF changed
  <1>4. RoleIn(changed, u) = "Admin" => AdminsOf(changed) = AdminsOf(table) \cup {u}
    BY <1>3 DEF AdminsOf
  <1>5. RoleIn(changed, u) # "Admin" => AdminsOf(changed) = AdminsOf(table) \ {u}
    BY <1>3 DEF AdminsOf
  <1> QED
    BY <1>1, <1>2, <1>4, <1>5 DEF changed

\* So the number of administrators changes by one at most.
LEMMA AdminsCount ==
    ASSUME NEW table \in Table, NEW u \in Usernames,
           NEW data \in UserData \cup {NoUser}
    PROVE  LET changed == [table EXCEPT ![u] = data]
               n == Cardinality(AdminsOf(table))
               was == u \in AdminsOf(table)
               is == data # NoUser /\ data.role = "Admin"
           IN /\ was /\ ~is => Cardinality(AdminsOf(changed)) = n - 1
              /\ ~was /\ is => Cardinality(AdminsOf(changed)) = n + 1
              /\ was <=> is => Cardinality(AdminsOf(changed)) = n
  <1>1. IsFiniteSet(AdminsOf(table))
    BY AdminsFinite
  <1>2. ASSUME u \in AdminsOf(table)
        PROVE  Cardinality(AdminsOf(table) \ {u}) = Cardinality(AdminsOf(table)) - 1
    BY <1>1, <1>2, FS_RemoveElement
  <1>3. ASSUME u \notin AdminsOf(table)
        PROVE  Cardinality(AdminsOf(table) \cup {u}) = Cardinality(AdminsOf(table)) + 1
    BY <1>1, <1>3, FS_AddElement
  <1>4. u \in AdminsOf(table) => AdminsOf(table) \cup {u} = AdminsOf(table)
    OBVIOUS
  <1>5. u \notin AdminsOf(table) => AdminsOf(table) \ {u} = AdminsOf(table)
    OBVIOUS
  <1> QED
    BY <1>2, <1>3, <1>4, <1>5, AdminsChange

-----------------------------------------------------------------------------
(* The table seen through the pending writes                               *)

LocksOK == TypeOK /\ RequestPhases /\ ShardExclusion

\* Whoever has a shard locked is about to write an entry of that shard.
LEMMA Holder ==
    ASSUME LocksOK, NEW u \in Usernames, shard_lock[ShardOf[u]] # Unlocked
    PROVE  LET h == shard_lock[ShardOf[u]] IN
           /\ h \in Managers
           /\ pc[h] = "write"
           /\ op[h] \in Requests
           /\ op[h].username \in Usernames
           /\ ShardOf[op[h].username] = ShardOf[u]
  <1> DEFINE h == shard_lock[ShardOf[u]]
  <1>1. ShardOf[u] \in Shards
    BY UserManagerAssumption
  <1>2. h \in Managers /\ pc[h] = "write" /\ ShardOf[op[h].username] = ShardOf[u]
    BY <1>1 DEF LocksOK, TypeOK, ShardExclusion
  <1>3. op[h] \in Requests
    BY <1>2 DEF LocksOK, RequestPhases
  <1>4. op[h].username \in Usernames
    BY <1>3 DEF Requests
  <1> QED
    BY <1>2, <1>3, <1>4

\* What a pending write will leave is an entry, or none.
LEMMA NewDataType ==
    ASSUME LocksOK, NEW m \in Managers, pc[m] = "write"
    PROVE  /\ op[m].username \in Usernames
           /\ NewData(m) \in UserData \cup {NoUser}
           /\ op[m].type # "Delete" =>
                NewData(m) = Updated(users[op[m].username], op[m].password, op[m].role)
           /\ op[m].type # "Delete" => NewData(m) \in UserData
  <1>1. op[m] \in Requests /\ op[m].type \in {"Update", "Delete"}
    BY DEF LocksOK, RequestPhases
  <1>2. op[m].username \in Usernames
    BY <1>1 DEF Requests
  <1>3. users[op[m].username] \in UserData
    BY <1>2 DEF LocksOK, TypeOK, RequestPhases, Table
  <1>4. CASE op[m].type = "Delete"
    BY <1>2, <1>4 DEF NewData
  <1>5. CASE op[m].type = "Update"
    <2>1. op[m].password \in Passwords \cup {None} /\ op[m].role \in Roles \cup {None}
      BY <1>1, <1>5 DEF Requests
    <2> QED
      BY <1>2, <1>3, <1>5, <2>1, UpdatedType DEF NewData
  <1> QED
    BY <1>1, <1>4, <1>5

LEMMA EffectiveType ==
    ASSUME LocksOK
    PROVE  /\ EffectiveUsers \in Table
           /\ \A u \in Usernames : EffectiveUsers[u] = Effective(u)
  <1>1. ASSUME NEW u \in Usernames
        PROVE  Effective(u) \in UserData \cup {NoUser}
    BY Holder, NewDataType DEF Effective, LocksOK, TypeOK, Table
  <1> QED
    BY <1>1 DEF EffectiveUsers, Table

\* A name whose shard is free has the entry the map holds.
LEMMA EffectiveFree ==
    ASSUME NEW u \in Usernames, shard_lock[ShardOf[u]] = Unlocked
    PROVE  Effective(u) = users[u]
  BY DEF Effective

\* A step that leaves the map, the locks and the lock holders' requests alone
\* changes no entry.
LEMMA EffectiveStutter ==
    ASSUME LocksOK, UNCHANGED <<users, shard_lock>>,
           \A m \in Managers : pc[m] = "write" => op'[m] = op[m]
    PROVE  EffectiveUsers' = EffectiveUsers
  <1>1. ASSUME NEW u \in Usernames
        PROVE  Effective(u)' = Effective(u)
    <2>1. CASE shard_lock[ShardOf[u]] = Unlocked
      BY <2>1 DEF Effective
    <2>2. CASE shard_lock[ShardOf[u]] # Unlocked
      <3> DEFINE h == shard_lock[ShardOf[u]]
      <3>1. op'[h] = op[h]
        BY <2>2, Holder
      <3>2. NewData(h)' = NewData(h)
        BY <3>1 DEF NewData
      <3> QED
        BY <3>1, <3>2 DEF Effective
    <2> QED
      BY <2>1, <2>2
  <1> QED
    BY <1>1 DEF EffectiveUsers

\* An insertion, in one step on a free shard, changes the entry it inserts.
LEMMA EffectiveInsert ==
    ASSUME LocksOK, NEW u \in Usernames, NEW data,
           shard_lock[ShardOf[u]] = Unlocked, UNCHANGED <<shard_lock, op>>,
           users' = [users EXCEPT ![u] = data]
    PROVE  EffectiveUsers' = [EffectiveUsers EXCEPT ![u] = data]
  <1>1. users'[u] = data /\ \A v \in Usernames \ {u} : users'[v] = users[v]
    BY DEF LocksOK, TypeOK, Table
  <1>2. Effective(u)' = data
    BY <1>1 DEF Effective
  <1>3. ASSUME NEW v \in Usernames \ {u}
        PROVE  Effective(v)' = Effective(v)
    <2>1. CASE shard_lock[ShardOf[v]] = Unlocked
      BY <1>1, <2>1 DEF Effective
    <2>2. CASE shard_lock[ShardOf[v]] # Unlocked
      <3> DEFINE h == shard_lock[ShardOf[v]]
      <3>1. op[h].username \in Usernames \ {u}
        BY <2>2, Holder
      <3>2. NewData(h)' = NewData(h)
        BY <3>1, <1>1 DEF NewData
      <3> QED
        BY <1>1, <3>2 DEF Effective
    <2> QED
      BY <2>1, <2>2
  <1> QED
    BY <1>2, <1>3 DEF EffectiveUsers

\* Once a manager has locked a shard, the entry of its name is the one it will
\* write, and no other entry has changed.
LEMMA EffectiveLock ==
    ASSUME LocksOK, NEW m \in Managers, NEW u \in Usernames, op[m].username = u,
           shard_lock[ShardOf[u]] = Unlocked, UNCHANGED <<users, op>>,
           shard_lock' = [shard_lock EXCEPT ![ShardOf[u]] = m]
    PROVE  EffectiveUsers' = [EffectiveUsers EXCEPT ![u] = NewData(m)]
  <1>1. ShardOf[u] \in Shards /\ m # Unlocked
    BY UserManagerAssumption
  <1>2. shard_lock'[ShardOf[u]] = m
    BY <1>1 DEF LocksOK, TypeOK
  <1>3. \A n : NewData(n)' = NewData(n)
    BY DEF NewData
  <1>4. Effective(u)' = NewData(m)
    BY <1>1, <1>2, <1>3 DEF Effective
  <1>5. ASSUME NEW v \in Usernames \ {u}
        PROVE  Effective(v)' = Effective(v)
    <2>1. CASE ShardOf[v] = ShardOf[u]
      BY <1>1, <1>2, <2>1 DEF Effective
    <2>2. CASE ShardOf[v] # ShardOf[u]
      <3>1. shard_lock'[ShardOf[v]] = shard_lock[ShardOf[v]]
        BY <2>2, UserManagerAssumption DEF LocksOK, TypeOK
      <3> QED
        BY <3>1, <1>3 DEF Effective
    <2> QED
      BY <2>1, <2>2
  <1> QED
    BY <1>4, <1>5 DEF EffectiveUsers

\* The write itself only makes visible what was pending.
LEMMA EffectiveWrite ==
    ASSUME LocksOK, NEW m \in Managers, Write(m)
    PROVE  EffectiveUsers' = EffectiveUsers
  <1> DEFINE u == op[m].username
  <1>1. /\ u \in Usernames
        /\ pc[m] = "write"
        /\ shard_lock[ShardOf[u]] = m
        /\ ShardOf[u] \in Shards
        /\ m # Unlocked
    BY NewDataType, UserManagerAssumption DEF Write, LocksOK, ShardExclusion
  <1>2. /\ users'[u] = NewData(m)
        /\ \A v \in Usernames \ {u} : users'[v] = users[v]
        /\ shard_lock'[ShardOf[u]] = Unlocked
        /\ \A s \in Shards : s # ShardOf[u] => shard_lock'[s] = shard_lock[s]
        /\ \A n \in Managers : n # m => op'[n] = op[n]
    BY <1>1 DEF Write, LocksOK, TypeOK, Table
  <1>3. ASSUME NEW v \in Usernames
        PROVE  Effective(v)' = Effective(v)
    <2>1. CASE v = u
      BY <1>1, <1>2, <2>1 DEF Effective
    <2>2. CASE v # u /\ ShardOf[v] = ShardOf[u]
      BY <1>1, <1>2, <2>2 DEF Effective
    <2>3. CASE ShardOf[v] # ShardOf[u]
      <3> DEFINE h == shard_lock[ShardOf[v]]
      <3>1. shard_lock'[ShardOf[v]] = h /\ users'[v] = users[v]
        BY <1>2, <2>3, UserManagerAssumption
      <3>2. CASE h = Unlocked
        BY <3>1, <3>2 DEF Effective
      <3>3. CASE h # Unlocked
        <4>1. /\ h \in Managers
              /\ op[h].username \in Usernames
              /\ ShardOf[op[h].username] = ShardOf[v]
          BY <3>3, Holder
        <4>2. op'[h] = op[h] /\ users'[op[h].username] = users[op[h].username]
          BY <4>1, <1>2, <2>3
        <4>3. NewData(h)' = NewData(h)
          BY <3>1, <4>2 DEF NewData
        <4> QED
          BY <3>1, <4>2, <4>3 DEF Effective
      <3> QED
        BY <3>2, <3>3
    <2> QED
      BY <2>1, <2>2, <2>3
  <1> QED
    BY <1>3 DEF EffectiveUsers

-----------------------------------------------------------------------------
(* The inductive invariant                                                 *)

USE DEF tableVars, saveVars

\* The initial states satisfy the invariant.
LEMMA InitIInv == Init => IInv
  <1> SUFFICES ASSUME Init PROVE IInv
    OBVIOUS
  <1>1. \A u \in Usernames : Effective(u) = users[u]
    BY UserManagerAssumption DEF Init, Effective
  <1>2. AdminsOf(EffectiveUsers) = AdminsOf(users)
    BY <1>1 DEF EffectiveUsers, AdminsOf, RoleIn
  <1>3. Cardinality(AdminsOf(users)) \in Nat /\ Cardinality(AdminsOf(users)) # 0
    BY AdminsFinite DEF Init
  <1>4. TypeOK
    <2>1. announced \in [Usernames -> Roles \cup {NoUser}]
      BY DEF Init, RoleIn, Table, UserData
    <2> QED
      BY <2>1, <1>3, UserManagerAssumption
      DEF Init, TypeOK, Table, Phases, SavePhases, Answers
  <1>5. RequestPhases
    BY DEF Init, RequestPhases
  <1>6. ShardExclusion
    BY DEF Init, ShardExclusion
  <1>7. CountAccounting
    <2>1. Uncounted = {}
      BY DEF Init, Uncounted
    <2> QED
      BY <2>1, <1>2, <1>3, FS_EmptySet DEF Init, CountAccounting
  <1>8. AdminRemains
    BY <1>2, <1>3 DEF Init, AdminRemains
  <1>9. SavedShardsFrozen /\ SaveProgress
    BY DEF Init, SavedShardsFrozen, SaveProgress, ShardsOfNames
  <1> QED
    BY <1>4, <1>5, <1>6, <1>7, <1>8, <1>9 DEF IInv

\* While the count accounts for every administrator, an only counted one is
\* never subtracted: the count stays a natural number.
LEMMA TypeStep == IInv /\ [Next]_vars => TypeOK'
  <1> SUFFICES ASSUME IInv, [Next]_vars PROVE TypeOK'
    OBVIOUS
  <1> USE DEF IInv
  <1>1. ASSUME NEW m \in Managers, Request(m) PROVE TypeOK'
    <2>1. op' \in [Managers -> Requests \cup {None}]
      BY <1>1 DEF Request, TypeOK
    <2> QED
      BY <1>1, <2>1 DEF Request, TypeOK, Phases, Answers
  <1>2. ASSUME NEW m \in Managers, Insert(m) PROVE TypeOK'
    <2>1. op[m] \in Requests /\ op[m].type = "Add"
      BY <1>2 DEF Insert, RefusesName, At, RequestPhases
    <2>2. op[m].username \in Usernames /\ op[m].password \in Passwords /\ op[m].role \in Roles
      BY <2>1 DEF Requests
    <2>3. CASE \E a \in Answers : Return(m, a)
      BY <2>3 DEF Return, TypeOK, Phases
    <2>4. CASE ~\E a \in Answers : Return(m, a)
      <3>1. [password |-> op[m].password, role |-> op[m].role] \in UserData
        BY <2>2 DEF UserData
      <3>2. users' \in Table
        BY <1>2, <2>2, <2>4, <3>1 DEF Insert, RefusesName, TypeOK, Table, Answers
      <3> QED
        BY <1>2, <2>4, <3>2 DEF Insert, RefusesName, TypeOK, Phases, Answers
    <2> QED
      BY <2>3, <2>4
  <1>3. ASSUME NEW m \in Managers, InsertFetchAdd(m) PROVE TypeOK'
    BY <1>3 DEF InsertFetchAdd, TypeOK, Phases
  <1>4. ASSUME NEW m \in Managers, NEW u \in Usernames, NEW count \in Nat,
               LockAndCount(m, u, count)
        PROVE  TypeOK'
    BY <1>4, UserManagerAssumption DEF LockAndCount, TypeOK, Phases, Answers
  <1>5. ASSUME NEW m \in Managers, NEW a \in Answers, Return(m, a) PROVE TypeOK'
    BY <1>5 DEF Return, TypeOK, Phases
  <1>6. ~OnlyOneCounted => admin_count - 1 \in Nat
    BY DEF TypeOK, OnlyOneCounted, AdminRemains
  <1>7. admin_count \in Nat /\ admin_count + 1 \in Nat
    BY DEF TypeOK
  <1>8. ASSUME NEW m \in Managers, Update(m) PROVE TypeOK'
    <2>1. op[m].username \in Usernames
      BY <1>8 DEF Update, RequestsNothing, At, RequestPhases, Requests
    <2> QED
      BY <1>4, <1>5, <1>6, <1>7, <1>8, <2>1 DEF Update, RequestsNothing, Answers
  <1>9. ASSUME NEW m \in Managers, Delete(m) PROVE TypeOK'
    <2>1. op[m].username \in Usernames
      BY <1>9 DEF Delete, At, RequestPhases, Requests
    <2> QED
      BY <1>4, <1>5, <1>6, <1>7, <1>9, <2>1 DEF Delete, Answers
  <1>10. ASSUME NEW m \in Managers, Write(m) PROVE TypeOK'
    <2>1. op[m].username \in Usernames /\ NewData(m) \in UserData \cup {NoUser}
      BY <1>10, NewDataType DEF Write, LocksOK
    <2>2. users' \in Table
      BY <1>10, <2>1 DEF Write, TypeOK, Table
    <2>3. op[m] \in Requests /\ op[m].type \in {"Update", "Delete"}
          /\ users[op[m].username] \in UserData
      BY <1>10, <2>1 DEF Write, RequestPhases, TypeOK, Table
    <2>4. users[op[m].username].role \in Roles
      BY <2>3 DEF UserData
    <2>5. [op[m] EXCEPT !.role = IF @ = None /\ op[m].type = "Update"
                                 THEN users[op[m].username].role ELSE @] \in Requests
      BY <2>3, <2>4 DEF Requests
    <2>6. op' \in [Managers -> Requests \cup {None}]
      BY <1>10, <2>5 DEF Write, TypeOK
    <2> QED
      BY <1>10, <2>2, <2>6, UserManagerAssumption DEF Write, TypeOK, Phases
  <1>11. ASSUME NEW m \in Managers, LogEvent(m) PROVE TypeOK'
    <2>1. op[m].username \in Usernames
      BY <1>11 DEF LogEvent, RequestPhases, Requests
    <2>2. op[m].type # "Delete" => op[m].role \in Roles
      BY <1>11 DEF LogEvent, RequestPhases
    <2> QED
      BY <1>11, <2>1, <2>2 DEF LogEvent, TypeOK, Phases
  <1>12. CASE BeginSave \/ EndCollect \/ EndSave \/ SaveError
    <2>1. ShardsOfNames(unwritten) \subseteq Shards
      BY UserManagerAssumption DEF ShardsOfNames, TypeOK
    <2> QED
      BY <1>12, <2>1 DEF BeginSave, EndCollect, EndSave, SaveError, TypeOK, SavePhases
  <1>13. CASE CollectShard
    <2>1. ShardsOfNames(unwritten) \subseteq Shards
      BY UserManagerAssumption DEF ShardsOfNames, TypeOK
    <2>2. collected' \in Table /\ unwritten' \subseteq Usernames
      BY <1>13 DEF CollectShard, InShard, TypeOK, Table
    <2>3. next_shard' \in Nat
      BY <1>13 DEF CollectShard, TypeOK
    <2> QED
      BY <1>13, <2>1, <2>2, <2>3 DEF CollectShard, TypeOK
  <1>14. CASE SaveUser
    <2>1. unwritten' \subseteq Usernames
      BY <1>14 DEF SaveUser, TypeOK
    <2>2. guards' \subseteq Shards
      BY <1>14, <2>1, UserManagerAssumption DEF SaveUser, ShardsOfNames, TypeOK
    <2>3. written' \in Table
      BY <1>14 DEF SaveUser, TypeOK, Table
    <2> QED
      BY <1>14, <2>1, <2>2, <2>3 DEF SaveUser, TypeOK
  <1>15. CASE UNCHANGED vars
    BY <1>15 DEF vars, TypeOK
  <1> QED
    BY <1>1, <1>2, <1>3, <1>8, <1>9, <1>10, <1>11, <1>12, <1>13, <1>14, <1>15
    DEF Next, ManagerStep, SaveStep

\* Every request is in the phase its steps leave it in, and the entry under a
\* pending write stays, because nobody else can lock its shard.
LEMMA PhasesStep == IInv /\ [Next]_vars => RequestPhases'
  <1> SUFFICES ASSUME IInv, [Next]_vars PROVE RequestPhases'
    OBVIOUS
  <1> USE DEF IInv
  <1>1. ASSUME NEW m \in Managers, Request(m) PROVE RequestPhases'
    BY <1>1 DEF Request, RequestPhases, TypeOK
  <1>2. ASSUME NEW m \in Managers, NEW a \in Answers, pc[m] = "entry", Return(m, a)
        PROVE  RequestPhases'
    BY <1>2 DEF Return, RequestPhases, TypeOK, Answers
  <1>3. ASSUME NEW m \in Managers, Insert(m) PROVE RequestPhases'
    <2>1. /\ pc[m] = "entry" /\ op[m] \in Requests /\ op[m].type = "Add"
          /\ op[m].username \in Usernames /\ op[m].role \in Roles
      BY <1>3 DEF Insert, RefusesName, At, RequestPhases, Requests
    <2>2. CASE \E a \in Answers : Return(m, a)
      BY <1>2, <2>1, <2>2
    <2>3. CASE ~\E a \in Answers : Return(m, a)
      <3> DEFINE data == [password |-> op[m].password, role |-> op[m].role]
      <3>1. /\ users' = [users EXCEPT ![op[m].username] = data]
            /\ pc' = [pc EXCEPT ![m] = IF op[m].role = "Admin" THEN "count" ELSE "log"]
            /\ answer' = [answer EXCEPT ![m] = "Ok"]
            /\ op' = op
        BY <1>3, <2>3 DEF Insert, RefusesName, Answers
      <3>2. data # NoUser
        <4>1. data \in UserData
          BY <2>1 DEF Requests, UserData
        <4> QED
          BY <4>1, UsersAssumption
      <3>3. \A u \in Usernames : users[u] # NoUser => users'[u] # NoUser
        BY <3>1, <3>2 DEF TypeOK, Table
      <3>4. \A n \in Managers : pc[n] = "write" => op[n].username \in Usernames
        BY DEF RequestPhases, Requests
      <3> HIDE DEF data
      <3> QED
        BY <2>1, <3>1, <3>3, <3>4 DEF RequestPhases, TypeOK
    <2> QED
      BY <2>2, <2>3
  <1>4. ASSUME NEW m \in Managers, InsertFetchAdd(m) PROVE RequestPhases'
    <2>1. op[m].role \in Roles
      BY <1>4 DEF InsertFetchAdd, RequestPhases, Requests
    <2> QED
      BY <1>4, <2>1 DEF InsertFetchAdd, RequestPhases, TypeOK
  <1>5. ASSUME NEW m \in Managers, NEW count, pc[m] = "entry",
               op[m].type \in {"Update", "Delete"}, users[op[m].username] # NoUser,
               LockAndCount(m, op[m].username, count)
        PROVE  RequestPhases'
    BY <1>5 DEF LockAndCount, RequestPhases, TypeOK
  <1>6. ASSUME NEW m \in Managers, Update(m) PROVE RequestPhases'
    BY <1>2, <1>5, <1>6 DEF Update, RequestsNothing, At, Answers
  <1>7. ASSUME NEW m \in Managers, Delete(m) PROVE RequestPhases'
    BY <1>2, <1>5, <1>7, UsersAssumption DEF Delete, At, Answers, RoleIn, Roles
  <1>8. ASSUME NEW m \in Managers, Write(m) PROVE RequestPhases'
    <2>1. op[m] \in Requests /\ op[m].type \in {"Update", "Delete"}
          /\ op[m].username \in Usernames /\ users[op[m].username] \in UserData
      BY <1>8, NewDataType DEF Write, LocksOK, RequestPhases, TypeOK, Table
    <2>2. op'[m] \in Requests
      BY <1>8, TypeStep, <2>1 DEF Write, TypeOK, Requests, UserData
    <2>3. op'[m].type # "Delete" => op'[m].role \in Roles
      BY <1>8, <2>1 DEF Write, TypeOK, Requests, UserData
    <2>4. ASSUME NEW n \in Managers \ {m}, pc[n] = "write"
          PROVE  users'[op[n].username] # NoUser
      <3>1. op[n].username \in Usernames
        BY <2>4 DEF RequestPhases, Requests
      <3>2. op[n].username # op[m].username
        BY <1>8, <2>4 DEF Write, ShardExclusion
      <3> QED
        BY <1>8, <2>4, <3>1, <3>2 DEF Write, RequestPhases, TypeOK, Table
    <2>5. /\ pc'[m] = "log"
          /\ \A n \in Managers \ {m} : pc'[n] = pc[n] /\ op'[n] = op[n]
          /\ answer' = answer
          /\ pc[m] = "write"
      BY <1>8 DEF Write, TypeOK
    <2> QED
      BY <2>2, <2>3, <2>4, <2>5 DEF RequestPhases
  <1>9. ASSUME NEW m \in Managers, LogEvent(m) PROVE RequestPhases'
    BY <1>9 DEF LogEvent, RequestPhases, TypeOK
  <1>10. CASE UNCHANGED tableVars
    BY <1>10 DEF RequestPhases
  <1> QED
    BY <1>1, <1>3, <1>4, <1>6, <1>7, <1>8, <1>9, <1>10
    DEF Next, ManagerStep, SaveStep, BeginSave, CollectShard, EndCollect,
        SaveUser, EndSave, SaveError, vars

\* A shard is locked only while it is free of writers and of the save's guards,
\* and the save only adds the guard of a shard no writer has.
LEMMA ExclusionStep == IInv /\ [Next]_vars => ShardExclusion'
  <1> SUFFICES ASSUME IInv, [Next]_vars PROVE ShardExclusion'
    OBVIOUS
  <1> USE DEF IInv
  <1>1. \A m \in Managers : pc[m] = "write" => ShardOf[op[m].username] \in Shards
    BY UserManagerAssumption DEF RequestPhases, Requests
  <1>2. ASSUME NEW m \in Managers, pc[m] # "write", pc'[m] # "write",
               UNCHANGED <<shard_lock, guards>>,
               \A n \in Managers \ {m} : pc'[n] = pc[n] /\ op'[n] = op[n]
        PROVE  ShardExclusion'
    BY <1>2 DEF ShardExclusion, TypeOK
  <1>3. ASSUME NEW m \in Managers, Request(m) PROVE ShardExclusion'
    BY <1>2, <1>3 DEF Request, TypeOK
  <1>4. ASSUME NEW m \in Managers, NEW a, pc[m] = "entry", Return(m, a)
        PROVE  ShardExclusion'
    BY <1>2, <1>4 DEF Return, TypeOK
  <1>5. ASSUME NEW m \in Managers, Insert(m) PROVE ShardExclusion'
    BY <1>2, <1>4, <1>5 DEF Insert, RefusesName, At, TypeOK
  <1>6. ASSUME NEW m \in Managers, InsertFetchAdd(m) \/ LogEvent(m) PROVE ShardExclusion'
    BY <1>2, <1>6 DEF InsertFetchAdd, LogEvent, TypeOK
  <1>7. ASSUME NEW m \in Managers, NEW count, pc[m] = "entry", CanLock(op[m].username),
               LockAndCount(m, op[m].username, count)
        PROVE  ShardExclusion'
    <2>1. ShardOf[op[m].username] \in Shards
      BY <1>7, UserManagerAssumption DEF RequestPhases, Requests
    <2>2. /\ shard_lock'[ShardOf[op[m].username]] = m
          /\ \A s \in Shards : s # ShardOf[op[m].username] => shard_lock'[s] = shard_lock[s]
          /\ shard_lock[ShardOf[op[m].username]] = Unlocked
          /\ ShardOf[op[m].username] \notin guards
          /\ pc'[m] = "write"
          /\ \A n \in Managers \ {m} : pc'[n] = pc[n]
          /\ op' = op /\ guards' = guards
      BY <1>7, <2>1 DEF LockAndCount, CanLock, TypeOK
    <2>3. \A s \in Shards : shard_lock[s] # m
      BY <1>7, UserManagerAssumption DEF ShardExclusion
    <2>4. \A n \in Managers \ {m} :
            pc[n] = "write" => ShardOf[op[n].username] # ShardOf[op[m].username]
      BY <2>2, UserManagerAssumption DEF ShardExclusion
    <2>5. \A n \in Managers :
            pc'[n] = "write" => shard_lock'[ShardOf[op'[n].username]] = n
      BY <1>1, <2>1, <2>2, <2>4 DEF ShardExclusion
    <2>6. ASSUME NEW s \in Shards, shard_lock'[s] # Unlocked
          PROVE  /\ s \notin guards'
                 /\ pc'[shard_lock'[s]] = "write"
                 /\ ShardOf[op'[shard_lock'[s]].username] = s
      <3>1. CASE s = ShardOf[op[m].username]
        BY <3>1, <2>2
      <3>2. CASE s # ShardOf[op[m].username]
        BY <3>2, <2>2, <2>3, <2>6 DEF ShardExclusion, TypeOK
      <3> QED
        BY <3>1, <3>2
    <2> QED
      BY <2>5, <2>6 DEF ShardExclusion
  <1>8. ASSUME NEW m \in Managers, Update(m) PROVE ShardExclusion'
    BY <1>4, <1>7, <1>8 DEF Update, RequestsNothing, At
  <1>9. ASSUME NEW m \in Managers, Delete(m) PROVE ShardExclusion'
    BY <1>4, <1>7, <1>9 DEF Delete, At
  <1>10. ASSUME NEW m \in Managers, Write(m) PROVE ShardExclusion'
    BY <1>1, <1>10 DEF Write, ShardExclusion, TypeOK
  <1>11. ASSUME UNCHANGED tableVars, guards' \subseteq guards PROVE ShardExclusion'
    BY <1>11 DEF ShardExclusion
  <1>12. CASE CollectShard
    <2>1. ASSUME NEW s \in ShardsOfNames(unwritten) PROVE s \in guards
      BY <2>1 DEF SavedShardsFrozen
    <2> QED
      BY <1>12, <2>1 DEF CollectShard, ShardExclusion
  <1>13. CASE BeginSave \/ EndSave \/ SaveError
    BY <1>11, <1>13 DEF BeginSave, EndSave, SaveError
  <1>14. CASE EndCollect
    BY <1>11, <1>14 DEF EndCollect, SavedShardsFrozen
  <1>15. CASE SaveUser
    BY <1>11, <1>15 DEF SaveUser, SavedShardsFrozen, ShardsOfNames
  <1>16. CASE UNCHANGED vars
    BY <1>11, <1>16 DEF vars
  <1> QED
    BY <1>3, <1>5, <1>6, <1>8, <1>9, <1>10, <1>12, <1>13, <1>14, <1>15, <1>16
    DEF Next, ManagerStep, SaveStep

\* A manager changes an entry only under a lock the save's guards exclude.
LEMMA FrozenStep == IInv /\ [Next]_vars => (SavedShardsFrozen /\ SaveProgress)'
  <1> SUFFICES ASSUME IInv, [Next]_vars PROVE (SavedShardsFrozen /\ SaveProgress)'
    OBVIOUS
  <1> USE DEF IInv
  <1>1. ASSUME UNCHANGED saveVars,
               \A u \in Usernames : ShardOf[u] \in guards => users'[u] = users[u]
        PROVE  (SavedShardsFrozen /\ SaveProgress)'
    BY <1>1 DEF SavedShardsFrozen, SaveProgress, ShardsOfNames
  <1>2. ASSUME NEW m \in Managers, Insert(m) PROVE (SavedShardsFrozen /\ SaveProgress)'
    <2>1. op[m].username \in Usernames
      BY <1>2 DEF Insert, RefusesName, At, RequestPhases, Requests
    <2> QED
      BY <1>1, <1>2, <2>1 DEF Insert, RefusesName, Return, CanLock, TypeOK, Table
  <1>3. ASSUME NEW m \in Managers, Write(m) PROVE (SavedShardsFrozen /\ SaveProgress)'
    <2>1. op[m].username \in Usernames /\ ShardOf[op[m].username] \in Shards
      BY <1>3, UserManagerAssumption DEF Write, RequestPhases, Requests
    <2>2. ShardOf[op[m].username] \notin guards
      BY <1>3, <2>1, UserManagerAssumption DEF Write, ShardExclusion
    <2> QED
      BY <1>1, <1>3, <2>1, <2>2 DEF Write, TypeOK, Table
  <1>4. ASSUME NEW m \in Managers,
               Request(m) \/ InsertFetchAdd(m) \/ Update(m) \/ Delete(m) \/ LogEvent(m)
        PROVE  (SavedShardsFrozen /\ SaveProgress)'
    BY <1>1, <1>4
    DEF Request, InsertFetchAdd, Update, Delete, LogEvent, LockAndCount, Return
  <1>5. CASE BeginSave \/ EndSave
    BY <1>5 DEF BeginSave, EndSave, SavedShardsFrozen, SaveProgress, ShardsOfNames
  <1>6. CASE CollectShard
    <2>1. ASSUME NEW u \in Usernames
          PROVE  /\ ShardOf[u] = next_shard => collected'[u] = users[u]
                 /\ ShardOf[u] # next_shard => collected'[u] = collected[u]
      BY <1>6 DEF CollectShard, InShard, SaveProgress, TypeOK
    <2>2. SavedShardsFrozen'
      BY <1>6, <2>1 DEF CollectShard, SavedShardsFrozen, ShardsOfNames, InShard
    <2>3. SaveProgress'
      BY <1>6, <2>1, UserManagerAssumption DEF CollectShard, SaveProgress, TypeOK, Shards
    <2> QED
      BY <2>2, <2>3
  <1>7. CASE EndCollect
    BY <1>7 DEF EndCollect, SavedShardsFrozen, SaveProgress, ShardsOfNames
  <1>8. CASE SaveUser
    BY <1>8 DEF SaveUser, SavedShardsFrozen, SaveProgress, ShardsOfNames
  <1>9. CASE SaveError
    BY <1>9 DEF SaveError, SavedShardsFrozen, SaveProgress, ShardsOfNames
  <1>10. CASE UNCHANGED vars
    BY <1>1, <1>10 DEF vars
  <1> QED
    BY <1>2, <1>3, <1>4, <1>5, <1>6, <1>7, <1>8, <1>9, <1>10
    DEF Next, ManagerStep, SaveStep

\* The steps of a request that leave every entry, as later requests see it.
LEMMA Stutters ==
    ASSUME IInv, NEW m \in Managers,
           \/ Request(m) \/ InsertFetchAdd(m) \/ Write(m) \/ LogEvent(m)
           \/ pc[m] = "entry" /\ \E a : Return(m, a)
    PROVE  EffectiveUsers' = EffectiveUsers
  <1>1. LocksOK
    BY DEF IInv, LocksOK
  <1>2. CASE Write(m)
    BY <1>1, <1>2, EffectiveWrite
  <1>3. CASE Request(m) \/ InsertFetchAdd(m) \/ LogEvent(m)
    BY <1>1, <1>3, EffectiveStutter
    DEF Request, InsertFetchAdd, LogEvent, IInv, TypeOK
  <1>4. CASE pc[m] = "entry" /\ \E a : Return(m, a)
    BY <1>1, <1>4, EffectiveStutter DEF Return, IInv, TypeOK
  <1> QED
    BY <1>2, <1>3, <1>4

\* The insertion of a new entry.
LEMMA InsertEffect ==
    ASSUME IInv, NEW m \in Managers, Insert(m), users'  # users
    PROVE  LET u == op[m].username
               data == [password |-> op[m].password, role |-> op[m].role]
           IN /\ u \in Usernames \ UnprintableNames
              /\ data \in UserData
              /\ op[m].type = "Add"
              /\ EffectiveUsers[u] = NoUser
              /\ EffectiveUsers' = [EffectiveUsers EXCEPT ![u] = data]
              /\ pc[m] = "entry"
              /\ pc' = [pc EXCEPT ![m] = IF data.role = "Admin" THEN "count" ELSE "log"]
              /\ answer' = [answer EXCEPT ![m] = "Ok"]
              /\ admin_count' = admin_count
  <1> DEFINE u == op[m].username
             data == [password |-> op[m].password, role |-> op[m].role]
  <1>1. LocksOK
    BY DEF IInv, LocksOK
  <1>2. /\ op[m] \in Requests /\ op[m].type = "Add" /\ pc[m] = "entry"
        /\ u \in Usernames /\ data \in UserData
    BY DEF Insert, RefusesName, At, IInv, RequestPhases, Requests, UserData
  <1>3. /\ u \notin UnprintableNames
        /\ shard_lock[ShardOf[u]] = Unlocked
        /\ users[u] = NoUser
        /\ users' = [users EXCEPT ![u] = data]
        /\ UNCHANGED <<shard_lock, op, admin_count>>
        /\ pc' = [pc EXCEPT ![m] = IF data.role = "Admin" THEN "count" ELSE "log"]
        /\ answer' = [answer EXCEPT ![m] = "Ok"]
    BY DEF Insert, RefusesName, Return, CanLock
  <1>4. EffectiveUsers' = [EffectiveUsers EXCEPT ![u] = data]
    BY <1>1, <1>2, <1>3, EffectiveInsert
  <1>5. EffectiveUsers[u] = NoUser
    BY <1>1, <1>2, <1>3, EffectiveType, EffectiveFree
  <1> QED
    BY <1>2, <1>3, <1>4, <1>5

\* The step of an update or a delete that decides what will be written.
LEMMA LockEffect ==
    ASSUME IInv, NEW m \in Managers, NEW count,
           pc[m] = "entry", op[m].type \in {"Update", "Delete"},
           CanLock(op[m].username), users[op[m].username] # NoUser,
           LockAndCount(m, op[m].username, count)
    PROVE  LET u == op[m].username IN
           /\ u \in Usernames
           /\ users[u] \in UserData
           /\ EffectiveUsers[u] = users[u]
           /\ NewData(m) \in UserData \cup {NoUser}
           /\ op[m].type = "Delete" => NewData(m) = NoUser
           /\ op[m].type = "Update" =>
                /\ op[m].password \in Passwords \cup {None}
                /\ op[m].role \in Roles \cup {None}
                /\ NewData(m) \in UserData
                /\ NewData(m) = Updated(users[u], op[m].password, op[m].role)
           /\ EffectiveUsers' = [EffectiveUsers EXCEPT ![u] = NewData(m)]
           /\ Uncounted' = Uncounted
           /\ admin_count' = count
           /\ answer' = [answer EXCEPT ![m] = "Ok"]
  <1> DEFINE u == op[m].username
  <1>1. LocksOK
    BY DEF IInv, LocksOK
  <1>2. op[m] \in Requests /\ u \in Usernames
    BY DEF IInv, RequestPhases, Requests
  <1>3. users[u] \in UserData
    BY <1>2 DEF IInv, TypeOK, Table
  <1>4. EffectiveUsers[u] = users[u]
    BY <1>1, <1>2, EffectiveType, EffectiveFree DEF CanLock
  <1>5. EffectiveUsers' = [EffectiveUsers EXCEPT ![u] = NewData(m)]
    BY <1>1, <1>2, EffectiveLock DEF LockAndCount, CanLock
  <1>6. Uncounted' = Uncounted
    BY DEF LockAndCount, Uncounted, IInv, TypeOK
  <1>7. op[m].type = "Update" =>
          op[m].password \in Passwords \cup {None} /\ op[m].role \in Roles \cup {None}
    BY <1>2 DEF Requests
  <1>8. op[m].type = "Update" =>
          /\ NewData(m) \in UserData
          /\ NewData(m) = Updated(users[u], op[m].password, op[m].role)
    BY <1>3, <1>7, UpdatedType DEF NewData
  <1>9. op[m].type = "Delete" => NewData(m) = NoUser
    BY DEF NewData
  <1> QED
    BY <1>2, <1>3, <1>4, <1>5, <1>6, <1>7, <1>8, <1>9 DEF LockAndCount

\* Whether a name is an administrator, before and after such a step.
LEMMA LockRoles ==
    ASSUME NEW old \in UserData, NEW password, NEW role \in Roles \cup {None}
    PROVE  /\ role = None => Updated(old, password, role).role = old.role
           /\ role # None => Updated(old, password, role).role = role
           /\ old.role \in Roles
  BY DEF Updated, UserData

\* The count and the administrators it stands for change together: each step
\* that adds or removes an administrator counts it, or leaves it uncounted.
LEMMA AccountingStep == IInv /\ [Next]_vars => CountAccounting' /\ admin_count' >= 1
  <1> SUFFICES ASSUME IInv, [Next]_vars PROVE CountAccounting' /\ admin_count' >= 1
    OBVIOUS
  <1> DEFINE Admins == AdminsOf(EffectiveUsers)
  <1>1. /\ EffectiveUsers \in Table
        /\ admin_count \in Nat /\ admin_count >= 1
        /\ admin_count + Cardinality(Uncounted) = Cardinality(Admins)
    BY EffectiveType DEF IInv, LocksOK, TypeOK, AdminRemains, CountAccounting
  <1>2. IsFiniteSet(Uncounted) /\ Cardinality(Uncounted) \in Nat
    <2>1. Uncounted \subseteq Managers
      BY DEF Uncounted
    <2> QED
      BY <2>1, UsersAssumption, FS_Subset, FS_CardinalityType
  <1>3. Cardinality(Admins) \in Nat
    BY AdminsFinite
  <1>4. ASSUME EffectiveUsers' = EffectiveUsers, Uncounted' = Uncounted,
               admin_count' = admin_count
        PROVE  CountAccounting' /\ admin_count' >= 1
    BY <1>1, <1>4 DEF CountAccounting
  <1>5. ASSUME NEW m \in Managers, Request(m) \/ Write(m) \/ LogEvent(m)
        PROVE  CountAccounting' /\ admin_count' >= 1
    <2>1. Uncounted' = Uncounted /\ admin_count' = admin_count
      BY <1>5 DEF Request, Write, LogEvent, Uncounted, IInv, TypeOK
    <2> QED
      BY <1>4, <1>5, <2>1, Stutters
  <1>6. ASSUME NEW m \in Managers, pc[m] = "entry", \E a : Return(m, a)
        PROVE  CountAccounting' /\ admin_count' >= 1
    <2>1. Uncounted' = Uncounted /\ admin_count' = admin_count
      BY <1>6 DEF Return, Uncounted, IInv, TypeOK
    <2> QED
      BY <1>4, <1>6, <2>1, Stutters
  <1>7. ASSUME NEW m \in Managers, InsertFetchAdd(m)
        PROVE  CountAccounting' /\ admin_count' >= 1
    <2>1. m \in Uncounted /\ Uncounted' = Uncounted \ {m}
      BY <1>7 DEF InsertFetchAdd, Uncounted, IInv, TypeOK
    <2>2. Cardinality(Uncounted') = Cardinality(Uncounted) - 1
      BY <1>2, <2>1, FS_RemoveElement
    <2>3. EffectiveUsers' = EffectiveUsers /\ admin_count' = admin_count + 1
      BY <1>7, Stutters DEF InsertFetchAdd
    <2> QED
      BY <1>1, <1>2, <1>3, <2>2, <2>3 DEF CountAccounting
  <1>8. ASSUME NEW m \in Managers, Insert(m)
        PROVE  CountAccounting' /\ admin_count' >= 1
    <2>1. CASE users' = users
      <3>1. pc[m] = "entry" /\ \E a : Return(m, a)
        <4>1. \A data \in UserData : data # NoUser
          BY UsersAssumption
        <4>2. /\ op[m].username \in Usernames
              /\ [password |-> op[m].password, role |-> op[m].role] \in UserData
          BY <1>8 DEF Insert, RefusesName, At, IInv, RequestPhases, Requests, UserData
        <4> QED
          BY <1>8, <2>1, <4>1, <4>2 DEF Insert, RefusesName, At, IInv, TypeOK, Table
      <3> QED
        BY <1>6, <3>1
    <2>2. CASE users' # users
      <3> DEFINE u == op[m].username
                 data == [password |-> op[m].password, role |-> op[m].role]
      <3>1. /\ u \in Usernames /\ data \in UserData
            /\ EffectiveUsers[u] = NoUser
            /\ EffectiveUsers' = [EffectiveUsers EXCEPT ![u] = data]
            /\ pc[m] = "entry"
            /\ pc' = [pc EXCEPT ![m] = IF data.role = "Admin" THEN "count" ELSE "log"]
            /\ admin_count' = admin_count
        BY <1>8, <2>2, InsertEffect
      <3>2. u \notin Admins /\ data # NoUser
        BY <3>1, UsersAssumption DEF AdminsOf, RoleIn, Roles
      <3> HIDE DEF data
      <3>3. CASE data.role = "Admin"
        <4>1. Uncounted' = Uncounted \cup {m} /\ m \notin Uncounted
          BY <3>1, <3>3 DEF Uncounted, IInv, TypeOK
        <4>2. Cardinality(Uncounted') = Cardinality(Uncounted) + 1
          BY <1>2, <4>1, FS_AddElement
        <4>3. Cardinality(Admins') = Cardinality(Admins) + 1
          BY <1>1, <3>1, <3>2, <3>3, AdminsCount
        <4> QED
          BY <1>1, <1>2, <1>3, <3>1, <4>2, <4>3 DEF CountAccounting
      <3>4. CASE data.role # "Admin"
        <4>1. Uncounted' = Uncounted
          BY <3>1, <3>4 DEF Uncounted, IInv, TypeOK
        <4>2. Cardinality(Admins') = Cardinality(Admins)
          BY <1>1, <3>1, <3>2, <3>4, AdminsCount
        <4> QED
          BY <1>1, <3>1, <4>1, <4>2 DEF CountAccounting
      <3> QED
        BY <3>3, <3>4
    <2> QED
      BY <2>1, <2>2
  <1>9. ASSUME NEW m \in Managers, Update(m)
        PROVE  CountAccounting' /\ admin_count' >= 1
    <2> DEFINE u == op[m].username
    <2>1. pc[m] = "entry" /\ op[m].type = "Update"
      BY <1>9 DEF Update, RequestsNothing, At
    <2>2. CASE \E a : Return(m, a)
      BY <1>6, <2>1, <2>2
    <2>3. ASSUME NEW count, CanLock(u), users[u] # NoUser, LockAndCount(m, u, count),
                 \/ /\ users[u].role = "Admin" /\ op[m].role = "Regular"
                    /\ count = admin_count - 1 /\ ~OnlyOneCounted
                 \/ /\ users[u].role = "Regular" /\ op[m].role = "Admin"
                    /\ count = admin_count + 1
                 \/ /\ ~(users[u].role = "Admin" /\ op[m].role = "Regular")
                    /\ ~(users[u].role = "Regular" /\ op[m].role = "Admin")
                    /\ count = admin_count
          PROVE  CountAccounting' /\ admin_count' >= 1
      <3>1. /\ u \in Usernames /\ users[u] \in UserData
            /\ EffectiveUsers[u] = users[u]
            /\ NewData(m) \in UserData
            /\ op[m].role \in Roles \cup {None}
            /\ NewData(m) = Updated(users[u], op[m].password, op[m].role)
            /\ EffectiveUsers' = [EffectiveUsers EXCEPT ![u] = NewData(m)]
            /\ Uncounted' = Uncounted
            /\ admin_count' = count
        BY <2>1, <2>3, LockEffect
      <3>2. u \in Admins <=> users[u].role = "Admin"
        BY <3>1, UsersAssumption DEF AdminsOf, RoleIn
      <3>3. NewData(m) # NoUser
        BY <3>1, UsersAssumption
      <3>4. /\ op[m].role = None => NewData(m).role = users[u].role
            /\ op[m].role # None => NewData(m).role = op[m].role
            /\ users[u].role \in Roles
        BY <3>1, LockRoles
      <3>5. None # "Admin" /\ None # "Regular"
        BY UsersAssumption DEF Roles
      <3> DEFINE is == NewData(m).role = "Admin"
                 was == u \in Admins
      <3>6. /\ was /\ ~is => Cardinality(Admins') = Cardinality(Admins) - 1
            /\ ~was /\ is => Cardinality(Admins') = Cardinality(Admins) + 1
            /\ was <=> is => Cardinality(Admins') = Cardinality(Admins)
        BY <1>1, <3>1, <3>3, AdminsCount
      <3>7. /\ was /\ ~is => count = admin_count - 1 /\ ~OnlyOneCounted
            /\ ~was /\ is => count = admin_count + 1
            /\ was <=> is => count = admin_count
        BY <2>3, <3>1, <3>2, <3>4, <3>5 DEF Roles
      <3> QED
        BY <1>1, <1>2, <1>3, <3>1, <3>6, <3>7 DEF CountAccounting, OnlyOneCounted
    <2> QED
      BY <1>9, <2>2, <2>3 DEF Update, RequestsNothing
  <1>10. ASSUME NEW m \in Managers, Delete(m)
         PROVE  CountAccounting' /\ admin_count' >= 1
    <2> DEFINE u == op[m].username
    <2>1. pc[m] = "entry" /\ op[m].type = "Delete" /\ CanLock(u)
      BY <1>10 DEF Delete, At
    <2>2. CASE \E a : Return(m, a)
      BY <1>6, <2>1, <2>2
    <2>3. ASSUME NEW count, LockAndCount(m, u, count),
                 \/ /\ RoleIn(users, u) = "Admin" /\ ~OnlyOneCounted
                    /\ count = admin_count - 1
                 \/ RoleIn(users, u) = "Regular" /\ count = admin_count
          PROVE  CountAccounting' /\ admin_count' >= 1
      <3>1. users[u] # NoUser
        BY <2>3, UsersAssumption DEF RoleIn, Roles
      <3>2. /\ u \in Usernames
            /\ EffectiveUsers[u] = users[u]
            /\ NewData(m) = NoUser
            /\ EffectiveUsers' = [EffectiveUsers EXCEPT ![u] = NoUser]
            /\ Uncounted' = Uncounted
            /\ admin_count' = count
        BY <2>1, <2>3, <3>1, LockEffect
      <3>3. u \in Admins <=> RoleIn(users, u) = "Admin"
        BY <3>2 DEF AdminsOf, RoleIn
      <3>4. /\ u \in Admins => Cardinality(Admins') = Cardinality(Admins) - 1
            /\ u \notin Admins => Cardinality(Admins') = Cardinality(Admins)
        BY <1>1, <3>2, AdminsCount
      <3> QED
        BY <1>1, <1>2, <1>3, <2>3, <3>2, <3>3, <3>4 DEF CountAccounting, OnlyOneCounted
    <2> QED
      BY <1>10, <2>2, <2>3 DEF Delete
  <1>11. CASE UNCHANGED tableVars
    <2>1. EffectiveUsers' = EffectiveUsers
      BY <1>11 DEF EffectiveUsers, Effective, NewData
    <2>2. Uncounted' = Uncounted
      BY <1>11 DEF Uncounted
    <2> QED
      BY <1>4, <1>11, <2>1, <2>2
  <1> QED
    BY <1>5, <1>7, <1>8, <1>9, <1>10, <1>11
    DEF Next, ManagerStep, SaveStep, BeginSave, CollectShard, EndCollect,
        SaveUser, EndSave, SaveError, vars

\* Every step preserves the invariant.
LEMMA IInvStep == IInv /\ [Next]_vars => IInv'
  <1> SUFFICES ASSUME IInv, [Next]_vars PROVE IInv'
    OBVIOUS
  <1>1. TypeOK' /\ RequestPhases' /\ ShardExclusion' /\ SavedShardsFrozen' /\ SaveProgress'
    BY TypeStep, PhasesStep, ExclusionStep, FrozenStep
  <1>2. CountAccounting' /\ admin_count' >= 1
    BY AccountingStep
  <1>3. AdminsOf(EffectiveUsers)' # {}
    <2>1. IsFiniteSet(Uncounted')
      BY UsersAssumption, FS_Subset DEF Uncounted
    <2>2. Cardinality(Uncounted') \in Nat /\ admin_count' \in Nat
      BY <1>1, <2>1, FS_CardinalityType DEF TypeOK
    <2>3. Cardinality(AdminsOf(EffectiveUsers')) # 0
      BY <1>2, <2>2 DEF CountAccounting
    <2> QED
      BY <2>3, AdminsFinite
  <1> QED
    BY <1>1, <1>2, <1>3 DEF IInv, AdminRemains

-----------------------------------------------------------------------------
(* Safety                                                                  *)

\* The invariant holds in every reachable state.
THEOREM Invariant == Spec => []IInv
  BY InitIInv, IInvStep, PTL DEF Spec

\* The state has its type: in particular admin_count never goes below zero,
\* where the u32 of the code would wrap around.
THEOREM TypeCorrect == Spec => []TypeOK
  BY Invariant, PTL DEF IInv

\* A shard has one writer at most, and none while the save has a guard of it.
THEOREM ShardsExclusive == Spec => []ShardExclusion
  BY Invariant, PTL DEF IInv

\* admin_count differs from the number of administrators by the insertions
\* that are between the map and the counter, and by nothing else.
THEOREM AdminsCounted == Spec => []CountAccounting
  BY Invariant, PTL DEF IInv

\* No interleaving of requests takes the last administrator away.
THEOREM AnAdminRemains == Spec => []AdminRemains
  BY Invariant, PTL DEF IInv

\* What the save has yet to write is what the table holds.
THEOREM SaveFrozen == Spec => []SavedShardsFrozen
  BY Invariant, PTL DEF IInv

\* Each entry that was collected is in the file, or is still to be written.
SaveAccounted ==
    /\ \A u \in Usernames : save_phase # "failed" =>
          /\ u \in unwritten => written[u] = NoUser
          /\ u \notin unwritten => written[u] = collected[u]
    /\ save_phase = "done" => unwritten = {}

\* The save goes on so: a name is collected and to be written, or neither.
LEMMA AccountedStep == IInv /\ SaveAccounted /\ [Next]_vars => SaveAccounted'
  <1> SUFFICES ASSUME IInv, SaveAccounted, [Next]_vars PROVE SaveAccounted'
    OBVIOUS
  <1>1. written \in Table /\ collected \in Table
    BY DEF IInv, TypeOK
  <1>2. CASE UNCHANGED saveVars
    BY <1>2 DEF SaveAccounted, saveVars
  <1>3. CASE BeginSave
    BY <1>3 DEF BeginSave, SaveAccounted
  <1>4. CASE CollectShard
    <2> DEFINE names == {u \in InShard(next_shard) : users[u] # NoUser}
    <2>1. /\ unwritten' = unwritten \cup names /\ UNCHANGED <<save_phase, written>>
          /\ collected' = [u \in Usernames |-> IF u \in names THEN users[u] ELSE collected[u]]
          /\ save_phase = "collect"
      BY <1>4 DEF CollectShard
    <2>2. ASSUME NEW u \in Usernames, u \in names
          PROVE  written[u] = NoUser
      <3>1. ShardOf[u] = next_shard
        BY <2>2 DEF InShard
      <3>2. ShardOf[u] >= next_shard
        <4>1. ShardOf[u] \in Nat
          BY UserManagerAssumption DEF Shards
        <4> QED
          BY <3>1, <4>1
      <3>3. collected[u] = NoUser
        BY <3>2 DEF IInv, SaveProgress
      <3> QED
        BY <2>1, <3>3 DEF SaveAccounted
    <2> HIDE DEF names
    <2> QED
      BY <2>1, <2>2 DEF SaveAccounted
  <1>5. CASE EndCollect
    BY <1>5 DEF EndCollect, SaveAccounted
  <1>6. CASE SaveUser
    <2>1. PICK u \in unwritten : /\ unwritten' = unwritten \ {u}
                                 /\ written' = [written EXCEPT ![u] = collected[u]]
      BY <1>6 DEF SaveUser
    <2>2. u \in Usernames /\ UNCHANGED <<save_phase, collected>> /\ save_phase = "write"
      BY <1>6, <2>1 DEF SaveUser, IInv, TypeOK
    <2>3. /\ written'[u] = collected[u]
          /\ \A v \in Usernames \ {u} : written'[v] = written[v]
      BY <1>1, <2>1, <2>2 DEF Table
    <2> QED
      BY <2>1, <2>2, <2>3 DEF SaveAccounted
  <1>7. CASE EndSave
    BY <1>7 DEF EndSave, SaveAccounted
  <1>8. CASE SaveError
    BY <1>8 DEF SaveError, SaveAccounted
  <1>9. Next => UNCHANGED saveVars \/ BeginSave \/ SaveStep \/ SaveError
    <2>1. ASSUME NEW m \in Managers, Request(m) \/ Insert(m) \/ InsertFetchAdd(m) \/ Update(m)
          PROVE  UNCHANGED saveVars
      BY <2>1 DEF Request, Insert, InsertFetchAdd, Update, Return, LockAndCount
    <2>2. ASSUME NEW m \in Managers, Delete(m) \/ Write(m) \/ LogEvent(m)
          PROVE  UNCHANGED saveVars
      BY <2>2 DEF Delete, Write, LogEvent, Return, LockAndCount
    <2> QED
      BY <2>1, <2>2 DEF Next, ManagerStep
  <1> QED
    BY <1>2, <1>3, <1>4, <1>5, <1>6, <1>7, <1>8, <1>9 DEF SaveStep, vars

\* The file of a save that ends well holds every entry that was collected, as nobody
\* could have changed it in between.
THEOREM SavesAreTrue == Spec => []SaveTrue
  <1>1. Init => SaveAccounted
    BY DEF Init, SaveAccounted
  <1>2. IInv /\ SaveAccounted => SaveTrue
    <2> SUFFICES ASSUME IInv, SaveAccounted, save_phase = "done" PROVE written = collected
      BY DEF SaveTrue, SaveComplete, IInv
    <2>1. written \in Table /\ collected \in Table
      BY DEF IInv, TypeOK
    <2>2. \A u \in Usernames : written[u] = collected[u]
      BY DEF SaveAccounted
    <2> QED
      BY <2>1, <2>2 DEF Table
  <1> QED
    BY <1>1, <1>2, AccountedStep, Invariant, PTL DEF Spec

\* Every refusal of the only administrator comes from a count of one.
THEOREM RefusalsExplained == Spec => RefusalExplained
  <1> DEFINE Explained ==
        \A m \in Managers :
          answer[m] = "waiting" /\ answer'[m] = "CannotDeleteOnlyAdmin"
            => Cardinality(AdminsOf(EffectiveUsers)) = 1 + Cardinality(Uncounted)
  <1>1. IInv /\ [Next]_vars => Explained
    <2> SUFFICES ASSUME IInv, [Next]_vars, NEW n \in Managers, answer[n] = "waiting",
                        answer'[n] = "CannotDeleteOnlyAdmin"
                 PROVE  OnlyOneCounted
      BY DEF OnlyOneCounted, IInv, CountAccounting
    <2> USE DEF IInv
    <2>1. answer' # answer
      OBVIOUS
    <2>2. ASSUME NEW m \in Managers,
                 answer' = [answer EXCEPT ![m] = "Ok"]
                   \/ answer' = [answer EXCEPT ![m] = "waiting"]
                   \/ answer' = [answer EXCEPT ![m] = "InvalidValues"]
                   \/ answer' = [answer EXCEPT ![m] = "AlreadyExists"]
                   \/ answer' = [answer EXCEPT ![m] = "UserNotFound"]
                   \/ answer' = [answer EXCEPT ![m] = "NothingWasRequested"]
          PROVE  FALSE
      BY <2>2 DEF TypeOK
    <2>3. ASSUME NEW m \in Managers, Request(m) \/ Insert(m) PROVE OnlyOneCounted
      BY <2>2, <2>3 DEF Request, Insert, RefusesName, Return
    <2>4. ASSUME NEW m \in Managers, Update(m) PROVE OnlyOneCounted
      BY <2>2, <2>4 DEF Update, RequestsNothing, Return, LockAndCount
    <2>5. ASSUME NEW m \in Managers, Delete(m) PROVE OnlyOneCounted
      BY <2>2, <2>5 DEF Delete, Return, LockAndCount
    <2> QED
      BY <2>1, <2>3, <2>4, <2>5
      DEF Next, ManagerStep, InsertFetchAdd, Write, LogEvent, SaveStep, BeginSave,
          CollectShard, EndCollect, SaveUser, EndSave, SaveError, vars
  <1> QED
    BY <1>1, Invariant, PTL DEF Spec, RefusalExplained

-----------------------------------------------------------------------------
(* Refinement                                                              *)

\* The registry's names for data are this specification's.
LEMMA SameData ==
    /\ Registry!Table = Table
    /\ Registry!UserData = UserData
    /\ Registry!Roles = Roles
    /\ \A table : Registry!AdminsOf(table) = AdminsOf(table)
    /\ \A old, password, role :
         Registry!Updated(old, password, role) = Updated(old, password, role)
  <1>1. \A table, u : Registry!RoleIn(table, u) = RoleIn(table, u)
    BY DEF RoleIn, Registry!RoleIn
  <1> QED
    BY <1>1 DEF Registry!Table, Registry!UserData, Registry!Roles, Registry!AdminsOf,
                Registry!Updated, Table, UserData, Roles, AdminsOf, Updated

\* A count above one means another administrator in the table.
LEMMA AnotherAdmin ==
    ASSUME IInv, NEW u, u \in AdminsOf(EffectiveUsers), ~OnlyOneCounted
    PROVE  AdminsOf(EffectiveUsers) \ {u} # {}
  <1> DEFINE Admins == AdminsOf(EffectiveUsers)
  <1>1. IsFiniteSet(Uncounted)
    BY UsersAssumption, FS_Subset DEF Uncounted
  <1>2. Cardinality(Uncounted) \in Nat
    BY <1>1, FS_CardinalityType
  <1>3. admin_count \in Nat /\ admin_count >= 2
    BY DEF IInv, TypeOK, AdminRemains, OnlyOneCounted
  <1>4. Cardinality(Admins) >= 2
    BY <1>2, <1>3 DEF IInv, CountAccounting
  <1>5. Cardinality(Admins \ {u}) = Cardinality(Admins) - 1
    BY AdminsFinite, FS_RemoveElement
  <1>6. Cardinality(Admins) \in Nat
    BY AdminsFinite
  <1> QED
    BY <1>4, <1>5, <1>6, FS_EmptySet

\* The initial tables are the registry's.
LEMMA RegistryInit == Init => Registry!Init
  <1> SUFFICES ASSUME Init PROVE Registry!Init
    OBVIOUS
  <1>1. EffectiveUsers = users
    <2>1. \A u \in Usernames : Effective(u) = users[u]
      BY UserManagerAssumption DEF Init, Effective
    <2> QED
      BY <2>1 DEF EffectiveUsers, Init, Table
  <1> QED
    BY <1>1, SameData DEF Init, Registry!Init

\* Every step is a step of the registry or leaves it alone.
LEMMA RegistryStep ==
    IInv /\ [Next]_vars => [Registry!Next]_(Registry!vars)
  <1> SUFFICES ASSUME IInv, [Next]_vars PROVE [Registry!Next]_(Registry!vars)
    OBVIOUS
  <1>1. \A m \in Managers : pc[m] = "entry" <=> answer[m] = "waiting"
    BY DEF IInv, RequestPhases
  <1>2. EffectiveUsers \in Table
    BY EffectiveType DEF IInv, LocksOK
  <1>3. ASSUME NEW m \in Managers, Request(m) PROVE Registry!Next
    <2>1. Registry!Ask(m)
      BY <1>1, <1>3, Stutters DEF Request, Registry!Ask
    <2> QED
      BY <2>1 DEF Registry!Next
  <1>4. ASSUME NEW m \in Managers, InsertFetchAdd(m) \/ Write(m) \/ LogEvent(m)
        PROVE  UNCHANGED Registry!vars
    BY <1>4, Stutters DEF InsertFetchAdd, Write, LogEvent, Registry!vars
  <1>5. ASSUME NEW m \in Managers, NEW a, pc[m] = "entry", Return(m, a)
        PROVE  Registry!Answer(m, a) /\ EffectiveUsers' = EffectiveUsers
    BY <1>1, <1>5, Stutters DEF Return, Registry!Answer
  <1>6. ASSUME NEW m \in Managers, pc[m] = "entry", CanLock(op[m].username)
        PROVE  /\ op[m].username \in Usernames
               /\ EffectiveUsers[op[m].username] = users[op[m].username]
    BY <1>6, EffectiveType, EffectiveFree
    DEF IInv, LocksOK, RequestPhases, Requests, CanLock
  <1>7. ASSUME NEW m \in Managers, Insert(m) PROVE Registry!Next
    <2> DEFINE u == op[m].username
               data == [password |-> op[m].password, role |-> op[m].role]
    <2>1. pc[m] = "entry" /\ u \in Usernames /\ data \in UserData
      BY <1>7 DEF Insert, RefusesName, At, IInv, RequestPhases, Requests, UserData
    <2>2. CASE users' # users
      <3>1. Registry!Add(m, u, data)
        BY <1>1, <1>7, <2>2, InsertEffect DEF Registry!Add, Registry!Answer
      <3> QED
        BY <2>1, <3>1, SameData DEF Registry!Next
    <2>3. CASE users' = users
      <3>1. \/ u \in UnprintableNames /\ Return(m, "InvalidValues")
            \/ CanLock(u) /\ users[u] # NoUser /\ Return(m, "AlreadyExists")
        <4>1. data # NoUser
          BY <2>1, UsersAssumption
        <4> QED
          BY <1>7, <2>1, <2>3, <4>1 DEF Insert, RefusesName, IInv, TypeOK, Table
      <3>2. Registry!Add(m, u, data)
        BY <1>5, <1>6, <2>1, <3>1 DEF Registry!Add
      <3> QED
        BY <2>1, <3>2, SameData DEF Registry!Next
    <2> QED
      BY <2>2, <2>3
  <1>8. ASSUME NEW m \in Managers, Update(m) PROVE Registry!Next
    <2> DEFINE u == op[m].username
               password == op[m].password
               role == op[m].role
    <2>1. /\ pc[m] = "entry" /\ op[m].type = "Update" /\ u \in Usernames
          /\ password \in Passwords \cup {None} /\ role \in Roles \cup {None}
      BY <1>8 DEF Update, RequestsNothing, At, IInv, RequestPhases, Requests
    <2>2. None # "Regular"
      BY UsersAssumption DEF Roles
    <2>3. CASE \E a : Return(m, a)
      <3>1. \/ password = None /\ role = None /\ Return(m, "NothingWasRequested")
            \/ CanLock(u) /\ users[u] = NoUser /\ Return(m, "UserNotFound")
            \/ /\ CanLock(u) /\ users[u] # NoUser /\ users[u].role = "Admin"
               /\ role = "Regular" /\ Return(m, "CannotDeleteOnlyAdmin")
        BY <1>8, <2>1, <2>3 DEF Update, RequestsNothing, Return, LockAndCount, IInv, TypeOK
      <3>2. Registry!Update(m, u, password, role)
        BY <1>5, <1>6, <2>1, <3>1, SameData
        DEF Registry!Update, Registry!IsAdmin, AdminsOf, RoleIn
      <3> QED
        BY <2>1, <3>2, SameData DEF Registry!Next
    <2>4. ASSUME NEW count, CanLock(u), users[u] # NoUser, LockAndCount(m, u, count),
                 ~(password = None /\ role = None),
                 users[u].role = "Admin" /\ role = "Regular" => ~OnlyOneCounted
          PROVE  Registry!Next
      <3>1. /\ EffectiveUsers[u] = users[u]
            /\ EffectiveUsers' =
                 [EffectiveUsers EXCEPT ![u] = Updated(users[u], password, role)]
            /\ answer' = [answer EXCEPT ![m] = "Ok"]
        BY <2>1, <2>4, LockEffect
      <3>2. Registry!IsAdmin(u) /\ role = "Regular" => Registry!OtherAdmin(u)
        BY <2>1, <2>4, <3>1, AnotherAdmin, SameData
        DEF Registry!IsAdmin, Registry!OtherAdmin, AdminsOf, RoleIn
      <3>3. Registry!Update(m, u, password, role)
        BY <1>1, <2>1, <2>4, <3>1, <3>2, SameData DEF Registry!Update, Registry!Answer
      <3> QED
        BY <2>1, <3>3, SameData DEF Registry!Next
    <2> QED
      BY <1>8, <2>3, <2>4 DEF Update, RequestsNothing
  <1>9. ASSUME NEW m \in Managers, Delete(m) PROVE Registry!Next
    <2> DEFINE u == op[m].username
    <2>1. /\ pc[m] = "entry" /\ op[m].type = "Delete" /\ CanLock(u)
          /\ u \in Usernames /\ EffectiveUsers[u] = users[u]
      BY <1>6, <1>9 DEF Delete, At
    <2>2. CASE \E a : Return(m, a)
      <3>1. \/ users[u] = NoUser /\ Return(m, "UserNotFound")
            \/ RoleIn(users, u) = "Admin" /\ Return(m, "CannotDeleteOnlyAdmin")
        BY <1>9, <2>1, <2>2 DEF Delete, Return, LockAndCount, IInv, TypeOK
      <3>2. Registry!Delete(m, u)
        BY <1>5, <2>1, <3>1, SameData DEF Registry!Delete, Registry!IsAdmin, AdminsOf, RoleIn
      <3> QED
        BY <2>1, <3>2, SameData DEF Registry!Next
    <2>3. ASSUME NEW count, LockAndCount(m, u, count), RoleIn(users, u) \in Roles,
                 RoleIn(users, u) = "Admin" => ~OnlyOneCounted
          PROVE  Registry!Next
      <3>1. users[u] # NoUser
        BY <2>3, UsersAssumption DEF RoleIn
      <3>2. /\ EffectiveUsers' = [EffectiveUsers EXCEPT ![u] = NoUser]
            /\ answer' = [answer EXCEPT ![m] = "Ok"]
        BY <2>1, <2>3, <3>1, LockEffect
      <3>3. Registry!IsAdmin(u) => Registry!OtherAdmin(u)
        BY <2>1, <2>3, AnotherAdmin, SameData
        DEF Registry!IsAdmin, Registry!OtherAdmin, AdminsOf, RoleIn
      <3>4. Registry!Delete(m, u)
        BY <1>1, <2>1, <3>1, <3>2, <3>3, SameData DEF Registry!Delete, Registry!Answer
      <3> QED
        BY <2>1, <3>4 DEF Registry!Next
    <2> QED
      BY <1>9, <2>2, <2>3 DEF Delete, Roles
  <1>10. CASE UNCHANGED tableVars
    BY <1>10 DEF EffectiveUsers, Effective, NewData, Registry!vars
  <1> QED
    BY <1>3, <1>4, <1>7, <1>8, <1>9, <1>10
    DEF Next, ManagerStep, SaveStep, BeginSave, CollectShard, EndCollect,
        SaveUser, EndSave, SaveError, vars

\* The interleaved requests implement the atomic registry.
THEOREM Refinement == Spec => ImplementsRegistry
  BY RegistryInit, RegistryStep, Invariant, PTL DEF Spec, ImplementsRegistry, Registry!Spec

=============================================================================
