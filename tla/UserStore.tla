----------------------------- MODULE UserStore -----------------------------
(***************************************************************************)
(* The user application (application/user/main.go): each pod has a map of  *)
(* users and a counter in its memory, both guarded by one mutex.  Nothing  *)
(* is shared between pods and nothing survives a restart, so ids are said  *)
(* anew by every pod and every life of it; what is promised, is promised   *)
(* by one life of one pod.                                                 *)
(***************************************************************************)
EXTENDS Integers, FiniteSets

CONSTANTS
    Pod,
    Request,      \* requests at a time
    Name,         \* names and ages; what cannot be decoded is the empty one
    MaxID,        \* bound: users a life of a pod creates
    MaxRestarts,  \* bound
    Nobody        \* no request

ASSUME UserAssumption ==
    /\ MaxID \in Nat /\ MaxRestarts \in Nat
    /\ Nobody \notin Request

VARIABLES
    users,    \* users[p]: a set of [id, name]
    lastID,   \* lastID[p]
    mu,       \* mu[p]: the request that holds the mutex
    pc,       \* the next step of a handler
    call,     \* its request: [op, pod, id, name]
    user,     \* user[r]: the handler's variable of that name, or its list
    \* The properties alone read what follows.
    told,     \* what clients were told by the present life of pods: [pod, id, name]
    deleted,  \* whom it has deleted: <<pod, id>>
    before,   \* before[r]: told and deleted when the request arrived
    restarts

store == <<users, lastID, mu>>
handler == <<pc, call, user>>
history == <<told, deleted, before>>
vars == <<store, handler, history, restarts>>

ID == 1 .. MaxID
NoCall == [op |-> "none"]
Nothing == [told |-> {}, deleted |-> {}]

Init ==
    /\ users = [p \in Pod |-> {}]
    /\ lastID = [p \in Pod |-> 0]
    /\ mu = [p \in Pod |-> Nobody]
    /\ pc = [r \in Request |-> "idle"]
    /\ call = [r \in Request |-> NoCall]
    /\ user = [r \in Request |-> {}]
    /\ told = {} /\ deleted = {}
    /\ before = [r \in Request |-> Nothing]
    /\ restarts = 0

Op(r) == call[r].op
At(r) == call[r].pod

\* Those that have still to count; used by the bound alone.
Posts(p) == {r \in Request : pc[r] \in {"lock", "increment"} /\ Op(r) = "post" /\ At(r) = p}

\* A route is taken; other methods and ids that are no numbers are refused without
\* any effect.  A body that cannot be decoded is not.
Arrive(r) ==
    /\ pc[r] = "idle"
    /\ \E c \in [op : {"post"}, pod : Pod, name : Name]
                \cup [op : {"get", "delete"}, pod : Pod, id : ID] \cup [op : {"list"}, pod : Pod] :
          /\ c.op = "post" => lastID[c.pod] + Cardinality(Posts(c.pod)) < MaxID
          /\ call' = [call EXCEPT ![r] = c]
          /\ before' = [before EXCEPT ![r] =
                [told |-> {t \in told : t.pod = c.pod}, deleted |-> {d \in deleted : d[1] = c.pod}]]
    /\ pc' = [pc EXCEPT ![r] = "lock"]
    /\ UNCHANGED <<store, user, told, deleted, restarts>>

-----------------------------------------------------------------------------
(***************************************************************************)
(* POST /v1/users                                                          *)
(***************************************************************************)
\* Variant: the mutex is not asked for.
LockAnyway(r) ==
    /\ pc[r] = "lock" /\ Op(r) = "post"
    /\ mu' = [mu EXCEPT ![At(r)] = r]
    /\ pc' = [pc EXCEPT ![r] = "increment"]
    /\ UNCHANGED <<users, lastID, call, user, history, restarts>>

Lock(r) ==
    /\ pc[r] = "lock" /\ Op(r) = "post"
    /\ mu[At(r)] = Nobody
    /\ mu' = [mu EXCEPT ![At(r)] = r]
    /\ pc' = [pc EXCEPT ![r] = "increment"]
    /\ UNCHANGED <<users, lastID, call, user, history, restarts>>

Increment(r) ==
    /\ pc[r] = "increment"
    /\ lastID' = [lastID EXCEPT ![At(r)] = @ + 1]
    /\ pc' = [pc EXCEPT ![r] = "mint"]
    /\ UNCHANGED <<users, mu, call, user, history, restarts>>

\* Variant: the id is the number of users there are, and one more.
MintByCount(r) ==
    /\ pc[r] = "mint"
    /\ user' = [user EXCEPT ![r] = {[id |-> Cardinality(users[At(r)]) + 1, name |-> call[r].name]}]
    /\ pc' = [pc EXCEPT ![r] = "put"]
    /\ UNCHANGED <<store, call, history, restarts>>

Mint(r) ==
    /\ pc[r] = "mint"
    /\ user' = [user EXCEPT ![r] = {[id |-> lastID[At(r)], name |-> call[r].name]}]
    /\ pc' = [pc EXCEPT ![r] = "put"]
    /\ UNCHANGED <<store, call, history, restarts>>

\* Into the map, and the mutex is released.
Put(r) ==
    /\ pc[r] = "put"
    /\ users' = [users EXCEPT ![At(r)] =
          {u \in @ : \A v \in user[r] : u.id # v.id} \cup user[r]]
    /\ mu' = [mu EXCEPT ![At(r)] = Nobody]
    /\ pc' = [pc EXCEPT ![r] = "answer"]
    /\ UNCHANGED <<lastID, call, user, history, restarts>>

-----------------------------------------------------------------------------
(***************************************************************************)
(* GET and DELETE: nothing happens between Lock and Unlock that others see *)
(***************************************************************************)
Free(r, op) == pc[r] = "lock" /\ Op(r) = op /\ mu[At(r)] = Nobody

Get(r) ==
    /\ Free(r, "get")
    /\ user' = [user EXCEPT ![r] = {u \in users[At(r)] : u.id = call[r].id}]
    /\ pc' = [pc EXCEPT ![r] = "answer"]
    /\ UNCHANGED <<store, call, history, restarts>>

List(r) ==
    /\ Free(r, "list")
    /\ user' = [user EXCEPT ![r] = users[At(r)]]
    /\ pc' = [pc EXCEPT ![r] = "answer"]
    /\ UNCHANGED <<store, call, history, restarts>>

\* Answered 204 whether there was such a user or not.
Delete(r) ==
    /\ Free(r, "delete")
    /\ users' = [users EXCEPT ![At(r)] = {u \in @ : u.id # call[r].id}]
    /\ deleted' = deleted \cup {<<At(r), u.id>> : u \in {v \in users[At(r)] : v.id = call[r].id}}
    /\ pc' = [pc EXCEPT ![r] = "answer"]
    /\ UNCHANGED <<lastID, mu, call, user, told, before, restarts>>

\* Encoded after the mutex was released.
Answer(r) ==
    /\ pc[r] = "answer"
    /\ told' = IF Op(r) = "post"
               THEN told \cup {[pod |-> At(r), id |-> u.id, name |-> u.name] : u \in user[r]}
               ELSE told
    /\ pc' = [pc EXCEPT ![r] = "idle"]
    /\ call' = [call EXCEPT ![r] = NoCall]
    /\ user' = [user EXCEPT ![r] = {}]
    /\ before' = [before EXCEPT ![r] = Nothing]
    /\ UNCHANGED <<store, deleted, restarts>>

\* A rollout, a failed probe, scaling in: the pod's memory and requests are gone.
Restart(p) ==
    /\ restarts < MaxRestarts
    /\ restarts' = restarts + 1
    /\ users' = [users EXCEPT ![p] = {}]
    /\ lastID' = [lastID EXCEPT ![p] = 0]
    /\ mu' = [mu EXCEPT ![p] = Nobody]
    /\ told' = {t \in told : t.pod # p}
    /\ deleted' = {d \in deleted : d[1] # p}
    /\ LET cut == {r \in Request : pc[r] # "idle" /\ At(r) = p}
       IN  /\ pc' = [r \in Request |-> IF r \in cut THEN "idle" ELSE pc[r]]
           /\ call' = [r \in Request |-> IF r \in cut THEN NoCall ELSE call[r]]
           /\ user' = [r \in Request |-> IF r \in cut THEN {} ELSE user[r]]
           /\ before' = [r \in Request |-> IF r \in cut THEN Nothing ELSE before[r]]

Handle(r) == Lock(r) \/ Increment(r) \/ Mint(r) \/ Put(r) \/ Get(r) \/ List(r) \/ Delete(r) \/ Answer(r)

Next ==
    \/ \E r \in Request : Arrive(r) \/ Handle(r)
    \/ \E p \in Pod : Restart(p)

Spec == Init /\ [][Next]_vars

-----------------------------------------------------------------------------
\* Within one life of a pod an id never comes to mean somebody else, not even after
\* a DELETE: who asks for or deletes the id he was told meets his own user or none.
IdsStayTheirs ==
    \A t \in told :
        /\ \A u \in users[t.pod] : u.id = t.id => u.name = t.name
        /\ \A r \in Request : pc[r] = "answer" /\ At(r) = t.pod =>
              \A u \in user[r] : u.id = t.id => u.name = t.name

\* A GET, of one or of all, shows everybody who had been created before it was asked
\* and is not deleted yet, and nobody who had been deleted before it was asked.
ReadsCurrent ==
    \A r \in Request : pc[r] = "answer" /\ Op(r) \in {"get", "list"} =>
        /\ \A t \in before[r].told :
              Op(r) = "list" \/ call[r].id = t.id =>
                  <<t.pod, t.id>> \in deleted \/ [id |-> t.id, name |-> t.name] \in user[r]
        /\ \A u \in user[r] : <<At(r), u.id>> \notin before[r].deleted
=============================================================================
