--------------------------- MODULE UserStoreProofs ---------------------------
(***************************************************************************)
(* Proofs about the user application for any number of pods, requests,     *)
(* users and restarts.                                                     *)
(***************************************************************************)
EXTENDS UserStore, TLAPS

(***************************************************************************)
(* The inductive invariant.                                                *)
(***************************************************************************)
Call == [op : {"post"}, pod : Pod, name : Name]
          \cup [op : {"get", "delete"}, pod : Pod, id : ID] \cup [op : {"list"}, pod : Pod]

Active(r) == pc[r] # "idle"

\* The steps for which a POST holds the mutex.
Held == {"increment", "mint", "put"}

StateInv ==
    /\ users \in [Pod -> SUBSET [id : Nat, name : Name]]
    /\ lastID \in [Pod -> Nat]
    /\ mu \in [Pod -> Request \cup {Nobody}]
    /\ pc \in [Request -> {"idle", "lock", "answer"} \cup Held]
    /\ call \in [Request -> Call \cup {NoCall}]
    /\ user \in [Request -> SUBSET [id : Nat, name : Name]]
    /\ told \subseteq [pod : Pod, id : Nat, name : Name]
    /\ deleted \subseteq Pod \X Nat
    /\ DOMAIN before = Request

\* What a handler's position says about its request and the mutex.
HandlerInv(r) ==
    /\ Active(r) => call[r] \in Call
    /\ pc[r] \in Held => Op(r) = "post" /\ mu[At(r)] = r
    /\ pc[r] \notin {"put", "answer"} => user[r] = {}
    /\ pc[r] = "put" => user[r] = {[id |-> lastID[At(r)], name |-> call[r].name]}

\* Who was ever seen under an id in this life of a pod.
Seen(p) ==
    users[p]
    \cup (UNION {user[r] : r \in {q \in Request : pc[q] = "answer" /\ At(q) = p}})
    \cup {[id |-> t.id, name |-> t.name] : t \in {s \in told : s.pod = p}}

\* The ids that were used: below the counter while a handler makes a new one.
Minting(p) == \E r \in Request : pc[r] \in {"mint", "put"} /\ At(r) = p

Used(p, i) == i <= lastID[p] /\ (Minting(p) => i < lastID[p])

\* An id has one meaning, and a new one was never used.
IdInv(p) ==
    /\ \A u, v \in Seen(p) : u.id = v.id => u.name = v.name
    /\ \A u \in Seen(p) : Used(p, u.id)
    /\ \A d \in deleted : d[1] = p => Used(p, d[2])

\* Users are in the map or deleted, and not both.
Kept(p, u) == <<p, u.id>> \in deleted \/ u \in users[p]

MapInv(p) ==
    /\ \A u \in users[p] : <<p, u.id>> \notin deleted
    /\ \A t \in told : t.pod = p => Kept(p, [id |-> t.id, name |-> t.name])
    /\ \A r \in Request : pc[r] = "answer" /\ Op(r) = "post" /\ At(r) = p =>
          \A u \in user[r] : Kept(p, u)

\* What was so when a request arrived is a part of what is so now.
BeforeInv(r) ==
    Active(r) =>
        /\ before[r].told \subseteq {t \in told : t.pod = At(r)}
        /\ before[r].deleted \subseteq {d \in deleted : d[1] = At(r)}

UserInv ==
    /\ StateInv
    /\ \A r \in Request : HandlerInv(r) /\ BeforeInv(r)
    /\ \A p \in Pod : IdInv(p) /\ MapInv(p)
    /\ ReadsCurrent

-----------------------------------------------------------------------------
(***************************************************************************)
(* What most steps leave alone.                                            *)
(***************************************************************************)
\* An id stays used unless a handler begins to make one.
LEMMA UsedStays ==
    ASSUME NEW p, lastID' = lastID,
           \A r \in Request : pc'[r] \in {"mint", "put"} /\ call'[r].pod = p =>
                pc[r] \in {"mint", "put"} /\ call[r].pod = p
    PROVE  \A i : Used(p, i) => Used(p, i)'
  BY DEF Used, Minting, At

\* Who is seen: in the map, in an answer that is ready, or in one that was given.
LEMMA SeenIs ==
    ASSUME NEW p, NEW u
    PROVE  /\ u \in Seen(p) <=>
                \/ u \in users[p]
                \/ \E r \in Request : pc[r] = "answer" /\ At(r) = p /\ u \in user[r]
                \/ \E t \in told : t.pod = p /\ u = [id |-> t.id, name |-> t.name]
           /\ u \in Seen(p)' <=>
                \/ u \in users'[p]
                \/ \E r \in Request : pc'[r] = "answer" /\ At(r)' = p /\ u \in user'[r]
                \/ \E t \in told' : t.pod = p /\ u = [id |-> t.id, name |-> t.name]
  <1>1. /\ u \in UNION {user[r] : r \in {q \in Request : pc[q] = "answer" /\ At(q) = p}} <=>
             \E r \in Request : pc[r] = "answer" /\ At(r) = p /\ u \in user[r]
        /\ u \in UNION {user'[r] : r \in {q \in Request : pc'[q] = "answer" /\ At(q)' = p}} <=>
             \E r \in Request : pc'[r] = "answer" /\ At(r)' = p /\ u \in user'[r]
    OBVIOUS
  <1>2. /\ u \in {[id |-> t.id, name |-> t.name] : t \in {s \in told : s.pod = p}} <=>
             \E t \in told : t.pod = p /\ u = [id |-> t.id, name |-> t.name]
        /\ u \in {[id |-> t.id, name |-> t.name] : t \in {s \in told' : s.pod = p}} <=>
             \E t \in told' : t.pod = p /\ u = [id |-> t.id, name |-> t.name]
    OBVIOUS
  <1> DEFINE A == UNION {user[r] : r \in {q \in Request : pc[q] = "answer" /\ At(q) = p}}
             B == {[id |-> t.id, name |-> t.name] : t \in {s \in told : s.pod = p}}
             A1 == UNION {user'[r] : r \in {q \in Request : pc'[q] = "answer" /\ At(q)' = p}}
             B1 == {[id |-> t.id, name |-> t.name] : t \in {s \in told' : s.pod = p}}
  <1>3. Seen(p) = (users[p] \cup A) \cup B /\ Seen(p)' = (users'[p] \cup A1) \cup B1
    BY DEF Seen
  <1> HIDE DEF A, B, A1, B1
  <1>4. QED
    BY <1>1, <1>2, <1>3 DEF A, B, A1, B1

\* All that is seen are users.
LEMMA SeenTyped ==
    ASSUME StateInv, NEW p \in Pod
    PROVE  Seen(p) \subseteq [id : Nat, name : Name]
  <1> SUFFICES ASSUME NEW u \in Seen(p) PROVE u \in [id : Nat, name : Name]
    OBVIOUS
  <1>1. CASE u \in users[p]
    BY <1>1 DEF StateInv
  <1>2. CASE \E r \in Request : pc[r] = "answer" /\ At(r) = p /\ u \in user[r]
    BY <1>2 DEF StateInv
  <1>3. CASE \E t \in told : t.pod = p /\ u = [id |-> t.id, name |-> t.name]
    <2>1. PICK t \in told : u = [id |-> t.id, name |-> t.name]
      BY <1>3
    <2>2. t.id \in Nat /\ t.name \in Name
      BY DEF StateInv
    <2>3. QED
      BY <2>1, <2>2
  <1>4. QED
    BY <1>1, <1>2, <1>3, SeenIs

\* Nothing new is seen.
LEMMA IdsStay ==
    ASSUME NEW p, IdInv(p), Seen(p)' \subseteq Seen(p),
           \A i : Used(p, i) => Used(p, i)',
           \A d \in deleted' : d[1] = p => d \in deleted \/ \E u \in users[p] : u.id = d[2]
    PROVE  IdInv(p)'
  BY DEF IdInv, Seen

\* What is seen if no answer is made and none is given.
LEMMA SeenStays ==
    ASSUME NEW p, users' = users, told' = told,
           \A r \in Request : pc'[r] = "answer" /\ call'[r].pod = p =>
                pc[r] = "answer" /\ call[r].pod = p /\ user'[r] = user[r]
    PROVE  Seen(p)' \subseteq Seen(p)
  BY DEF Seen, At

\* The map and what was told of it, if neither changes.
LEMMA MapStays ==
    ASSUME NEW p, MapInv(p), users' = users, told' = told, deleted' = deleted,
           \A r \in Request : pc'[r] = "answer" /\ call'[r].op = "post" /\ call'[r].pod = p =>
                pc[r] = "answer" /\ call[r].op = "post" /\ call[r].pod = p /\ user'[r] = user[r]
    PROVE  MapInv(p)'
  BY DEF MapInv, Kept, At, Op

\* Answers that are ready stay right while users are deleted.
LEMMA ReadsStay ==
    ASSUME ReadsCurrent, deleted \subseteq deleted',
           \A r \in Request : pc'[r] = "answer" /\ call'[r].op \in {"get", "list"} =>
                pc[r] = "answer" /\ call'[r] = call[r] /\ user'[r] = user[r] /\ before'[r] = before[r]
    PROVE  ReadsCurrent'
  BY DEF ReadsCurrent, At, Op

-----------------------------------------------------------------------------
(***************************************************************************)
(* Every step keeps the invariant.                                         *)
(***************************************************************************)
\* Nobody was created, nothing was asked.
LEMMA UserInit == Init => UserInv
  <1> SUFFICES ASSUME Init PROVE UserInv
    OBVIOUS
  <1>1. StateInv
    BY DEF Init, StateInv
  <1>2. \A r \in Request : HandlerInv(r) /\ BeforeInv(r)
    BY DEF Init, HandlerInv, BeforeInv, Active, Held
  <1>3. \A p \in Pod : IdInv(p) /\ MapInv(p)
    BY DEF Init, IdInv, MapInv, Seen
  <1>4. ReadsCurrent
    BY DEF Init, ReadsCurrent
  <1>5. QED
    BY <1>1, <1>2, <1>3, <1>4 DEF UserInv

\* A request arrives, with what was told so far.
LEMMA ArriveKeeps ==
    ASSUME UserInv, NEW r \in Request, Arrive(r)
    PROVE  UserInv'
  <1>1. PICK c \in Call :
          /\ call' = [call EXCEPT ![r] = c]
          /\ before' = [before EXCEPT ![r] =
                [told |-> {t \in told : t.pod = c.pod}, deleted |-> {d \in deleted : d[1] = c.pod}]]
    BY DEF Arrive, Call
  <1>2. StateInv'
    BY <1>1 DEF UserInv, StateInv, Arrive, store
  <1>3. \A q \in Request : HandlerInv(q)' /\ BeforeInv(q)'
    BY <1>1 DEF UserInv, StateInv, HandlerInv, BeforeInv, Active, Held, Arrive, store, At, Op
  <1>4. \A p \in Pod : IdInv(p)'
    <2> SUFFICES ASSUME NEW p \in Pod PROVE IdInv(p)'
      OBVIOUS
    <2>1. Seen(p)' \subseteq Seen(p)
      BY <1>1, SeenStays DEF UserInv, StateInv, Arrive, store
    <2>2. \A i : Used(p, i) => Used(p, i)'
      BY <1>1, UsedStays DEF UserInv, StateInv, Arrive, store
    <2>3. QED
      BY <2>1, <2>2, IdsStay DEF UserInv, Arrive
  <1>5. \A p \in Pod : MapInv(p)'
    BY <1>1, MapStays DEF UserInv, StateInv, Arrive, store
  <1>6. ReadsCurrent'
    BY <1>1, ReadsStay DEF UserInv, StateInv, Arrive
  <1>7. QED
    BY <1>2, <1>3, <1>4, <1>5, <1>6 DEF UserInv

\* A POST has the mutex.
LEMMA LockKeeps ==
    ASSUME UserInv, NEW r \in Request, Lock(r)
    PROVE  UserInv'
  <1>1. At(r) \in Pod
    BY DEF UserInv, HandlerInv, Active, Call, At, Lock
  <1>2. StateInv'
    BY <1>1 DEF UserInv, StateInv, Lock, Held, history
  <1>3. \A q \in Request : HandlerInv(q)' /\ BeforeInv(q)'
    BY <1>1, UserAssumption DEF UserInv, StateInv, HandlerInv, BeforeInv, Active, Held, Lock, history, At, Op
  <1>4. \A p \in Pod : IdInv(p)'
    <2> SUFFICES ASSUME NEW p \in Pod PROVE IdInv(p)'
      OBVIOUS
    <2>1. Seen(p)' \subseteq Seen(p)
      BY SeenStays DEF UserInv, StateInv, Lock, history
    <2>2. \A i : Used(p, i) => Used(p, i)'
      BY UsedStays DEF UserInv, StateInv, Lock, history
    <2>3. QED
      BY <2>1, <2>2, IdsStay DEF UserInv, Lock, history
  <1>5. \A p \in Pod : MapInv(p)'
    BY MapStays DEF UserInv, StateInv, Lock, history
  <1>6. ReadsCurrent'
    BY ReadsStay DEF UserInv, StateInv, Lock, history
  <1>7. QED
    BY <1>2, <1>3, <1>4, <1>5, <1>6 DEF UserInv

\* Of two handlers that hold a pod's mutex one is the other.
LEMMA OneHolder ==
    ASSUME UserInv, NEW q \in Request, NEW r \in Request,
           pc[q] \in Held, pc[r] \in Held, At(q) = At(r)
    PROVE  q = r
  BY DEF UserInv, HandlerInv

\* The counter is raised: no id that was used is the new one.
LEMMA IncrementKeeps ==
    ASSUME UserInv, NEW r \in Request, Increment(r)
    PROVE  UserInv'
  <1>1. At(r) \in Pod /\ pc[r] \in Held
    BY DEF UserInv, HandlerInv, Active, Call, At, Increment, Held
  <1>2. StateInv'
    BY <1>1 DEF UserInv, StateInv, Increment, Held, history
  <1>3. ASSUME NEW q \in Request PROVE HandlerInv(q)' /\ BeforeInv(q)'
    <2>1. pc[q] = "put" => At(q) # At(r)
      BY <1>1, OneHolder DEF Increment, Held
    <2>2. QED
      BY <1>1, <2>1 DEF UserInv, StateInv, HandlerInv, BeforeInv, Active, Held, Increment, history, At, Op
  <1>4. \A p \in Pod : IdInv(p)'
    <2> SUFFICES ASSUME NEW p \in Pod PROVE IdInv(p)'
      OBVIOUS
    <2>1. Seen(p)' \subseteq Seen(p)
      BY SeenStays DEF UserInv, StateInv, Increment, history
    <2>2. \A i \in Nat : Used(p, i) => Used(p, i)'
      BY <1>1 DEF UserInv, StateInv, Increment, Used, Minting, At, history
    <2>3. \A u \in Seen(p) : u.id \in Nat
      BY SeenTyped DEF UserInv
    <2>4. \A d \in deleted : d[2] \in Nat
      BY DEF UserInv, StateInv
    <2>5. IdInv(p) /\ deleted' = deleted
      BY DEF UserInv, Increment, history
    <2> HIDE DEF Used, Seen
    <2>6. QED
      BY <2>1, <2>2, <2>3, <2>4, <2>5 DEF IdInv
  <1>5. \A p \in Pod : MapInv(p)'
    BY MapStays DEF UserInv, StateInv, Increment, history
  <1>6. ReadsCurrent'
    BY ReadsStay DEF UserInv, StateInv, Increment, history
  <1>7. QED
    BY <1>2, <1>3, <1>4, <1>5, <1>6 DEF UserInv

\* The new user has the counter's value for an id.
LEMMA MintKeeps ==
    ASSUME UserInv, NEW r \in Request, Mint(r)
    PROVE  UserInv'
  <1>1. At(r) \in Pod /\ call[r].name \in Name
    BY DEF UserInv, HandlerInv, Active, Call, At, Op, Mint, Held
  <1>2. StateInv'
    BY <1>1 DEF UserInv, StateInv, Mint, Held, store, history
  <1>3. \A q \in Request : HandlerInv(q)' /\ BeforeInv(q)'
    BY <1>1 DEF UserInv, StateInv, HandlerInv, BeforeInv, Active, Held, Mint, store, history, At, Op
  <1>4. \A p \in Pod : IdInv(p)'
    <2> SUFFICES ASSUME NEW p \in Pod PROVE IdInv(p)'
      OBVIOUS
    <2>1. Seen(p)' \subseteq Seen(p)
      BY SeenStays DEF UserInv, StateInv, Mint, store, history
    <2>2. \A i : Used(p, i) => Used(p, i)'
      BY UsedStays DEF UserInv, StateInv, Mint, store, history
    <2>3. QED
      BY <2>1, <2>2, IdsStay DEF UserInv, Mint, history
  <1>5. \A p \in Pod : MapInv(p)'
    BY MapStays DEF UserInv, StateInv, Mint, store, history
  <1>6. ReadsCurrent'
    BY ReadsStay DEF UserInv, StateInv, Mint, history
  <1>7. QED
    BY <1>2, <1>3, <1>4, <1>5, <1>6 DEF UserInv

\* The new user goes into the map.  Nobody had the id, so nobody is replaced.
LEMMA PutKeeps ==
    ASSUME UserInv, NEW r \in Request, Put(r)
    PROVE  UserInv'
  <1>1. PICK at \in Pod : at = At(r)
    BY DEF UserInv, HandlerInv, Active, Call, At, Put
  <1>2. PICK new \in [id : Nat, name : Name] : new = [id |-> lastID[at], name |-> call[r].name]
    BY <1>1 DEF UserInv, StateInv, HandlerInv, Active, Call, At, Op, Put, Held
  <1>3. /\ at \in Pod /\ at = At(r) /\ Op(r) = "post" /\ new.id = lastID[at]
        /\ user[r] = {new} /\ new \in [id : Nat, name : Name]
    BY <1>1, <1>2 DEF UserInv, StateInv, HandlerInv, At, Op, Put, Held
  <1>4. Minting(at)
    BY <1>3 DEF Minting, Put
  <1>5. \A i \in Nat : Used(at, i) => i < lastID[at]
    BY <1>4 DEF Used
  <1>6. \A u \in Seen(at) : u.id # new.id
    <2>1. Seen(at) \subseteq [id : Nat, name : Name]
      BY <1>3, SeenTyped DEF UserInv
    <2>2. \A u \in Seen(at) : u.id < lastID[at]
      BY <1>3, <1>5, <2>1 DEF UserInv, IdInv
    <2>3. QED
      BY <1>3, <2>1, <2>2 DEF UserInv, StateInv
  <1>7. users' = [users EXCEPT ![at] = @ \cup {new}]
    <2>1. \A u \in users[at] : u.id # new.id
      BY <1>6 DEF Seen
    <2>2. {u \in users[at] : \A v \in user[r] : u.id # v.id} \cup user[r] = users[at] \cup {new}
      BY <1>3, <2>1
    <2>3. QED
      BY <1>3, <2>2 DEF Put
  <1>8. <<at, new.id>> \notin deleted
    <2>1. new.id \in Nat /\ ~(new.id < lastID[at])
      BY <1>3 DEF UserInv, StateInv
    <2>2. ~Used(at, new.id)
      BY <1>5, <2>1
    <2>3. QED
      BY <1>3, <2>2 DEF UserInv, IdInv
  <1>9. StateInv'
    BY <1>3, <1>7 DEF UserInv, StateInv, Put, Held, history
  <1>10. ASSUME NEW q \in Request PROVE HandlerInv(q)' /\ BeforeInv(q)'
    <2>1. q # r /\ pc[q] \in Held => At(q) # at
      BY <1>3, OneHolder DEF Put, Held
    <2>2. QED
      BY <1>3, <2>1 DEF UserInv, StateInv, HandlerInv, BeforeInv, Active, Held, Put, history, At, Op
  <1>11. ASSUME NEW p \in Pod PROVE IdInv(p)'
    <2>1. \A i : Used(p, i) => Used(p, i)'
      BY <1>3, UsedStays DEF UserInv, StateInv, Put, history
    <2>2. CASE p # at
      <3>1. Seen(p)' \subseteq Seen(p)
        BY <1>3, <1>7, <2>2 DEF UserInv, StateInv, Seen, Put, At, history
      <3>2. QED
        BY <2>1, <3>1, IdsStay DEF UserInv, Put, history
    <2>3. CASE p = at
      <3>1. Seen(p)' \subseteq Seen(p) \cup {new}
        BY <1>3, <1>7, <2>3 DEF UserInv, StateInv, Seen, Put, At, history
      <3>2. ~Minting(p)'
        <4>1. \A q \in Request : q # r /\ pc[q] \in {"mint", "put"} => At(q) # at
          BY <1>3, OneHolder DEF Put, Held
        <4>2. QED
          BY <2>3, <4>1 DEF UserInv, StateInv, Minting, Put, At
      <3>3. Used(p, new.id)'
        BY <1>3, <2>3, <3>2 DEF Used, Put
      <3>4. \A u, v \in Seen(p)' : u.id = v.id => u.name = v.name
        BY <1>6, <2>3, <3>1 DEF UserInv, IdInv
      <3>5. \A u \in Seen(p)' : Used(p, u.id)'
        <4>1. \A u \in Seen(p) : Used(p, u.id)
          BY DEF UserInv, IdInv
        <4>2. QED
          BY <2>1, <3>1, <3>3, <4>1
      <3>6. QED
        BY <2>1, <3>4, <3>5 DEF UserInv, IdInv, Put, history
    <2>4. QED
      BY <2>2, <2>3
  <1>12. ASSUME NEW p \in Pod PROVE MapInv(p)'
    <2>1. MapInv(p) /\ users[p] \subseteq users'[p] /\ told' = told /\ deleted' = deleted
      BY <1>7 DEF UserInv, StateInv, Put, history
    <2>2. \A u : Kept(p, u) => Kept(p, u)'
      BY <2>1 DEF Kept
    <2>3. \A u \in users'[p] : <<p, u.id>> \notin deleted
      BY <1>3, <1>7, <1>8, <2>1 DEF UserInv, StateInv, MapInv
    <2>4. ASSUME NEW q \in Request, pc'[q] = "answer", Op(q)' = "post", At(q)' = p, NEW u \in user'[q]
          PROVE  Kept(p, u)'
      <3>1. CASE q = r
        BY <1>3, <1>7, <2>4, <3>1 DEF UserInv, StateInv, Kept, Put, At
      <3>2. CASE q # r
        BY <2>1, <2>2, <2>4, <3>2 DEF UserInv, StateInv, MapInv, Put, At, Op
      <3>3. QED
        BY <3>1, <3>2
    <2>5. QED
      BY <2>1, <2>2, <2>3, <2>4 DEF MapInv
  <1>13. ReadsCurrent'
    BY <1>3, ReadsStay DEF UserInv, StateInv, Put, history, Op
  <1>14. QED
    BY <1>9, <1>10, <1>11, <1>12, <1>13 DEF UserInv

\* What a GET or a list reads of the map is what it answers.
LEMMA ReadKeeps ==
    ASSUME UserInv, NEW r \in Request, Get(r) \/ List(r)
    PROVE  UserInv'
  <1> DEFINE at == At(r)
             found == {u \in users[at] : Op(r) = "list" \/ u.id = call[r].id}
  <1>1. /\ at \in Pod /\ Op(r) \in {"get", "list"} /\ pc[r] = "lock"
        /\ user' = [user EXCEPT ![r] = found] /\ pc' = [pc EXCEPT ![r] = "answer"]
        /\ UNCHANGED <<store, call, history, restarts>>
    BY DEF UserInv, HandlerInv, Active, Call, At, Op, Get, List, Free
  <1>2. found \subseteq users[at] /\ found \subseteq [id : Nat, name : Name]
    BY <1>1 DEF UserInv, StateInv
  <1> HIDE DEF found
  <1>3. StateInv'
    BY <1>1, <1>2 DEF UserInv, StateInv, store, history, Held
  <1>4. \A q \in Request : HandlerInv(q)' /\ BeforeInv(q)'
    BY <1>1 DEF UserInv, StateInv, HandlerInv, BeforeInv, Active, Held, store, history, At, Op
  <1>5. ASSUME NEW p \in Pod PROVE IdInv(p)'
    <2>1. Seen(p)' \subseteq Seen(p)
      BY <1>1, <1>2 DEF UserInv, StateInv, Seen, store, history, At
    <2>2. \A i : Used(p, i) => Used(p, i)'
      BY <1>1, UsedStays DEF UserInv, StateInv, store, history
    <2>3. QED
      BY <1>1, <2>1, <2>2, IdsStay DEF UserInv, history
  <1>6. \A p \in Pod : MapInv(p)'
    BY <1>1, MapStays DEF UserInv, StateInv, store, history, Op
  <1>7. ReadsCurrent'
    <2> SUFFICES ASSUME NEW q \in Request, pc'[q] = "answer", Op(q)' \in {"get", "list"}
                 PROVE  /\ \A t \in before'[q].told :
                              Op(q)' = "list" \/ call'[q].id = t.id =>
                                  <<t.pod, t.id>> \in deleted' \/ [id |-> t.id, name |-> t.name] \in user'[q]
                        /\ \A u \in user'[q] : <<At(q)', u.id>> \notin before'[q].deleted
      BY DEF ReadsCurrent
    <2>1. CASE q # r
      BY <1>1, <2>1 DEF UserInv, StateInv, ReadsCurrent, history, At, Op
    <2>2. CASE q = r
      <3>1. /\ before'[q] = before[r] /\ user'[q] = found /\ call'[q] = call[r] /\ deleted' = deleted
            /\ before[r].told \subseteq {t \in told : t.pod = at}
            /\ before[r].deleted \subseteq {d \in deleted : d[1] = at}
        BY <1>1, <2>2 DEF UserInv, StateInv, BeforeInv, Active, history
      <3>2. ASSUME NEW t \in before[r].told, Op(r) = "list" \/ call[r].id = t.id
            PROVE  <<t.pod, t.id>> \in deleted \/ [id |-> t.id, name |-> t.name] \in found
        <4>1. t \in told /\ t.pod = at
          BY <3>1
        <4>2. Kept(at, [id |-> t.id, name |-> t.name])
          BY <1>1, <4>1 DEF UserInv, MapInv
        <4>3. QED
          BY <3>2, <4>1, <4>2 DEF Kept, found
      <3>3. \A u \in found : <<at, u.id>> \notin before[r].deleted
        BY <1>1, <1>2, <3>1 DEF UserInv, MapInv
      <3>4. QED
        BY <2>2, <3>1, <3>2, <3>3 DEF At, Op
    <2>3. QED
      BY <2>1, <2>2
  <1>8. QED
    BY <1>3, <1>4, <1>5, <1>6, <1>7 DEF UserInv

\* A user is taken out of the map, and so is deleted.
LEMMA DeleteKeeps ==
    ASSUME UserInv, NEW r \in Request, Delete(r)
    PROVE  UserInv'
  <1> DEFINE at == At(r)
             gone == {u \in users[at] : u.id = call[r].id}
  <1>1. /\ at \in Pod /\ Op(r) = "delete" /\ pc[r] = "lock" /\ user[r] = {}
        /\ users' = [users EXCEPT ![at] = {u \in @ : u.id # call[r].id}]
        /\ deleted' = deleted \cup {<<at, u.id>> : u \in gone}
        /\ pc' = [pc EXCEPT ![r] = "answer"]
        /\ UNCHANGED <<lastID, mu, call, user, told, before, restarts>>
    BY DEF UserInv, HandlerInv, Active, Call, At, Op, Delete, Free
  <1>2. StateInv'
    <2>1. users' \in [Pod -> SUBSET [id : Nat, name : Name]]
      BY <1>1 DEF UserInv, StateInv
    <2>2. deleted' \subseteq Pod \X Nat
      BY <1>1 DEF UserInv, StateInv
    <2>3. QED
      BY <1>1, <2>1, <2>2 DEF UserInv, StateInv, Held
  <1>3. \A q \in Request : HandlerInv(q)' /\ BeforeInv(q)'
    BY <1>1 DEF UserInv, StateInv, HandlerInv, BeforeInv, Active, Held, At, Op
  <1>4. ASSUME NEW p \in Pod PROVE IdInv(p)'
    <2>1. Seen(p)' \subseteq Seen(p)
      BY <1>1 DEF UserInv, StateInv, Seen, At
    <2>2. \A i : Used(p, i) => Used(p, i)'
      BY <1>1, UsedStays DEF UserInv, StateInv
    <2>3. \A d \in deleted' : d[1] = p => d \in deleted \/ \E u \in users[p] : u.id = d[2]
      BY <1>1
    <2>4. QED
      BY <2>1, <2>2, <2>3, IdsStay DEF UserInv
  <1>5. ASSUME NEW p \in Pod PROVE MapInv(p)'
    <2>1. \A u : Kept(p, u) => Kept(p, u)'
      BY <1>1 DEF UserInv, StateInv, Kept
    <2>2. \A u \in users'[p] : <<p, u.id>> \notin deleted'
      BY <1>1 DEF UserInv, StateInv, MapInv
    <2>3. QED
      BY <1>1, <2>1, <2>2 DEF UserInv, StateInv, MapInv, At, Op
  <1>6. ReadsCurrent'
    BY <1>1, ReadsStay DEF UserInv, StateInv, Op
  <1>7. QED
    BY <1>2, <1>3, <1>4, <1>5, <1>6 DEF UserInv

\* A client is told of his user, who is in the map unless deleted already.
LEMMA AnswerKeeps ==
    ASSUME UserInv, NEW r \in Request, Answer(r)
    PROVE  UserInv'
  <1> DEFINE at == At(r)
             said == IF Op(r) = "post" THEN {[pod |-> at, id |-> u.id, name |-> u.name] : u \in user[r]} ELSE {}
  <1>1. /\ at \in Pod /\ pc[r] = "answer"
        /\ told' = told \cup said
        /\ pc' = [pc EXCEPT ![r] = "idle"] /\ call' = [call EXCEPT ![r] = NoCall]
        /\ user' = [user EXCEPT ![r] = {}] /\ before' = [before EXCEPT ![r] = Nothing]
        /\ UNCHANGED <<store, deleted, restarts>>
    BY DEF UserInv, HandlerInv, Active, Call, At, Answer
  <1>2. \A u \in user[r] : u \in [id : Nat, name : Name] /\ u = [id |-> u.id, name |-> u.name]
    BY DEF UserInv, StateInv
  <1>3. said \subseteq [pod : Pod, id : Nat, name : Name]
    BY <1>1, <1>2
  <1>4. StateInv'
    BY <1>1, <1>3 DEF UserInv, StateInv, store, Held
  <1>5. \A q \in Request : HandlerInv(q)' /\ BeforeInv(q)'
    BY <1>1 DEF UserInv, StateInv, HandlerInv, BeforeInv, Active, Held, store, At, Op
  <1>6. ASSUME NEW t \in said
        PROVE  /\ t.pod = at /\ [id |-> t.id, name |-> t.name] \in user[r] /\ Op(r) = "post"
    BY <1>2
  <1> HIDE DEF said
  <1>7. ASSUME NEW p \in Pod PROVE IdInv(p)'
    <2>1. Seen(p)' \subseteq Seen(p)
      <3>1. \A q \in Request : pc'[q] = "answer" =>
              pc[q] = "answer" /\ call'[q] = call[q] /\ user'[q] = user[q]
        BY <1>1 DEF UserInv, StateInv
      <3>2. \A t \in said : t.pod = p => [id |-> t.id, name |-> t.name] \in Seen(p)
        BY <1>1, <1>6, SeenIs
      <3>3. users' = users
        BY <1>1 DEF store
      <3>4. ASSUME NEW u \in Seen(p)' PROVE u \in Seen(p)
        <4>1. CASE u \in users'[p]
          BY <3>3, <4>1, SeenIs
        <4>2. CASE \E q \in Request : pc'[q] = "answer" /\ At(q)' = p /\ u \in user'[q]
          BY <3>1, <4>2, SeenIs DEF At
        <4>3. CASE \E t \in told' : t.pod = p /\ u = [id |-> t.id, name |-> t.name]
          BY <1>1, <3>2, <4>3, SeenIs
        <4>4. QED
          BY <3>4, <4>1, <4>2, <4>3, SeenIs
      <3>5. QED
        BY <3>4
    <2>2. \A i : Used(p, i) => Used(p, i)'
      BY <1>1, UsedStays DEF UserInv, StateInv, store
    <2>3. QED
      BY <1>1, <2>1, <2>2, IdsStay DEF UserInv
  <1>8. ASSUME NEW p \in Pod PROVE MapInv(p)'
    <2>1. \A u : Kept(p, u)' = Kept(p, u)
      BY <1>1 DEF Kept, store
    <2>2. \A t \in told' : t.pod = p => Kept(p, [id |-> t.id, name |-> t.name])
      BY <1>1, <1>6 DEF UserInv, MapInv
    <2>3. QED
      BY <1>1, <2>1, <2>2 DEF UserInv, StateInv, MapInv, store, At, Op
  <1>9. ReadsCurrent'
    BY <1>1, ReadsStay DEF UserInv, StateInv
  <1>10. QED
    BY <1>4, <1>5, <1>7, <1>8, <1>9 DEF UserInv

\* A pod begins a new life, in which nothing was said, asked or deleted.
LEMMA RestartKeeps ==
    ASSUME UserInv, NEW p \in Pod, Restart(p)
    PROVE  UserInv'
  <1> DEFINE cut == {r \in Request : Active(r) /\ At(r) = p}
  <1>1. /\ pc' = [r \in Request |-> IF r \in cut THEN "idle" ELSE pc[r]]
        /\ call' = [r \in Request |-> IF r \in cut THEN NoCall ELSE call[r]]
        /\ user' = [r \in Request |-> IF r \in cut THEN {} ELSE user[r]]
        /\ before' = [r \in Request |-> IF r \in cut THEN Nothing ELSE before[r]]
    BY DEF Restart, Active
  <1>2. /\ users' = [users EXCEPT ![p] = {}] /\ lastID' = [lastID EXCEPT ![p] = 0]
        /\ mu' = [mu EXCEPT ![p] = Nobody]
        /\ told' = {t \in told : t.pod # p} /\ deleted' = {d \in deleted : d[1] # p}
    BY DEF Restart
  <1>3. \A r \in Request :
          \/ pc'[r] = "idle" /\ call'[r] = NoCall /\ user'[r] = {} /\ before'[r] = Nothing
          \/ /\ pc[r] # "idle" /\ At(r) # p
             /\ pc'[r] = pc[r] /\ call'[r] = call[r] /\ user'[r] = user[r] /\ before'[r] = before[r]
          \/ /\ pc[r] = "idle" /\ pc'[r] = "idle" /\ call'[r] = call[r]
             /\ user'[r] = user[r] /\ before'[r] = before[r]
    BY <1>1 DEF Active
  <1>4. StateInv'
    <2>1. /\ users' \in [Pod -> SUBSET [id : Nat, name : Name]] /\ lastID' \in [Pod -> Nat]
          /\ mu' \in [Pod -> Request \cup {Nobody}]
          /\ told' \subseteq [pod : Pod, id : Nat, name : Name] /\ deleted' \subseteq Pod \X Nat
      BY <1>2 DEF UserInv, StateInv
    <2>2. /\ pc' \in [Request -> {"idle", "lock", "answer"} \cup Held]
          /\ call' \in [Request -> Call \cup {NoCall}]
          /\ user' \in [Request -> SUBSET [id : Nat, name : Name]] /\ DOMAIN before' = Request
      BY <1>1 DEF UserInv, StateInv
    <2>3. QED
      BY <2>1, <2>2 DEF StateInv
  <1> HIDE DEF cut
  <1>5. ASSUME NEW r \in Request PROVE HandlerInv(r)' /\ BeforeInv(r)'
    <2>1. CASE pc'[r] = "idle"
      BY <1>3, <2>1 DEF UserInv, HandlerInv, BeforeInv, Active, Held
    <2>2. CASE pc'[r] # "idle"
      <3>1. /\ pc[r] # "idle" /\ At(r) # p /\ At(r) \in Pod
            /\ pc'[r] = pc[r] /\ call'[r] = call[r] /\ user'[r] = user[r] /\ before'[r] = before[r]
        BY <1>3, <2>2 DEF UserInv, HandlerInv, Active, Call, At
      <3>2. HandlerInv(r)'
        BY <1>2, <3>1 DEF UserInv, StateInv, HandlerInv, Active, At, Op
      <3>3. BeforeInv(r)'
        BY <1>2, <3>1 DEF UserInv, BeforeInv, Active, At
      <3>4. QED
        BY <3>2, <3>3
    <2>3. QED
      BY <2>1, <2>2
  <1>6. ASSUME NEW o \in Pod PROVE IdInv(o)' /\ MapInv(o)'
    <2>1. CASE o = p
      <3>1. users'[o] = {} /\ \A t \in told' : t.pod # o
        BY <1>2, <2>1 DEF UserInv, StateInv
      <3>2. \A d \in deleted' : d[1] # o
        BY <1>2, <2>1
      <3>3. \A r \in Request : pc'[r] = "answer" => call'[r].pod # o
        BY <1>3, <2>1 DEF At
      <3>4. Seen(o)' = {}
        BY <3>1, <3>3 DEF Seen, At
      <3>5. QED
        BY <3>1, <3>2, <3>3, <3>4 DEF IdInv, MapInv, At
    <2>2. CASE o # p
      <3>1. users'[o] = users[o] /\ lastID'[o] = lastID[o]
        BY <1>2, <2>2 DEF UserInv, StateInv
      <3>2. \A r \in Request : pc'[r] # "idle" =>
              pc[r] = pc'[r] /\ call'[r] = call[r] /\ user'[r] = user[r]
        BY <1>3
      <3>3. Seen(o)' \subseteq Seen(o)
        BY <1>2, <3>1, <3>2 DEF Seen, At
      <3>4. \A i : Used(o, i) => Used(o, i)'
        BY <3>1, <3>2 DEF Used, Minting, At
      <3>5. IdInv(o)'
        BY <1>2, <3>3, <3>4, IdsStay DEF UserInv
      <3>6. \A u : Kept(o, u) => Kept(o, u)'
        BY <1>2, <2>2, <3>1 DEF Kept
      <3>7. MapInv(o)'
        BY <1>2, <3>1, <3>2, <3>6 DEF UserInv, MapInv, At, Op
      <3>8. QED
        BY <3>5, <3>7
    <2>3. QED
      BY <2>1, <2>2
  <1>7. ReadsCurrent'
    <2> SUFFICES ASSUME NEW r \in Request, pc'[r] = "answer", Op(r)' \in {"get", "list"}
                 PROVE  /\ \A t \in before'[r].told :
                              Op(r)' = "list" \/ call'[r].id = t.id =>
                                  <<t.pod, t.id>> \in deleted' \/ [id |-> t.id, name |-> t.name] \in user'[r]
                        /\ \A u \in user'[r] : <<At(r)', u.id>> \notin before'[r].deleted
      BY DEF ReadsCurrent
    <2>1. /\ pc[r] = "answer" /\ At(r) # p
          /\ call'[r] = call[r] /\ user'[r] = user[r] /\ before'[r] = before[r]
      BY <1>3
    <2>2. \A t \in before[r].told : t.pod = At(r)
      BY <2>1 DEF UserInv, BeforeInv, Active
    <2>3. \A t \in before[r].told : <<t.pod, t.id>> \in deleted => <<t.pod, t.id>> \in deleted'
      BY <1>2, <2>1, <2>2
    <2>4. QED
      BY <2>1, <2>3 DEF UserInv, ReadsCurrent, At, Op
  <1>8. QED
    BY <1>4, <1>5, <1>6, <1>7 DEF UserInv

\* Every step keeps the invariant.
LEMMA UserNext == UserInv /\ [Next]_vars => UserInv'
  <1> SUFFICES ASSUME UserInv, [Next]_vars PROVE UserInv'
    OBVIOUS
  <1>1. CASE UNCHANGED vars
    <2>1. /\ UNCHANGED <<users, lastID, mu, pc, call, user>>
          /\ UNCHANGED <<told, deleted, before>>
      BY <1>1 DEF vars, store, handler, history
    <2>2. StateInv'
      BY <2>1 DEF UserInv, StateInv
    <2>3. \A r \in Request : HandlerInv(r)' /\ BeforeInv(r)'
      BY <2>1 DEF UserInv, HandlerInv, BeforeInv, Active, At, Op
    <2>4. \A p \in Pod : Seen(p)' \subseteq Seen(p) /\ \A i : Used(p, i) => Used(p, i)'
      BY <2>1, SeenStays, UsedStays
    <2>5. \A p \in Pod : IdInv(p)'
      BY <2>1, <2>4, IdsStay DEF UserInv
    <2>6. \A p \in Pod : MapInv(p)'
      BY <2>1, MapStays DEF UserInv
    <2>7. ReadsCurrent'
      BY <2>1, ReadsStay DEF UserInv
    <2>8. QED
      BY <2>2, <2>3, <2>5, <2>6, <2>7 DEF UserInv
  <1>2. ASSUME NEW r \in Request, Arrive(r) \/ Handle(r) PROVE UserInv'
    BY <1>2, ArriveKeeps, LockKeeps, IncrementKeeps, MintKeeps, PutKeeps, ReadKeeps, DeleteKeeps,
       AnswerKeeps DEF Handle
  <1>3. QED
    BY <1>1, <1>2, RestartKeeps DEF Next

\* UserInv holds in every state: whatever handlers of a pod run beside each other, ids
\* are made once in a life of the pod, and its map has all who were created and are
\* not deleted.
THEOREM UserInvariance == Spec => []UserInv
  BY UserInit, UserNext, PTL DEF Spec

-----------------------------------------------------------------------------
\* Whoever was told of, is in the map or is an answer, is seen.
LEMMA IdsFollow == UserInv => IdsStayTheirs
  <1> SUFFICES ASSUME UserInv, NEW t \in told
               PROVE  /\ \A u \in users[t.pod] : u.id = t.id => u.name = t.name
                      /\ \A r \in Request : pc[r] = "answer" /\ At(r) = t.pod =>
                            \A u \in user[r] : u.id = t.id => u.name = t.name
    BY DEF IdsStayTheirs
  <1>1. t.pod \in Pod
    BY DEF UserInv, StateInv
  <1>2. [id |-> t.id, name |-> t.name] \in Seen(t.pod)
    BY SeenIs
  <1>3. \A u \in Seen(t.pod) : u.id = t.id => u.name = t.name
    BY <1>1, <1>2 DEF UserInv, IdInv
  <1>4. QED
    BY <1>3, SeenIs

\* An id that a client was told means his user or nobody, as long as the pod lives.
THEOREM IdsMeanOne == Spec => []IdsStayTheirs
  BY UserInvariance, IdsFollow, PTL

\* A GET shows all who were created before it and are not deleted, and nobody who
\* had been deleted.
THEOREM ReadsAreCurrent == Spec => []ReadsCurrent
  BY UserInvariance, PTL DEF UserInv
=============================================================================
