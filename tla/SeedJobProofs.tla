--------------------------- MODULE SeedJobProofs ---------------------------
(***************************************************************************)
(* Proofs about the db-init Job for any number of pods, statements in the  *)
(* dump, retries and applies.                                              *)
(***************************************************************************)
EXTENDS SeedJob, TLAPS

(***************************************************************************)
(* The inductive invariant.                                                *)
(***************************************************************************)
\* A session that has sent statements has still to commit them, and nobody has
\* committed before it: its locks keep every other session from inserting.
SessionInv(p) ==
    /\ sent[p] > 0 => pc[p] \in {"load", "commit"} /\ users = {}
    /\ pc[p] = "load" => sent[p] < Statements
    /\ pc[p] = "commit" => sent[p] = Statements

OneSession == \A p, q \in Pod : sent[p] > 0 /\ sent[q] > 0 => p = q

OneManaged == \A p, q \in Pod : Managed(p) /\ Managed(q) => p = q

\* What is there by the time a container reaches a step.
AfterUser == {"product table", "find index", "add index", "count", "load",
              "commit", "conflict", "exit"}
AfterProduct == AfterUser \ {"product table"}
AfterIndex == AfterProduct \ {"find index", "add index"}

StepInv(p) ==
    /\ pc[p] \in AfterUser => "user" \in tables
    /\ pc[p] \in AfterProduct => "product" \in tables
    /\ pc[p] \in AfterIndex => indexed
    /\ pc[p] = "exit" => users = Dump
    /\ pc[p] = "load" /\ users # {} => lost # {}
    /\ pc[p] = "conflict" => lost # {}

SeedInv ==
    /\ TypeOK
    /\ SeededWhole
    /\ \A p \in Pod : SessionInv(p) /\ StepInv(p)
    /\ OneSession
    /\ OneManaged
    /\ CompleteIsSeeded

-----------------------------------------------------------------------------
(***************************************************************************)
(* Steps that leave the database alone.                                    *)
(***************************************************************************)
\* How a failed container leaves its pod.
LEMMA FailsFacts ==
    ASSUME TypeOK, NEW p \in Pod, pc[p] \in Running, Fails(p)
    PROVE  /\ sent' = [sent EXCEPT ![p] = 0]
           /\ pc' \in [Pod -> Running \cup {"new", "over"}]
           /\ pc'[p] \in {"fetch", "wait", "over"}
           /\ \A q \in Pod : q # p => pc'[q] = pc[q] /\ sent'[q] = sent[q]
           /\ sent'[p] = 0
           /\ sent' \in [Pod -> 0 .. Statements]
           /\ job' = job \/ job' = "failed"
           /\ restarts' \in Nat
  <1>1. 0 \in 0 .. Statements
    BY JobAssumption
  <1>2. sent' = [sent EXCEPT ![p] = 0] /\ sent' \in [Pod -> 0 .. Statements]
    BY <1>1 DEF TypeOK, Fails
  <1>3. \E s \in {"fetch", "wait", "over"} : pc' = [pc EXCEPT ![p] = s]
    BY DEF Fails, GoTo, Again
  <1>4. (job' = job \/ job' = "failed") /\ restarts' \in Nat
    BY DEF Fails, TypeOK
  <1>5. QED
    BY <1>2, <1>3, <1>4 DEF TypeOK, Running

\* A session counts statements.
LEMMA SentFacts ==
    ASSUME TypeOK, NEW p \in Pod, SessionInv(p)
    PROVE  /\ sent[p] \in Nat
           /\ pc[p] \notin {"load", "commit"} => sent[p] = 0
  <1>1. sent[p] \in 0 .. Statements
    BY DEF TypeOK
  <1>2. sent[p] \in Nat
    BY <1>1, JobAssumption
  <1>3. QED
    BY <1>2 DEF SessionInv

\* A pod that is not at a late step, and has nothing open, keeps the invariant.
LEMMA PodMoves ==
    ASSUME SeedInv, NEW p \in Pod, UNCHANGED <<database, lost, applies>>, TypeOK',
           pc[p] \in Running,
           \A q \in Pod : q # p => pc'[q] = pc[q] /\ sent'[q] = sent[q],
           sent'[p] = 0, pc'[p] # "commit", StepInv(p)',
           job' = "complete" => job = "complete"
    PROVE  SeedInv'
  <1>1. SeededWhole' /\ CompleteIsSeeded'
    BY DEF SeedInv, SeededWhole, CompleteIsSeeded, database
  <1>2. \A q \in Pod : SessionInv(q)' /\ StepInv(q)'
    <2>1. SessionInv(p)'
      BY JobAssumption DEF SessionInv
    <2>2. ASSUME NEW q \in Pod, q # p PROVE SessionInv(q)' /\ StepInv(q)'
      BY <2>2 DEF SeedInv, SessionInv, StepInv, database
    <2>3. QED
      BY <2>1, <2>2
  <1>3. OneSession'
    BY DEF SeedInv, OneSession
  <1>4. OneManaged'
    BY DEF SeedInv, OneManaged, Managed
  <1>5. QED
    BY <1>1, <1>2, <1>3, <1>4 DEF SeedInv

\* Fetching, waiting, looking and counting.
LEMMA QuietStep ==
    ASSUME SeedInv, NEW p \in Pod, Fetch(p) \/ WaitForDB(p) \/ FindIndex(p) \/ Count(p)
    PROVE  SeedInv'
  <1> TypeOK /\ SessionInv(p) /\ StepInv(p)
    BY DEF SeedInv
  <1> USE DEF Fetch, WaitForDB, FindIndex, Count, GoTo, cluster, database
  <1>1. TypeOK'
    BY DEF TypeOK, Running
  <1>2. pc[p] \in Running /\ pc'[p] # "commit" /\ sent'[p] = 0
    BY SentFacts DEF TypeOK, Running
  <1>3. StepInv(p)'
    BY DEF SeedInv, SeededWhole, TypeOK, StepInv, AfterUser, AfterProduct, AfterIndex
  <1>4. \A q \in Pod : q # p => pc'[q] = pc[q] /\ sent'[q] = sent[q]
    BY DEF TypeOK
  <1>5. QED
    BY <1>1, <1>2, <1>3, <1>4, PodMoves

\* A container that fails, for whatever reason.
LEMMA FailStep ==
    ASSUME SeedInv, NEW p \in Pod, Fail(p) \/ GiveUp(p)
    PROVE  SeedInv'
  <1> TypeOK
    BY DEF SeedInv
  <1>1. pc[p] \in Running /\ Fails(p) /\ UNCHANGED <<database, lost, applies>>
    BY DEF Fail, GiveUp, Running
  <1>2. TypeOK'
    BY <1>1, FailsFacts DEF TypeOK, database
  <1>3. StepInv(p)'
    BY <1>1, FailsFacts DEF StepInv, AfterUser, AfterProduct, AfterIndex
  <1>4. QED
    BY <1>1, <1>2, <1>3, FailsFacts, PodMoves

-----------------------------------------------------------------------------
(***************************************************************************)
(* Steps that change the database.                                         *)
(***************************************************************************)
\* Tables and the index are only ever added.
LEMMA SchemaStep ==
    ASSUME SeedInv, NEW p \in Pod, CreateUserTable(p) \/ CreateProductTable(p) \/ AddIndex(p)
    PROVE  SeedInv'
  <1> TypeOK /\ SessionInv(p) /\ StepInv(p)
    BY DEF SeedInv
  <1>1. /\ tables \subseteq tables' /\ tables' \subseteq {"user", "product"}
        /\ indexed' \in BOOLEAN /\ (indexed => indexed')
        /\ UNCHANGED <<users, lost, applies>>
    BY DEF CreateUserTable, CreateProductTable, AddIndex, GoTo, cluster, TypeOK
  <1>2. pc[p] \in Running /\ sent[p] = 0
    BY SentFacts DEF CreateUserTable, CreateProductTable, AddIndex, Running
  <1>3. /\ pc' \in [Pod -> Running \cup {"new", "over"}]
        /\ sent' \in [Pod -> 0 .. Statements]
        /\ \A q \in Pod : q # p => pc'[q] = pc[q] /\ sent'[q] = sent[q]
        /\ sent'[p] = 0
        /\ job' = job \/ job' = "failed"
        /\ restarts' \in Nat
    <2>1. CASE Fails(p)
      BY <1>2, <2>1, FailsFacts
    <2>2. CASE UNCHANGED <<sent, job, restarts>> /\ \E s \in Running : GoTo(p, s)
      BY <1>2, <2>2 DEF GoTo, TypeOK
    <2>3. QED
      BY <2>1, <2>2 DEF CreateUserTable, CreateProductTable, AddIndex, cluster, Running
  <1>4. TypeOK'
    BY <1>1, <1>3 DEF TypeOK
  <1>5. pc'[p] # "commit" /\ StepInv(p)'
    <2>1. CASE Fails(p) /\ pc[p] = "add index"
      BY <1>2, <2>1, FailsFacts DEF StepInv, AfterUser, AfterProduct, AfterIndex
    <2>2. CASE CreateUserTable(p)
      BY <2>2 DEF CreateUserTable, GoTo, TypeOK, StepInv, AfterUser, AfterProduct, AfterIndex
    <2>3. CASE CreateProductTable(p)
      BY <2>3 DEF CreateProductTable, GoTo, TypeOK, StepInv, AfterUser, AfterProduct, AfterIndex
    <2>4. CASE AddIndex(p) /\ indexed' /\ GoTo(p, "count") /\ UNCHANGED tables
      BY <2>4 DEF AddIndex, GoTo, TypeOK, StepInv, AfterUser, AfterProduct, AfterIndex
    <2>5. QED
      BY <2>1, <2>2, <2>3, <2>4 DEF AddIndex
  <1>6. \A q \in Pod : SessionInv(q)' /\ StepInv(q)'
    <2>1. ASSUME NEW q \in Pod, q # p PROVE SessionInv(q)' /\ StepInv(q)'
      <3>1. SessionInv(q) /\ StepInv(q)
        BY DEF SeedInv
      <3>2. QED
        BY <1>1, <1>3, <2>1, <3>1 DEF SessionInv, StepInv
    <2>2. SessionInv(p)'
      BY <1>3, <1>5, JobAssumption DEF SessionInv
    <2>3. QED
      BY <1>5, <2>1, <2>2
  <1>7. SeededWhole' /\ OneSession' /\ OneManaged'
    BY <1>1, <1>2, <1>3 DEF SeedInv, SeededWhole, OneSession, OneManaged, Managed
  <1>8. CompleteIsSeeded'
    BY <1>1, <1>3, <1>4 DEF SeedInv, CompleteIsSeeded, TypeOK
  <1>9. QED
    BY <1>4, <1>6, <1>7, <1>8 DEF SeedInv

\* A statement of the dump waits for the other sessions' locks, so only one
\* session ever has rows of its own.
LEMMA LoadStep ==
    ASSUME SeedInv, NEW p \in Pod, Load(p)
    PROVE  SeedInv'
  <1> TypeOK /\ SessionInv(p) /\ StepInv(p) /\ SeededWhole
    BY DEF SeedInv
  <1> UNCHANGED <<tables, indexed, users, lost, job, restarts, applies>> /\ pc[p] = "load"
    BY DEF Load, database, cluster
  <1>1. sent[p] \in Nat /\ sent[p] < Statements /\ Statements \in Nat
    BY JobAssumption DEF TypeOK, SessionInv
  <1>2. CASE /\ sent[p] + 1 \notin users
             /\ sent' = [sent EXCEPT ![p] = @ + 1]
             /\ GoTo(p, IF sent[p] + 1 = Statements THEN "commit" ELSE "load")
    <2>1. users = {}
      BY <1>1, <1>2 DEF SeededWhole, Dump
    <2>2. \A q \in Pod : q # p => sent[q] = 0
      <3>1. CASE sent[p] > 0
        BY <3>1 DEF SeedInv, OneSession, TypeOK
      <3>2. CASE sent[p] = 0
        BY <3>2 DEF Load, TypeOK
      <3>3. QED
        BY <1>1, <3>1, <3>2
    <2>3. /\ sent'[p] = sent[p] + 1
          /\ pc'[p] = IF sent[p] + 1 = Statements THEN "commit" ELSE "load"
          /\ \A q \in Pod : q # p => pc'[q] = pc[q] /\ sent'[q] = sent[q]
      BY <1>2 DEF GoTo, TypeOK
    <2>4. TypeOK'
      <3>1. sent[p] + 1 \in 0 .. Statements
        BY <1>1
      <3>2. QED
        BY <1>2, <3>1 DEF TypeOK, GoTo, Running
    <2>5. \A q \in Pod : SessionInv(q)' /\ StepInv(q)'
      <3>1. ASSUME NEW q \in Pod, q # p PROVE SessionInv(q)' /\ StepInv(q)'
        BY <2>3, <3>1 DEF SeedInv, SessionInv, StepInv
      <3>2. SessionInv(p)'
        BY <1>1, <2>1, <2>3 DEF SessionInv
      <3>3. StepInv(p)'
        BY <2>1, <2>3 DEF StepInv, AfterUser, AfterProduct, AfterIndex
      <3>4. QED
        BY <3>1, <3>2, <3>3
    <2>6. OneSession'
      BY <2>2, <2>3 DEF OneSession
    <2>7. OneManaged'
      BY <2>3 DEF SeedInv, OneManaged, Managed, Running
    <2>8. SeededWhole' /\ CompleteIsSeeded'
      BY DEF SeedInv, SeededWhole, CompleteIsSeeded
    <2>9. QED
      BY <2>4, <2>5, <2>6, <2>7, <2>8 DEF SeedInv
  <1>3. CASE sent[p] + 1 \in users /\ GoTo(p, "conflict") /\ UNCHANGED sent
    <2>1. sent[p] = 0 /\ lost # {}
      BY <1>1, <1>3 DEF SessionInv, StepInv
    <2>2. pc'[p] = "conflict" /\ \A q \in Pod : q # p => pc'[q] = pc[q] /\ sent'[q] = sent[q]
      BY <1>3 DEF GoTo, TypeOK
    <2>3. TypeOK'
      BY <1>3 DEF TypeOK, GoTo, Running
    <2>4. StepInv(p)'
      BY <2>1, <2>2 DEF StepInv, AfterUser, AfterProduct, AfterIndex
    <2>5. pc[p] \in Running /\ sent'[p] = 0 /\ UNCHANGED database
      BY <1>3, <2>1 DEF Running, database
    <2>6. QED
      BY <2>2, <2>3, <2>4, <2>5, PodMoves
  <1>4. QED
    BY <1>2, <1>3 DEF Load

\* A commit makes the table whole, and whoever counted before and has yet to
\* load is another pod: one of the two is lost.
LEMMA CommitStep ==
    ASSUME SeedInv, NEW p \in Pod, Commit(p)
    PROVE  SeedInv'
  <1> TypeOK /\ SessionInv(p) /\ StepInv(p) /\ SeededWhole
    BY DEF SeedInv
  <1> UNCHANGED <<tables, indexed, lost, applies>> /\ pc[p] = "commit" /\ pc[p] \in Running
    BY DEF Commit, Running
  <1>1. sent[p] = Statements /\ sent[p] > 0 /\ users' = Dump
    <2>1. sent[p] = Statements /\ sent[p] > 0
      BY JobAssumption DEF SessionInv
    <2>2. users = {}
      BY <2>1 DEF SessionInv
    <2>3. QED
      BY <2>1, <2>2 DEF Commit, Dump
  <1>2. \A q \in Pod : q # p => sent[q] = 0
    BY <1>1, JobAssumption DEF SeedInv, OneSession, TypeOK
  <1>3. /\ pc' \in [Pod -> Running \cup {"new", "over"}]
        /\ pc'[p] \in {"exit", "fetch", "wait", "over"}
        /\ sent' \in [Pod -> 0 .. Statements]
        /\ \A q \in Pod : q # p => pc'[q] = pc[q] /\ sent'[q] = sent[q]
        /\ sent'[p] = 0
        /\ job' = job \/ job' = "failed"
        /\ restarts' \in Nat
    <2>1. CASE Fails(p)
      BY <2>1, FailsFacts
    <2>2. CASE sent' = [sent EXCEPT ![p] = 0] /\ GoTo(p, "exit") /\ UNCHANGED <<job, restarts>>
      <3>1. 0 \in 0 .. Statements
        BY JobAssumption
      <3>2. QED
        BY <2>2, <3>1 DEF GoTo, TypeOK, Running
    <2>3. QED
      BY <2>1, <2>2 DEF Commit
  <1>4. TypeOK'
    BY <1>1, <1>3 DEF TypeOK
  <1>5. ASSUME NEW q \in Pod, q # p, pc[q] = "load" PROVE lost # {}
    <2>1. Managed(p) /\ Managed(q) => p = q
      BY DEF SeedInv, OneManaged
    <2>2. QED
      BY <1>5, <2>1 DEF Managed, Running
  <1>6. \A q \in Pod : SessionInv(q)' /\ StepInv(q)'
    <2>1. ASSUME NEW q \in Pod, q # p PROVE SessionInv(q)' /\ StepInv(q)'
      <3>1. SessionInv(q) /\ StepInv(q) /\ sent[q] = 0
        BY <1>2, <2>1 DEF SeedInv
      <3>2. SessionInv(q)'
        BY <1>3, <2>1, <3>1 DEF SessionInv
      <3>3. StepInv(q)'
        BY <1>1, <1>3, <1>5, <2>1, <3>1 DEF StepInv
      <3>4. QED
        BY <3>2, <3>3
    <2>2. SessionInv(p)'
      BY <1>3 DEF SessionInv
    <2>3. StepInv(p)'
      BY <1>1, <1>3 DEF StepInv, AfterUser, AfterProduct, AfterIndex
    <2>4. QED
      BY <2>1, <2>2, <2>3
  <1>7. SeededWhole' /\ OneSession' /\ OneManaged'
    BY <1>1, <1>2, <1>3 DEF SeedInv, SeededWhole, OneSession, OneManaged, Managed
  <1>8. CompleteIsSeeded'
    BY <1>1, <1>3, <1>4 DEF SeedInv, CompleteIsSeeded, TypeOK
  <1>9. QED
    BY <1>4, <1>6, <1>7, <1>8 DEF SeedInv

-----------------------------------------------------------------------------
(***************************************************************************)
(* Kubernetes and terraform.                                               *)
(***************************************************************************)
\* A container that exits well leaves a seeded database behind.
LEMMA ExitStep ==
    ASSUME SeedInv, NEW p \in Pod, Exit(p)
    PROVE  SeedInv'
  <1> TypeOK /\ SessionInv(p) /\ StepInv(p)
    BY DEF SeedInv
  <1> UNCHANGED <<tables, indexed, users, sent, lost, restarts, applies>> /\ pc[p] = "exit"
    BY DEF Exit, database
  <1>1. /\ pc'[p] = "over"
        /\ \A q \in Pod : q # p => pc'[q] = pc[q]
        /\ job' \in {job, "complete"}
    BY DEF Exit, GoTo, TypeOK
  <1>2. TypeOK'
    BY DEF Exit, GoTo, TypeOK
  <1>3. users = Dump /\ tables = {"user", "product"} /\ indexed
    BY DEF StepInv, AfterUser, AfterProduct, AfterIndex, TypeOK
  <1>4. sent[p] = 0
    BY JobAssumption DEF SessionInv, TypeOK
  <1>5. \A q \in Pod : SessionInv(q)' /\ StepInv(q)'
    BY <1>1, <1>4
       DEF SeedInv, SessionInv, StepInv, AfterUser, AfterProduct, AfterIndex
  <1>6. OneSession' /\ OneManaged'
    BY <1>1 DEF SeedInv, OneSession, OneManaged, Managed, Running
  <1>7. SeededWhole' /\ CompleteIsSeeded'
    BY <1>3 DEF SeededWhole, CompleteIsSeeded
  <1>8. QED
    BY <1>2, <1>5, <1>6, <1>7 DEF SeedInv

\* A pod on a lost node is stopped, and its open transaction is gone.
LEMMA ReapStep ==
    ASSUME SeedInv, NEW p \in Pod, Reap(p)
    PROVE  SeedInv'
  <1> TypeOK
    BY DEF SeedInv
  <1>1. /\ pc'[p] = "over" /\ sent'[p] = 0
        /\ \A q \in Pod : q # p => pc'[q] = pc[q] /\ sent'[q] = sent[q]
        /\ UNCHANGED <<database, lost, job, restarts, applies>>
        /\ pc[p] \in Running
    BY DEF Reap, GoTo, TypeOK, cluster
  <1>2. TypeOK'
    BY JobAssumption DEF Reap, GoTo, TypeOK, database, cluster
  <1>3. StepInv(p)'
    BY <1>1 DEF StepInv, AfterUser, AfterProduct, AfterIndex
  <1>4. QED
    BY <1>1, <1>2, <1>3, PodMoves

\* The controller starts a pod when it knows of none.
LEMMA StartStep ==
    ASSUME SeedInv, NEW p \in Pod, StartPod(p)
    PROVE  SeedInv'
  <1> TypeOK /\ SessionInv(p)
    BY DEF SeedInv
  <1> UNCHANGED <<tables, indexed, users, sent, lost, job, applies>> /\ pc[p] = "new"
    BY DEF StartPod, database
  <1>1. /\ pc'[p] = "fetch"
        /\ \A q \in Pod : q # p => pc'[q] = pc[q] /\ ~Managed(q)
    BY DEF StartPod, GoTo, TypeOK
  <1>2. TypeOK'
    BY DEF StartPod, GoTo, TypeOK, Running
  <1>3. \A q \in Pod : SessionInv(q)' /\ StepInv(q)'
    BY <1>1 DEF SeedInv, SessionInv, StepInv, AfterUser, AfterProduct, AfterIndex
  <1>4. OneManaged'
    BY <1>1 DEF OneManaged, Managed
  <1>5. OneSession' /\ SeededWhole' /\ CompleteIsSeeded'
    BY DEF SeedInv, OneSession, SeededWhole, CompleteIsSeeded
  <1>6. QED
    BY <1>2, <1>3, <1>4, <1>5 DEF SeedInv

\* Giving up on a pod only makes more pods lost; applying changes no pod.
LEMMA ClusterStep ==
    ASSUME SeedInv, Apply \/ \E p \in Pod : Lose(p)
    PROVE  SeedInv'
  <1> TypeOK
    BY DEF SeedInv
  <1>1. /\ UNCHANGED <<tables, indexed, users, pc, sent>>
        /\ lost \subseteq lost' /\ lost' \subseteq Pod
        /\ job' \in {job, "active"} /\ restarts' \in Nat /\ applies' \in Nat
    BY DEF Apply, Lose, database, TypeOK
  <1>2. TypeOK'
    BY <1>1 DEF TypeOK
  <1>3. \A q \in Pod : SessionInv(q)' /\ StepInv(q)'
    BY <1>1 DEF SeedInv, SessionInv, StepInv
  <1>4. OneSession' /\ SeededWhole' /\ CompleteIsSeeded'
    BY <1>1 DEF SeedInv, OneSession, SeededWhole, CompleteIsSeeded
  <1>5. OneManaged'
    BY <1>1 DEF SeedInv, OneManaged, Managed
  <1>6. QED
    BY <1>2, <1>3, <1>4, <1>5 DEF SeedInv

-----------------------------------------------------------------------------
(***************************************************************************)
(* The theorems.                                                           *)
(***************************************************************************)
LEMMA SeedInit == Init => SeedInv
  <1> SUFFICES ASSUME Init PROVE SeedInv
    OBVIOUS
  <1>1. TypeOK
    BY JobAssumption DEF Init, TypeOK
  <1>2. ASSUME NEW p \in Pod PROVE SessionInv(p) /\ StepInv(p)
    <2>1. pc[p] = "new" /\ sent[p] = 0
      BY DEF Init
    <2>2. SessionInv(p)
      BY <2>1 DEF SessionInv
    <2>3. StepInv(p)
      BY <2>1 DEF StepInv, AfterUser, AfterProduct, AfterIndex
    <2>4. QED
      BY <2>2, <2>3
  <1>3. SeededWhole /\ OneSession /\ OneManaged /\ CompleteIsSeeded
    BY DEF Init, SeededWhole, OneSession, OneManaged, Managed, CompleteIsSeeded, Running
  <1>4. QED
    BY <1>1, <1>2, <1>3 DEF SeedInv

\* Every step keeps the invariant.
LEMMA SeedNext == SeedInv /\ [Next]_vars => SeedInv'
  <1> SUFFICES ASSUME SeedInv, [Next]_vars PROVE SeedInv'
    OBVIOUS
  <1>1. ASSUME NEW p \in Pod, Step(p) PROVE SeedInv'
    BY <1>1, QuietStep, SchemaStep, LoadStep, CommitStep, FailStep, ExitStep DEF Step
  <1>2. ASSUME NEW p \in Pod, Fail(p) \/ StartPod(p) \/ Lose(p) \/ Reap(p) PROVE SeedInv'
    BY <1>2, FailStep, StartStep, ClusterStep, ReapStep
  <1>3. CASE Apply
    BY <1>3, ClusterStep
  <1>4. CASE UNCHANGED vars
    BY <1>4
       DEF vars, SeedInv, TypeOK, SeededWhole, SessionInv, StepInv, OneSession,
           OneManaged, Managed, CompleteIsSeeded
  <1>5. QED
    BY <1>1, <1>2, <1>3, <1>4 DEF Next

\* Every reachable state satisfies the inductive invariant.
THEOREM SeedInvariance == Spec => []SeedInv
  BY SeedInit, SeedNext, PTL DEF Spec

\* The dump is loaded as a whole or not at all, however many pods run.
THEOREM SeedsWhole == Spec => []SeededWhole
  <1>1. SeedInv => SeededWhole
    BY DEF SeedInv
  <1>2. QED
    BY <1>1, SeedInvariance, PTL

\* Deployments that wait for the Job find what it promises.
THEOREM CompletesSeeded == Spec => []CompleteIsSeeded
  <1>1. SeedInv => CompleteIsSeeded
    BY DEF SeedInv
  <1>2. QED
    BY <1>1, SeedInvariance, PTL

\* No attempt meets a duplicate key while every pod is accounted for.
THEOREM ConflictsExplained == Spec => []ConflictNeedsLostPod
  <1>1. SeedInv => ConflictNeedsLostPod
    BY DEF SeedInv, StepInv, ConflictNeedsLostPod
  <1>2. QED
    BY <1>1, SeedInvariance, PTL

=============================================================================
