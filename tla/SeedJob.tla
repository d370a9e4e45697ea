------------------------------ MODULE SeedJob ------------------------------
(***************************************************************************)
(* The db-init Job (terraform/k8s_base.tf): a pod fetches the dump, waits  *)
(* for the database, creates the tables, and loads the dump if the user    *)
(* table is empty.  Containers fail and are restarted in their pod; nodes  *)
(* are lost, and then the pod that Kubernetes took for dead may go on      *)
(* beside its replacement; a failed or replaced Job is applied again.      *)
(*                                                                         *)
(* Each mysql statement is one step.  The dump turns autocommit off, so a  *)
(* session's inserts are seen by others when it commits, and its row locks *)
(* make others wait until then.                                            *)
(***************************************************************************)
EXTENDS Integers

CONSTANTS
    Pod,           \* pods the Job may start; bounds how many nodes are lost
    Statements,    \* INSERT statements of the dump
    BackoffLimit,  \* backoff_limit
    MaxApplies     \* bound: how often the Job is applied

ASSUME JobAssumption ==
    /\ Statements \in Nat \ {0}
    /\ BackoffLimit \in Nat \ {0}
    /\ MaxApplies \in Nat

\* Statement n inserts the rows that no other statement inserts.
Dump == 1 .. Statements

VARIABLES
    tables,    \* the tables that exist
    indexed,   \* the user table has idx_email
    users,     \* the committed rows of the user table, by statement
    pc,        \* where each pod is
    sent,      \* sent[p]: statements of the dump in the open transaction of p
    lost,      \* pods that Kubernetes has given up on
    job,       \* the Job's state
    restarts,  \* the restart count of the Job's pod
    applies    \* how often the Job was applied

vars == <<tables, indexed, users, pc, sent, lost, job, restarts, applies>>
database == <<tables, indexed, users>>
cluster == <<lost, job, restarts, applies>>

Running == {"fetch", "wait", "user table", "product table", "find index",
            "add index", "count", "load", "commit", "conflict", "exit"}

TypeOK ==
    /\ tables \subseteq {"user", "product"}
    /\ indexed \in BOOLEAN
    /\ users \subseteq Dump
    /\ pc \in [Pod -> Running \cup {"new", "over"}]
    /\ sent \in [Pod -> 0 .. Statements]
    /\ lost \subseteq Pod
    /\ job \in {"active", "complete", "failed"}
    /\ restarts \in Nat
    /\ applies \in Nat

\* A new database, or one whose empty tables were made by another hand.
Init ==
    /\ tables \in SUBSET {"user", "product"}
    /\ indexed \in {b \in BOOLEAN : b => "user" \in tables}
    /\ users = {}
    /\ pc = [p \in Pod |-> "new"]
    /\ sent = [p \in Pod |-> 0]
    /\ lost = {}
    /\ job = "active"
    /\ restarts = 0
    /\ applies = 1

-----------------------------------------------------------------------------
GoTo(p, step) == pc' = [pc EXCEPT ![p] = step]

Managed(p) == pc[p] \in Running /\ p \notin lost

\* OnFailure: the container starts again in its pod, whose volume still has
\* what the init container fetched.
Again(p) == IF pc[p] = "fetch" THEN "fetch" ELSE "wait"

\* Variants: no "set -e"; restarts without a limit.
FailsUnnoticed(p) ==
    /\ sent' = [sent EXCEPT ![p] = 0]
    /\ GoTo(p, "exit")
    /\ UNCHANGED <<job, restarts>>

FailsUncounted(p) ==
    /\ sent' = [sent EXCEPT ![p] = 0]
    /\ GoTo(p, Again(p))
    /\ UNCHANGED <<job, restarts>>

\* The container exits with an error ("set -e"), and the server rolls back what
\* its session had not committed.
Fails(p) ==
    /\ sent' = [sent EXCEPT ![p] = 0]
    /\ \/ /\ p \in lost
          /\ GoTo(p, Again(p))
          /\ UNCHANGED <<job, restarts>>
       \/ /\ p \notin lost /\ restarts + 1 < BackoffLimit
          /\ GoTo(p, Again(p))
          /\ restarts' = restarts + 1
          /\ UNCHANGED job
       \/ /\ p \notin lost /\ restarts + 1 >= BackoffLimit
          /\ GoTo(p, "over")
          /\ job' = "failed"
          /\ UNCHANGED restarts

-----------------------------------------------------------------------------
(***************************************************************************)
(* The pod's containers.                                                   *)
(***************************************************************************)
Fetch(p) ==
    /\ pc[p] = "fetch"
    /\ GoTo(p, "wait")
    /\ UNCHANGED <<database, sent, cluster>>

WaitForDB(p) ==
    /\ pc[p] = "wait"
    /\ GoTo(p, "user table")
    /\ UNCHANGED <<database, sent, cluster>>

CreateUserTable(p) ==
    /\ pc[p] = "user table"
    /\ tables' = tables \cup {"user"}
    /\ indexed' = (indexed \/ "user" \notin tables)
    /\ GoTo(p, "product table")
    /\ UNCHANGED <<users, sent, cluster>>

CreateProductTable(p) ==
    /\ pc[p] = "product table"
    /\ tables' = tables \cup {"product"}
    /\ GoTo(p, "find index")
    /\ UNCHANGED <<indexed, users, sent, cluster>>

FindIndex(p) ==
    /\ pc[p] = "find index"
    /\ GoTo(p, IF indexed THEN "count" ELSE "add index")
    /\ UNCHANGED <<database, sent, cluster>>

\* ALTER TABLE waits for open transactions on the table, and fails if another
\* session has added the index meanwhile.
AddIndex(p) ==
    /\ pc[p] = "add index"
    /\ \A q \in Pod : sent[q] = 0
    /\ \/ /\ ~indexed
          /\ indexed' = TRUE
          /\ GoTo(p, "count")
          /\ UNCHANGED <<sent, job, restarts>>
       \/ indexed /\ Fails(p) /\ UNCHANGED indexed
    /\ UNCHANGED <<tables, users, lost, applies>>

\* Variant: the dump is loaded without counting.
CountIgnored(p) ==
    /\ pc[p] = "count"
    /\ GoTo(p, "load")
    /\ UNCHANGED <<database, sent, cluster>>

Count(p) ==
    /\ pc[p] = "count"
    /\ GoTo(p, IF users = {} THEN "load" ELSE "exit")
    /\ UNCHANGED <<database, sent, cluster>>

\* Variant: autocommit is on.
LoadAutocommitted(p) ==
    /\ pc[p] = "load"
    /\ sent[p] + 1 \notin users
    /\ users' = users \cup {sent[p] + 1}
    /\ sent' = [sent EXCEPT ![p] = @ + 1]
    /\ GoTo(p, IF sent[p] + 1 = Statements THEN "commit" ELSE "load")
    /\ UNCHANGED <<tables, indexed, cluster>>

Load(p) ==
    /\ pc[p] = "load"
    /\ \A q \in Pod \ {p} : sent[q] < sent[p] + 1
    /\ \/ /\ sent[p] + 1 \notin users
          /\ sent' = [sent EXCEPT ![p] = @ + 1]
          /\ GoTo(p, IF sent[p] + 1 = Statements THEN "commit" ELSE "load")
       \/ /\ sent[p] + 1 \in users
          /\ GoTo(p, "conflict")
          /\ UNCHANGED sent
    /\ UNCHANGED <<database, cluster>>

\* The client may not learn that its COMMIT succeeded.
Commit(p) ==
    /\ pc[p] = "commit"
    /\ users' = users \cup 1 .. sent[p]
    /\ \/ sent' = [sent EXCEPT ![p] = 0] /\ GoTo(p, "exit") /\ UNCHANGED <<job, restarts>>
       \/ Fails(p)
    /\ UNCHANGED <<tables, indexed, lost, applies>>

\* mysql stops at the first error, here a duplicate primary key.
GiveUp(p) ==
    /\ pc[p] = "conflict"
    /\ Fails(p)
    /\ UNCHANGED <<database, lost, applies>>

\* The Job is complete when its pod, not one it has given up on, succeeds.
Exit(p) ==
    /\ pc[p] = "exit"
    /\ GoTo(p, "over")
    /\ job' = IF p \in lost THEN job ELSE "complete"
    /\ UNCHANGED <<database, sent, lost, restarts, applies>>

\* A call fails or the container is killed, anywhere.
Fail(p) ==
    /\ pc[p] \in Running \ {"conflict", "exit"}
    /\ Fails(p)
    /\ UNCHANGED <<database, lost, applies>>

-----------------------------------------------------------------------------
(***************************************************************************)
(* Kubernetes and terraform.                                               *)
(***************************************************************************)
StartPod(p) ==
    /\ job = "active"
    /\ pc[p] = "new"
    /\ \A q \in Pod : ~Managed(q)
    /\ GoTo(p, "fetch")
    /\ restarts' = 0
    /\ UNCHANGED <<database, sent, lost, job, applies>>

\* The node no longer answers: the pod is replaced, its containers may run on.
Lose(p) ==
    /\ Managed(p)
    /\ \E q \in Pod : pc[q] = "new"
    /\ lost' = lost \cup {p}
    /\ UNCHANGED <<database, pc, sent, job, restarts, applies>>

\* The node is gone, or back and told to stop the pod.
Reap(p) ==
    /\ p \in lost /\ pc[p] \in Running
    /\ GoTo(p, "over")
    /\ sent' = [sent EXCEPT ![p] = 0]
    /\ UNCHANGED <<database, cluster>>

Apply ==
    /\ job # "active"
    /\ applies < MaxApplies
    /\ \E p \in Pod : pc[p] = "new"
    /\ job' = "active"
    /\ restarts' = 0
    /\ applies' = applies + 1
    /\ UNCHANGED <<database, pc, sent, lost>>

-----------------------------------------------------------------------------
Step(p) ==
    \/ Fetch(p) \/ WaitForDB(p)
    \/ CreateUserTable(p) \/ CreateProductTable(p)
    \/ FindIndex(p) \/ AddIndex(p)
    \/ Count(p) \/ Load(p) \/ Commit(p)
    \/ GiveUp(p) \/ Exit(p)

Next ==
    \/ \E p \in Pod : Step(p) \/ Fail(p) \/ StartPod(p) \/ Lose(p) \/ Reap(p)
    \/ Apply

Spec == Init /\ [][Next]_vars

\* Containers run, the database answers in the end, a Job that has no pod gets
\* one, and a pod on a lost node does not run for ever.
FairSpec ==
    /\ Spec
    /\ \A p \in Pod : WF_vars(Step(p)) /\ WF_vars(Reap(p))
    /\ WF_vars(\E p \in Pod : StartPod(p))

-----------------------------------------------------------------------------
\* The user table holds all of the dump or none of it, whatever fails and
\* however many pods run: an interrupted load leaves nothing that would make
\* the next attempt skip it.
SeededWhole == users \in {{}, Dump}

\* When the Job is complete, and the deployments that depend on it are created,
\* the dump is loaded and both tables and the index are there.
CompleteIsSeeded ==
    job = "complete" => users = Dump /\ tables = {"user", "product"} /\ indexed

\* "job retries / re-applies never hit PRIMARY KEY conflicts": so it is as long
\* as Kubernetes has not given up on a pod that goes on.
ConflictNeedsLostPod == (\E p \in Pod : pc[p] = "conflict") => lost # {}

\* Retries end: an active Job becomes complete or failed.
JobSettles == job = "active" ~> job # "active"

=============================================================================
