--------------------------- MODULE LiveSettings ---------------------------
(***************************************************************************)
(* What the tuning scripts do to the cluster: patch_all (autotune.sh) and  *)
(* apply_state (autotune-hc.sh) set one CPU request and one autoscaler     *)
(* configuration on every deployment, two kubectl calls for each, and end  *)
(* every call with "|| true".                                              *)
(***************************************************************************)
EXTENDS Integers, Sequences

CONSTANTS
    App,       \* deployments, by their names in config.env
    Deployed,  \* their settings as terraform deploys them
    Score,     \* bound: the scores a load test can have
    NoScore    \* the scoring failed, and its field is empty

\* A CPU request in millicores, and an autoscaler's target, minimum and maximum.
Setting == [cpu : 100 .. 1000, hpa : (40 .. 75) \X Nat \X Nat]

ASSUME SettingsAssumption ==
    /\ Score \subseteq Int
    /\ NoScore \notin Score
    /\ Deployed \in [App -> Setting]

VARIABLES
    live,    \* live[a]: the settings of the deployment and its autoscaler
    todo,    \* deployments that the loop has still to patch
    missed   \* a call of this loop failed; nobody but the properties reads it

settings == <<live, todo, missed>>

Knob == {"cpu", "hpa"}

\* A loop over all deployments begins.
StartPatching == todo' = App /\ missed' = FALSE

\* Variant: only the autoscaler is patched.
PatchHpaOnly(a, target) ==
    /\ a \in todo
    /\ todo' = todo \ {a}
    /\ live' = [live EXCEPT ![a].hpa = target.hpa]
    /\ UNCHANGED missed

\* Each of the two calls may fail, and the loop goes on.
Patch(a, target) ==
    /\ a \in todo
    /\ todo' = todo \ {a}
    /\ \E done \in SUBSET Knob :
          /\ live' = [live EXCEPT ![a] =
                        [k \in Knob |-> IF k \in done THEN target[k] ELSE live[a][k]]]
          /\ missed' = (missed \/ done # Knob)

Patched == todo = {}

\* All deployments run with these settings.
Uniform(target) == \A a \in App : live[a] = target

=============================================================================
