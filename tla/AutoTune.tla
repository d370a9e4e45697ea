----------------------------- MODULE AutoTune -----------------------------
(***************************************************************************)
(* tuning/autotune.sh: a load test under each combination of settings; the *)
(* best one is applied again.  A row without a score is one whose scoring  *)
(* failed: its fields are empty, and sort -g ranks it below every number.  *)
(***************************************************************************)
EXTENDS LiveSettings

CONSTANT Combos   \* COMBOS: the settings of each row

ASSUME SweepAssumption == Combos \in Seq(Setting) /\ Combos # <<>>

VARIABLES
    sweep,    \* where the script is
    results,  \* RESULTS: the score of each combo measured
    winner,   \* WNAME, by its row; 0 before it is known
    ran       \* history: ran[i] holds what was live while row i was measured,
              \* and nothing if a call of that trial had failed

sweepVars == <<sweep, results, winner, ran>>

SweepInit ==
    /\ sweep = "patch"
    /\ results = <<>>
    /\ winner = 0
    /\ ran = <<>>

Combo == Combos[Len(results) + 1]

SweepPatch ==
    /\ sweep = "patch"
    /\ \E a \in App : Patch(a, Combo)
    /\ UNCHANGED sweepVars

\* The rollouts were awaited, or not within 180s; the load test runs.
SweepMeasure ==
    /\ sweep = "patch" /\ Patched
    /\ \E s \in Score \cup {NoScore} : results' = Append(results, s)
    /\ ran' = Append(ran, IF missed THEN {} ELSE {live})
    /\ IF Len(results') < Len(Combos)
       THEN StartPatching /\ UNCHANGED sweep
       ELSE sweep' = "rank" /\ UNCHANGED <<todo, missed>>
    /\ UNCHANGED <<live, winner>>

\* Variant: sorted in ascending order.
RanksBelowAscending(s, t) == s # NoScore /\ (t = NoScore \/ t < s)

RanksBelow(s, t) == t # NoScore /\ (s = NoScore \/ s < t)

First == {i \in DOMAIN results : \A j \in DOMAIN results : ~RanksBelow(results[i], results[j])}

\* Rows of equal rank are ordered by their text.
SweepRank ==
    /\ sweep = "rank"
    /\ winner' \in First
    /\ sweep' = "apply"
    /\ StartPatching
    /\ UNCHANGED <<live, results, ran>>

SweepApply ==
    /\ sweep = "apply"
    /\ \E a \in App : Patch(a, Combos[winner])
    /\ UNCHANGED sweepVars

SweepEnd ==
    /\ sweep = "apply" /\ Patched
    /\ sweep' = "done"
    /\ UNCHANGED <<settings, results, winner, ran>>

SweepNext == SweepPatch \/ SweepMeasure \/ SweepRank \/ SweepApply \/ SweepEnd

=============================================================================
