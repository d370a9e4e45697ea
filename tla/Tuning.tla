------------------------------- MODULE Tuning -------------------------------
(***************************************************************************)
(* The workflow of tuning/README.md: autotune.sh finds a region, then      *)
(* autotune-hc.sh refines it, on the same cluster.                         *)
(***************************************************************************)
EXTENDS AutoTune, HillClimb

vars == <<settings, sweepVars, climbVars>>

Init ==
    /\ live = Deployed
    /\ todo = App
    /\ missed = FALSE
    /\ SweepInit
    /\ ClimbInit

\* autotune-hc.sh is started when autotune.sh, and what it knew, is gone.
Refine ==
    /\ sweep = "done"
    /\ sweep' = "refined"
    /\ results' = <<>>
    /\ winner' = 0
    /\ ran' = <<>>
    /\ StartPatching
    /\ UNCHANGED <<live, climbVars>>

Sweeping == SweepNext /\ UNCHANGED climbVars
Climbing == sweep = "refined" /\ ClimbNext /\ UNCHANGED sweepVars

Next == Sweeping \/ Refine \/ Climbing

Spec == Init /\ [][Next]_vars

\* A script that runs goes on: rollouts, draining and load tests are all limited
\* in time.  The operator need not start the second one.
FairSpec == Spec /\ WF_vars(Sweeping) /\ WF_vars(Climbing)

-----------------------------------------------------------------------------
Point == [cpu : 100 .. 1000, util : 40 .. 75]

TypeOK ==
    /\ live \in [App -> Setting]
    /\ todo \subseteq App
    /\ missed \in BOOLEAN
    /\ sweep \in {"patch", "rank", "apply", "done", "refined"}
    /\ results \in Seq(Score \cup {NoScore}) /\ Len(results) <= Len(Combos)
    /\ winner \in 0 .. Len(Combos)
    /\ ran \in Seq(SUBSET [App -> Setting]) /\ Len(ran) = Len(results)
    /\ climb \in {"patch", "next", "final", "done"}
    /\ point \in Point /\ trial \in Point /\ queue \in Seq(Point)
    /\ moves \in 0 .. MaxMoves

\* When autotune.sh is done, every deployment runs under the very settings under
\* which one of its load tests scored at least as high as all the others (and a
\* test that could not be scored counts only if none could): the row was recorded,
\* sorted, found again by its name and applied, over what later trials had left.
\* Failed calls excuse it only if they were of the winner's trial or of the end.
TopScorerStays ==
    sweep = "done" /\ ~missed /\ ran[winner] # {} =>
        \E i \in DOMAIN results :
            /\ live \in ran[i]
            /\ \A j \in DOMAIN results : results[j] # NoScore =>
                 results[i] # NoScore /\ results[j] <= results[i]

\* Whatever earlier trials left behind, each load test runs under the settings it
\* is recorded for, on every deployment, unless a call of this very trial failed.
MeasuredAsRecorded ==
    Patched /\ ~missed =>
        /\ sweep = "patch" => Uniform(Combo)
        /\ sweep = "refined" /\ climb = "patch" => Uniform(Settings(trial))

\* Each script leaves applied what it prints as the winner or BEST, not what it
\* tried last, unless a call failed while that was applied.
BestLeftApplied ==
    ~missed =>
        /\ sweep = "done" => Uniform(Combos[winner])
        /\ sweep = "refined" /\ climb = "done" => Uniform(Settings(point))

\* Each script ends once it is started, whatever is measured and whatever fails.
ScriptsEnd == <>(sweep = "done") /\ (sweep = "refined" ~> climb = "done")

ScoreOf(text) == text[Len(text)]
Scored(text) == text # <<>> /\ ScoreOf(text) \in Score

\* "moves in the direction of a better score (first-improvement)": a trial that
\* scores above the best point is moved to.
MovesUphill ==
    [][ /\ climb = "patch" /\ climb' = "next"
        /\ Scored(best) /\ Scored(sc') /\ ScoreOf(sc') > ScoreOf(best)
        => point' = trial ]_vars

=============================================================================
