----------------------------- MODULE HillClimb -----------------------------
(***************************************************************************)
(* tuning/autotune-hc.sh: from a start point, try the four neighbours, move*)
(* to the first that scores better, and so on; the best point is applied.  *)
(*                                                                         *)
(* A score reaches the loop as what eval_state printed, captured by $(...),*)
(* and is compared by an awk program made of two such texts.               *)
(***************************************************************************)
EXTENDS LiveSettings

CONSTANTS
    MaxMoves,  \* the script's argument max_moves
    Starts     \* points to start from; the script does not check that they are in range

ASSUME ClimbAssumption ==
    /\ MaxMoves \in Nat
    /\ Starts \subseteq [cpu : 100 .. 1000, util : 40 .. 75]

VARIABLES
    climb,   \* where the script is
    point,   \* CPU and UTIL
    best,    \* BEST: captured lines; empty before the first trial
    sc,      \* what was captured of the latest candidate
    trial,   \* the point eval_state is called with
    queue,   \* candidates of this round that are still to be tried
    moves    \* moves made

climbVars == <<climb, point, best, sc, trial, queue, moves>>

\* ccpu, cutil.
Clamp(v, low, high) == IF v < low THEN low ELSE IF v > high THEN high ELSE v

\* Variant: cutil without its upper bound.
AroundUnclamped(p) ==
    << [p EXCEPT !.cpu = Clamp(@ + 100, 100, 1000)], [p EXCEPT !.cpu = Clamp(@ - 100, 100, 1000)],
       [p EXCEPT !.util = @ + 5], [p EXCEPT !.util = Clamp(@ - 5, 40, 75)] >>

\* The neighbours in the order they are tried.  A clamped one is the point itself.
Around(p) ==
    << [p EXCEPT !.cpu = Clamp(@ + 100, 100, 1000)], [p EXCEPT !.cpu = Clamp(@ - 100, 100, 1000)],
       [p EXCEPT !.util = Clamp(@ + 5, 40, 75)], [p EXCEPT !.util = Clamp(@ - 5, 40, 75)] >>

Settings(p) == [cpu |-> p.cpu, hpa |-> <<p.util, 2, 10>>]

\* What eval_state prints: drain's two lines, the line of the trial, the score.
Printed(s) == << "draining", "drained", "trial", s >>

\* awk evaluates "a > b"; a text that is not one number is a syntax error, and
\* then the condition is false.
Number(text) == Len(text) = 1 /\ text[1] \in Score
Improves(text, other) == Number(text) /\ Number(other) /\ text[1] > other[1]

ClimbInit ==
    /\ climb = "patch"
    /\ point \in Starts
    /\ trial = point
    /\ best = <<>>
    /\ sc = <<>>
    /\ queue = <<>>
    /\ moves = 0

ClimbPatch ==
    /\ climb = "patch"
    /\ \E a \in App : Patch(a, Settings(trial))
    /\ UNCHANGED climbVars

\* Nodes drain, or the wait times out; the load test runs; the loop compares.
\* The first trial is the start point's.
ClimbMeasure ==
    /\ climb = "patch" /\ Patched
    /\ \E s \in Score \cup {NoScore} :
          LET better == best = <<>> \/ Improves(Printed(s), best)
              first == best = <<>>
          IN  /\ sc' = IF first THEN sc ELSE Printed(s)
              /\ best' = IF better THEN Printed(s) ELSE best
              /\ point' = IF better THEN trial ELSE point
              /\ moves' = IF better /\ ~first THEN moves + 1 ELSE moves
              /\ queue' = IF better THEN (IF moves' < MaxMoves THEN Around(trial) ELSE <<>>)
                          ELSE queue
    /\ climb' = "next"
    /\ UNCHANGED <<settings, trial>>

\* The candidates ahead that are not the point itself.
Ahead == {i \in DOMAIN queue : queue[i] # point}

\* The loop goes on with the i-th candidate.
Try(i) ==
    /\ \A j \in Ahead : i <= j
    /\ trial' = queue[i]
    /\ queue' = SubSeq(queue, i + 1, Len(queue))
    /\ climb' = "patch"

\* Variant: a round without an improvement is not the last one.
NextCandidateAgain ==
    /\ climb = "next"
    /\ \/ \E i \in Ahead : Try(i)
       \/ /\ Ahead = {} /\ moves < MaxMoves
          /\ trial' = Around(point)[2]
          /\ queue' = Around(point)
          /\ climb' = "patch"
       \/ /\ Ahead = {} /\ moves = MaxMoves
          /\ climb' = "final"
          /\ UNCHANGED <<trial, queue>>
    /\ StartPatching
    /\ UNCHANGED <<live, point, best, sc, moves>>

\* Variant: BEST is printed and not applied.
NextCandidateUnapplied ==
    /\ climb = "next"
    /\ \/ /\ \E i \in Ahead : Try(i)
          /\ StartPatching
       \/ /\ Ahead = {}
          /\ climb' = "final"
          /\ UNCHANGED <<trial, queue, todo, missed>>
    /\ UNCHANGED <<live, point, best, sc, moves>>

\* The next candidate; without one the point is a local optimum, or the moves
\* are used up, and BEST is applied.
NextCandidate ==
    /\ climb = "next"
    /\ \/ \E i \in Ahead : Try(i)
       \/ /\ Ahead = {}
          /\ climb' = "final"
          /\ UNCHANGED <<trial, queue>>
    /\ StartPatching
    /\ UNCHANGED <<live, point, best, sc, moves>>

ClimbApply ==
    /\ climb = "final"
    /\ \E a \in App : Patch(a, Settings(point))
    /\ UNCHANGED climbVars

ClimbEnd ==
    /\ climb = "final" /\ Patched
    /\ climb' = "done"
    /\ UNCHANGED <<settings, point, best, sc, trial, queue, moves>>

ClimbNext == ClimbPatch \/ ClimbMeasure \/ NextCandidate \/ ClimbApply \/ ClimbEnd

=============================================================================
