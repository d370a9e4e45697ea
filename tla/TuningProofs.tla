---------------------------- MODULE TuningProofs ----------------------------
(***************************************************************************)
(* Proofs about the scripts of tuning/.                                    *)
(*                                                                         *)
(* Tuning for any deployments, combinations, scores and start points: what *)
(* a script measures and leaves behind is what it says, whatever earlier   *)
(* trials, failed calls and the other script did to the cluster.           *)
(*                                                                         *)
(* WafLoop for any requests, positions of headers that are asked for and   *)
(* lengths of values that are printed: what the two reassuring answers of  *)
(* waf_header_stats.py and of the page are worth.                          *)
(***************************************************************************)
EXTENDS Tuning, WafLoop, TLAPS

\* The deployments that this loop has passed run with the settings.
PatchedTo(target) == \A a \in App \ todo : live[a] = target

\* Where the first script is, and how far its results and its winner are.
SweepInv ==
    /\ sweep = "patch" => Len(results) < Len(Combos)
    /\ sweep \in {"apply", "done"} => winner # 0
    /\ sweep \in {"patch", "rank", "refined"} => winner = 0
    /\ winner <= Len(results)
    /\ sweep = "done" => todo = {}

\* Nothing of the second script has happened before it is started.
ClimbInv ==
    /\ sweep # "refined" => climb = "patch"
    /\ climb = "done" => todo = {}

\* What a loop without a failed call has done so far.
LiveInv ==
    ~missed =>
        /\ sweep = "patch" => PatchedTo(Combo)
        /\ sweep \in {"apply", "done"} => PatchedTo(Combos[winner])
        /\ sweep = "refined" /\ climb = "patch" => PatchedTo(Settings(trial))
        /\ sweep = "refined" /\ climb \in {"final", "done"} => PatchedTo(Settings(point))

\* No row outranks the winner.
RankInv ==
    winner # 0 =>
        \A i \in DOMAIN results :
            results[i] = NoScore \/ (results[winner] # NoScore /\ results[i] <= results[winner])

\* A row measured without a failed call was measured under its own combination.
RanInv == \A i \in 1 .. Len(ran) : \A l \in ran[i] : \A a \in App : l[a] = Combos[i]

TuningInv == TypeOK /\ SweepInv /\ ClimbInv /\ LiveInv /\ RankInv /\ RanInv

\* A point of the search makes settings that can be applied.
LEMMA SettingsTyped ==
  ASSUME NEW p \in Point
  PROVE  Settings(p) \in Setting
  <1>1. p.cpu \in 100 .. 1000 /\ p.util \in 40 .. 75
    BY DEF Point
  <1>2. <<p.util, 2, 10>> \in (40 .. 75) \X Nat \X Nat
    BY <1>1
  <1>3. QED
    BY <1>1, <1>2 DEF Settings, Setting

\* The limits keep a CPU request in range.
LEMMA ClampCpu ==
  ASSUME NEW v \in Int
  PROVE  Clamp(v, 100, 1000) \in 100 .. 1000
  BY DEF Clamp

\* The limits keep a utilisation in range.
LEMMA ClampUtil ==
  ASSUME NEW v \in Int
  PROVE  Clamp(v, 40, 75) \in 40 .. 75
  BY DEF Clamp

\* Neighbours of a point are points.
LEMMA AroundTyped ==
  ASSUME NEW p \in Point
  PROVE  Around(p) \in Seq(Point)
  <1>1. p.cpu \in 100 .. 1000 /\ p.util \in 40 .. 75 /\ p.cpu \in Int /\ p.util \in Int
    BY DEF Point
  <1>2. [p EXCEPT !.cpu = Clamp(p.cpu + 100, 100, 1000)] \in Point
    BY <1>1, ClampCpu DEF Point
  <1>3. [p EXCEPT !.cpu = Clamp(p.cpu - 100, 100, 1000)] \in Point
    BY <1>1, ClampCpu DEF Point
  <1>4. [p EXCEPT !.util = Clamp(p.util + 5, 40, 75)] \in Point
    BY <1>1, ClampUtil DEF Point
  <1>5. [p EXCEPT !.util = Clamp(p.util - 5, 40, 75)] \in Point
    BY <1>1, ClampUtil DEF Point
  <1>6. QED
    BY <1>2, <1>3, <1>4, <1>5 DEF Around

\* Two knobs in range are a setting.
LEMMA SettingIs ==
  ASSUME NEW x \in 100 .. 1000, NEW y \in (40 .. 75) \X Nat \X Nat
  PROVE  [cpu |-> x, hpa |-> y] \in Setting
  BY Zenon DEF Setting

\* One turn of a loop: without a failed call the deployment has the settings, and the
\* others keep theirs.
LEMMA PatchSets ==
  ASSUME TypeOK, NEW a \in App, NEW target \in Setting, Patch(a, target)
  PROVE  /\ live' \in [App -> Setting]
         /\ todo' \subseteq App
         /\ missed' \in BOOLEAN
         /\ ~missed' => /\ ~missed
                        /\ PatchedTo(target) => PatchedTo(target)'
  <1>1. PICK done \in SUBSET Knob :
            /\ live' = [live EXCEPT ![a] =
                          [k \in Knob |-> IF k \in done THEN target[k] ELSE live[a][k]]]
            /\ missed' = (missed \/ done # Knob)
    BY DEF Patch
  <1> DEFINE new == [k \in Knob |-> IF k \in done THEN target[k] ELSE live[a][k]]
  <1>2. live \in [App -> Setting] /\ live[a] \in Setting
    BY DEF TypeOK
  <1>3. new = [cpu |-> IF "cpu" \in done THEN target.cpu ELSE live[a].cpu,
               hpa |-> IF "hpa" \in done THEN target.hpa ELSE live[a].hpa]
    BY DEF Knob
  <1>4. new \in Setting
    <2>1. /\ target.cpu \in 100 .. 1000 /\ live[a].cpu \in 100 .. 1000
          /\ target.hpa \in (40 .. 75) \X Nat \X Nat /\ live[a].hpa \in (40 .. 75) \X Nat \X Nat
      BY <1>2 DEF Setting
    <2> DEFINE c == IF "cpu" \in done THEN target.cpu ELSE live[a].cpu
               h == IF "hpa" \in done THEN target.hpa ELSE live[a].hpa
    <2>2. c \in 100 .. 1000
      BY <2>1, Zenon
    <2>3. h \in (40 .. 75) \X Nat \X Nat
      BY <2>1, Zenon
    <2>4. [cpu |-> c, hpa |-> h] \in Setting
      <3> HIDE DEF c, h
      <3>1. QED
        BY <2>2, <2>3, SettingIs
    <2>5. QED
      BY <1>3, <2>4, Zenon
  <1>5. done = Knob => new = target
    BY <1>3 DEF Knob, Setting
  <1>6. live' \in [App -> Setting] /\ live'[a] = new /\ \A b \in App \ {a} : live'[b] = live[b]
    BY <1>1, <1>2, <1>4
  <1>7. todo' = todo \ {a} /\ todo \subseteq App /\ missed \in BOOLEAN
    BY DEF Patch, TypeOK
  <1>8. missed' \in BOOLEAN /\ (~missed' => ~missed /\ done = Knob)
    BY <1>1, <1>7
  <1>9. ~missed' => (PatchedTo(target) => PatchedTo(target)')
    <2>1. SUFFICES ASSUME ~missed', PatchedTo(target), NEW b \in App \ todo'
                   PROVE  live'[b] = target
      BY DEF PatchedTo
    <2>2. CASE b = a
      BY <2>1, <2>2, <1>5, <1>6, <1>8
    <2>3. CASE b # a
      BY <2>1, <2>3, <1>6, <1>7 DEF PatchedTo
    <2>4. QED
      BY <2>2, <2>3
  <1>10. QED
    BY <1>6, <1>7, <1>8, <1>9

\* A loop begins with all deployments ahead.
LEMMA StartTyped ==
  ASSUME StartPatching
  PROVE  todo' \subseteq App /\ missed' \in BOOLEAN
  BY Zenon DEF StartPatching

\* The row that autotune.sh is at is one of its combinations.
LEMMA ComboTyped ==
  ASSUME TypeOK, SweepInv, sweep = "patch"
  PROVE  Combo \in Setting
  <1>1. Len(results) \in Nat /\ Len(Combos) \in Nat /\ Len(results) < Len(Combos)
    BY SweepAssumption DEF TypeOK, SweepInv
  <1>2. QED
    BY <1>1, SweepAssumption DEF Combo

\* The winner is one of the combinations.
LEMMA WinnerTyped ==
  ASSUME TypeOK, winner # 0
  PROVE  Combos[winner] \in Setting
  <1>1. winner \in 1 .. Len(Combos)
    BY SweepAssumption DEF TypeOK
  <1>2. QED
    BY <1>1, SweepAssumption

\* Both scripts start from deployed settings, and nothing is patched yet.
LEMMA TuningInit == Init => TuningInv
  <1> SUFFICES ASSUME Init PROVE TuningInv
    OBVIOUS
  <1>1. TypeOK
    <2>1. live \in [App -> Setting] /\ todo \subseteq App
      BY SettingsAssumption DEF Init
    <2>2. missed \in BOOLEAN
      BY Zenon DEF Init
    <2>3. results \in Seq(Score \cup {NoScore}) /\ Len(results) = 0 /\ winner = 0
          /\ ran \in Seq(SUBSET [App -> Setting]) /\ Len(ran) = 0
      BY DEF Init, SweepInit
    <2>4. 0 <= Len(Combos) /\ Len(Combos) \in Nat
      BY SweepAssumption
    <2>5. point \in Point /\ trial \in Point /\ queue \in Seq(Point) /\ moves \in 0 .. MaxMoves
      BY ClimbAssumption DEF Init, ClimbInit, Point
    <2>6. QED
      BY <2>1, <2>2, <2>3, <2>4, <2>5 DEF Init, SweepInit, ClimbInit, TypeOK
  <1>2. SweepInv
    BY SweepAssumption DEF Init, SweepInit, SweepInv
  <1>3. ClimbInv /\ LiveInv /\ RankInv /\ RanInv
    BY DEF Init, SweepInit, ClimbInit, ClimbInv, LiveInv, PatchedTo, RankInv, RanInv
  <1>4. QED
    BY <1>1, <1>2, <1>3 DEF TuningInv

-----------------------------------------------------------------------------
\* autotune.sh patches one deployment.
LEMMA SweepPatchKeeps ==
  ASSUME TuningInv, SweepPatch, UNCHANGED climbVars
  PROVE  TuningInv'
  <1>1. PICK a \in App : Patch(a, Combo)
    BY DEF SweepPatch
  <1>2. Combo \in Setting
    BY ComboTyped DEF TuningInv, SweepPatch
  <1>3. /\ live' \in [App -> Setting]
        /\ todo' \subseteq App
        /\ missed' \in BOOLEAN
        /\ ~missed' => ~missed /\ (PatchedTo(Combo) => PatchedTo(Combo)')
    <2> HIDE DEF Combo
    <2>1. Combo' = Combo
      BY DEF SweepPatch, sweepVars, Combo
    <2>2. QED
      BY <1>1, <1>2, <2>1, PatchSets DEF TuningInv, PatchedTo
  <1>4. TypeOK'
    BY <1>3 DEF TuningInv, TypeOK, SweepPatch, sweepVars, climbVars
  <1>5. SweepInv' /\ ClimbInv' /\ RankInv' /\ RanInv'
    BY DEF TuningInv, SweepPatch, sweepVars, climbVars, SweepInv, ClimbInv, RankInv, RanInv
  <1>6. LiveInv'
    BY <1>3 DEF TuningInv, LiveInv, SweepPatch, sweepVars
  <1>7. QED
    BY <1>4, <1>5, <1>6 DEF TuningInv

\* A load test ends: the next combination is patched, or the ranking follows.
LEMMA SweepMeasureKeeps ==
  ASSUME TuningInv, SweepMeasure, UNCHANGED climbVars
  PROVE  TuningInv'
  <1>1. PICK s \in Score \cup {NoScore} : results' = Append(results, s)
    BY DEF SweepMeasure
  <1>2. /\ results \in Seq(Score \cup {NoScore})
        /\ Len(results) < Len(Combos) /\ Len(Combos) \in Nat
    BY SweepAssumption DEF TuningInv, TypeOK, SweepInv, SweepMeasure
  <1>3. results' \in Seq(Score \cup {NoScore}) /\ Len(results') = Len(results) + 1
    BY <1>1, <1>2
  <1>4. winner = 0 /\ winner' = 0 /\ sweep = "patch" /\ live' = live
    BY DEF TuningInv, SweepInv, SweepMeasure
  <1>5. /\ ran' \in Seq(SUBSET [App -> Setting]) /\ Len(ran') = Len(results')
        /\ RanInv'
    <2> DEFINE now == IF missed THEN {} ELSE {live}
    <2>1. ran \in Seq(SUBSET [App -> Setting]) /\ Len(ran) = Len(results)
          /\ now \in SUBSET [App -> Setting] /\ ran' = Append(ran, now)
      BY DEF TuningInv, TypeOK, SweepMeasure
    <2>2. \A l \in now : \A a \in App : l[a] = Combos[Len(ran) + 1]
      BY <1>4, <2>1 DEF TuningInv, LiveInv, SweepMeasure, Patched, PatchedTo, Combo
    <2> HIDE DEF now
    <2>3. /\ Len(ran') = Len(ran) + 1 /\ Len(ran) \in Nat
          /\ ran'[Len(ran) + 1] = now
          /\ \A i \in 1 .. Len(ran) : ran'[i] = ran[i]
          /\ ran' \in Seq(SUBSET [App -> Setting])
      BY <2>1
    <2>4. ASSUME NEW i \in 1 .. Len(ran'), NEW l \in ran'[i], NEW a \in App
          PROVE  l[a] = Combos[i]
      <3>1. CASE i = Len(ran) + 1
        BY <2>2, <2>3, <2>4, <3>1
      <3>2. CASE i # Len(ran) + 1
        BY <2>3, <2>4, <3>2 DEF TuningInv, RanInv
      <3>3. QED
        BY <3>1, <3>2
    <2>5. QED
      BY <1>3, <2>1, <2>3, <2>4 DEF RanInv
  <1>6. CASE Len(results') < Len(Combos)
    <2>1. sweep' = "patch" /\ todo' = App /\ missed' = FALSE
      BY <1>6 DEF SweepMeasure, StartPatching
    <2>2. TypeOK'
      <3>1. todo' \subseteq App /\ missed' \in BOOLEAN
        BY <1>6, StartTyped DEF SweepMeasure
      <3>2. sweep' = "patch"
        BY <2>1
      <3>3. QED
        BY <1>2, <1>3, <1>4, <1>5, <1>6, <3>1, <3>2 DEF TuningInv, TypeOK, climbVars
    <2>3. SweepInv' /\ ClimbInv' /\ RankInv' /\ RanInv' /\ LiveInv'
      BY <1>2, <1>3, <1>4, <1>5, <1>6, <2>1
         DEF TuningInv, SweepInv, ClimbInv, climbVars, RankInv, LiveInv, PatchedTo
    <2>4. QED
      BY <2>2, <2>3 DEF TuningInv
  <1>7. CASE ~(Len(results') < Len(Combos))
    <2>1. sweep' = "rank" /\ todo' = todo /\ missed' = missed
      BY <1>7 DEF SweepMeasure
    <2>2. TypeOK'
      BY <1>2, <1>3, <1>4, <1>5, <2>1 DEF TuningInv, TypeOK, climbVars
    <2>3. SweepInv' /\ ClimbInv' /\ RankInv' /\ RanInv' /\ LiveInv'
      BY <1>2, <1>3, <1>4, <1>5, <2>1
         DEF TuningInv, SweepInv, ClimbInv, climbVars, RankInv, LiveInv
    <2>4. QED
      BY <2>2, <2>3 DEF TuningInv
  <1>8. QED
    BY <1>6, <1>7

\* The ranking: its head is beaten by no row.
LEMMA SweepRankKeeps ==
  ASSUME TuningInv, SweepRank, UNCHANGED climbVars
  PROVE  TuningInv'
  <1>1. /\ winner' \in DOMAIN results /\ results' = results /\ live' = live
        /\ \A j \in DOMAIN results : ~RanksBelow(results[winner'], results[j])
        /\ sweep = "rank" /\ sweep' = "apply" /\ todo' = App /\ missed' = FALSE
    BY DEF SweepRank, First, StartPatching
  <1>2. /\ results \in Seq(Score \cup {NoScore})
        /\ Len(results) <= Len(Combos) /\ Len(Combos) \in Nat
    BY SweepAssumption DEF TuningInv, TypeOK
  <1>3. winner' \in 1 .. Len(results)
    BY <1>1, <1>2
  <1>4. TypeOK'
    <2>1. todo' \subseteq App /\ missed' \in BOOLEAN
      BY StartTyped DEF SweepRank
    <2>2. results' = results /\ live' = live /\ sweep' = "apply" /\ ran' = ran
      BY <1>1 DEF SweepRank
    <2>3. winner' \in 0 .. Len(Combos)
      BY <1>2, <1>3
    <2>4. QED
      BY <1>2, <2>1, <2>2, <2>3 DEF TuningInv, TypeOK, climbVars
  <1>5. SweepInv' /\ ClimbInv' /\ LiveInv'
    BY <1>1, <1>2, <1>3 DEF TuningInv, SweepInv, ClimbInv, climbVars, LiveInv, PatchedTo
  <1>6. RankInv'
    <2>1. SUFFICES ASSUME NEW i \in DOMAIN results, results[i] # NoScore
                   PROVE  results[winner'] # NoScore /\ results[i] <= results[winner']
      BY <1>1 DEF RankInv
    <2>2. results[i] \in Score
      BY <1>2, <2>1
    <2>3. results[winner'] \in Score
      BY <1>1, <1>2, <1>3, <2>1 DEF RanksBelow
    <2>4. results[i] \in Int /\ results[winner'] \in Int /\ results[winner'] # NoScore
      BY <2>2, <2>3, SettingsAssumption
    <2>5. QED
      BY <1>1, <2>1, <2>4 DEF RanksBelow
  <1>7. RanInv'
    BY DEF TuningInv, SweepRank, RanInv
  <1>8. QED
    BY <1>4, <1>5, <1>6, <1>7 DEF TuningInv

\* autotune.sh applies the winner to one deployment.
LEMMA SweepApplyKeeps ==
  ASSUME TuningInv, SweepApply, UNCHANGED climbVars
  PROVE  TuningInv'
  <1>1. PICK a \in App : Patch(a, Combos[winner])
    BY DEF SweepApply
  <1>2. Combos[winner] \in Setting
    BY WinnerTyped DEF TuningInv, SweepInv, SweepApply
  <1>3. /\ live' \in [App -> Setting]
        /\ todo' \subseteq App
        /\ missed' \in BOOLEAN
        /\ ~missed' => ~missed /\ (PatchedTo(Combos[winner]) => PatchedTo(Combos[winner])')
    <2>1. winner' = winner
      BY DEF SweepApply, sweepVars
    <2>2. QED
      BY <1>1, <1>2, <2>1, PatchSets DEF TuningInv, PatchedTo
  <1>4. TypeOK'
    BY <1>3 DEF TuningInv, TypeOK, SweepApply, sweepVars, climbVars
  <1>5. SweepInv' /\ ClimbInv' /\ RankInv' /\ RanInv'
    BY DEF TuningInv, SweepApply, sweepVars, climbVars, SweepInv, ClimbInv, RankInv, RanInv
  <1>6. LiveInv'
    BY <1>3 DEF TuningInv, LiveInv, SweepApply, sweepVars
  <1>7. QED
    BY <1>4, <1>5, <1>6 DEF TuningInv

\* autotune.sh ends, with every deployment patched.
LEMMA SweepEndKeeps ==
  ASSUME TuningInv, SweepEnd, UNCHANGED climbVars
  PROVE  TuningInv'
  <1>1. TypeOK'
    BY DEF TuningInv, TypeOK, SweepEnd, settings, climbVars
  <1>2. SweepInv' /\ ClimbInv' /\ RankInv' /\ RanInv'
    BY DEF TuningInv, SweepEnd, settings, climbVars, SweepInv, ClimbInv, RankInv, RanInv, Patched
  <1>3. LiveInv'
    BY DEF TuningInv, SweepEnd, settings, climbVars, LiveInv, PatchedTo
  <1>4. QED
    BY <1>1, <1>2, <1>3 DEF TuningInv

\* The operator starts the second script.
LEMMA RefineKeeps ==
  ASSUME TuningInv, Refine
  PROVE  TuningInv'
  <1>1. TypeOK'
    <2>1. todo' \subseteq App /\ missed' \in BOOLEAN
      BY StartTyped DEF Refine
    <2>2. results' \in Seq(Score \cup {NoScore}) /\ Len(results') = 0 /\ winner' = 0
          /\ ran' \in Seq(SUBSET [App -> Setting]) /\ Len(ran') = 0
          /\ sweep' = "refined" /\ live' = live
      BY DEF Refine
    <2>3. 0 <= Len(Combos) /\ Len(Combos) \in Nat
      BY SweepAssumption
    <2>4. QED
      BY <2>1, <2>2, <2>3 DEF TuningInv, TypeOK, Refine, climbVars
  <1>2. SweepInv' /\ ClimbInv' /\ RankInv' /\ RanInv' /\ LiveInv'
    BY DEF TuningInv, Refine, StartPatching, climbVars, SweepInv, ClimbInv, RankInv, RanInv,
           LiveInv, PatchedTo
  <1>3. QED
    BY <1>1, <1>2 DEF TuningInv

-----------------------------------------------------------------------------
\* The second script leaves what the first one knew alone.
LEMMA ClimbKeepsSweep ==
  ASSUME TuningInv, sweep = "refined", UNCHANGED sweepVars
  PROVE  SweepInv' /\ RankInv' /\ RanInv' /\ sweep' = "refined"
  BY DEF TuningInv, sweepVars, SweepInv, RankInv, RanInv

\* autotune-hc.sh patches one deployment to a candidate.
LEMMA ClimbPatchKeeps ==
  ASSUME TuningInv, sweep = "refined", ClimbPatch, UNCHANGED sweepVars
  PROVE  TuningInv'
  <1>1. PICK a \in App : Patch(a, Settings(trial))
    BY DEF ClimbPatch
  <1>2. Settings(trial) \in Setting
    BY SettingsTyped DEF TuningInv, TypeOK
  <1>3. /\ live' \in [App -> Setting]
        /\ todo' \subseteq App
        /\ missed' \in BOOLEAN
        /\ ~missed' => ~missed /\ (PatchedTo(Settings(trial)) => PatchedTo(Settings(trial))')
    <2>1. trial' = trial
      BY DEF ClimbPatch, climbVars
    <2>2. QED
      BY <1>1, <1>2, <2>1, PatchSets DEF TuningInv, PatchedTo, Settings
  <1>4. TypeOK'
    BY <1>3 DEF TuningInv, TypeOK, ClimbPatch, sweepVars, climbVars
  <1>5. ClimbInv'
    BY ClimbKeepsSweep DEF TuningInv, ClimbPatch, climbVars, ClimbInv
  <1>6. LiveInv'
    BY <1>3, ClimbKeepsSweep DEF TuningInv, LiveInv, ClimbPatch, climbVars
  <1>7. QED
    BY <1>4, <1>5, <1>6, ClimbKeepsSweep DEF TuningInv

\* A load test ends, and the loop compares.
LEMMA ClimbMeasureKeeps ==
  ASSUME TuningInv, sweep = "refined", ClimbMeasure, UNCHANGED sweepVars
  PROVE  TuningInv'
  <1>1. point \in Point /\ trial \in Point /\ queue \in Seq(Point) /\ moves \in 0 .. MaxMoves
        /\ MaxMoves \in Nat
    BY ClimbAssumption DEF TuningInv, TypeOK
  <1>2. PICK s \in Score \cup {NoScore} :
            LET better == best = <<>> \/ Improves(Printed(s), best)
                first == best = <<>>
            IN  /\ point' = IF better THEN trial ELSE point
                /\ moves' = IF better /\ ~first THEN moves + 1 ELSE moves
                /\ queue' = IF better THEN (IF moves' < MaxMoves THEN Around(trial) ELSE <<>>)
                            ELSE queue
    BY DEF ClimbMeasure
  <1>3. ~Improves(Printed(s), best)
    BY DEF Improves, Number, Printed
  <1>4. moves' = moves /\ point' \in Point /\ queue' \in Seq(Point)
    BY <1>1, <1>2, <1>3, AroundTyped
  <1>5. climb' = "next" /\ trial' = trial /\ live' = live /\ todo' = todo /\ missed' = missed
    BY DEF ClimbMeasure, settings
  <1>6. TypeOK'
    BY <1>1, <1>4, <1>5 DEF TuningInv, TypeOK, sweepVars
  <1>7. ClimbInv' /\ LiveInv'
    BY <1>5, ClimbKeepsSweep DEF ClimbInv, LiveInv
  <1>8. QED
    BY <1>6, <1>7, ClimbKeepsSweep DEF TuningInv

\* The next candidate, or the end of the search.
LEMMA NextCandidateKeeps ==
  ASSUME TuningInv, sweep = "refined", NextCandidate, UNCHANGED sweepVars
  PROVE  TuningInv'
  <1>1. queue \in Seq(Point) /\ trial \in Point
    BY DEF TuningInv, TypeOK
  <1>2. live' = live /\ todo' = App /\ missed' = FALSE /\ point' = point /\ moves' = moves
    BY DEF NextCandidate, StartPatching
  <1>3. climb' \in {"patch", "final"} /\ trial' \in Point /\ queue' \in Seq(Point)
    <2>1. CASE \E i \in Ahead : Try(i)
      <3>1. PICK i \in DOMAIN queue : Try(i)
        BY <2>1 DEF Ahead
      <3>2. i \in 1 .. Len(queue) /\ Len(queue) \in Nat
        BY <1>1, <3>1
      <3>3. queue[i] \in Point
        BY <1>1, <3>2
      <3>4. SubSeq(queue, i + 1, Len(queue)) \in Seq(Point)
        BY <1>1, <3>2
      <3>5. QED
        BY <3>1, <3>3, <3>4 DEF Try
    <2>2. CASE climb' = "final" /\ UNCHANGED <<trial, queue>>
      BY <1>1, <2>2
    <2>3. QED
      BY <2>1, <2>2 DEF NextCandidate
  <1>4. TypeOK'
    BY <1>2, <1>3 DEF TuningInv, TypeOK, sweepVars
  <1>5. ClimbInv' /\ LiveInv'
    BY <1>2, <1>3, ClimbKeepsSweep DEF ClimbInv, LiveInv, PatchedTo
  <1>6. QED
    BY <1>4, <1>5, ClimbKeepsSweep DEF TuningInv

\* autotune-hc.sh applies the best point to one deployment.
LEMMA ClimbApplyKeeps ==
  ASSUME TuningInv, sweep = "refined", ClimbApply, UNCHANGED sweepVars
  PROVE  TuningInv'
  <1>1. PICK a \in App : Patch(a, Settings(point))
    BY DEF ClimbApply
  <1>2. Settings(point) \in Setting
    BY SettingsTyped DEF TuningInv, TypeOK
  <1>3. /\ live' \in [App -> Setting]
        /\ todo' \subseteq App
        /\ missed' \in BOOLEAN
        /\ ~missed' => ~missed /\ (PatchedTo(Settings(point)) => PatchedTo(Settings(point))')
    <2>1. point' = point
      BY DEF ClimbApply, climbVars
    <2>2. QED
      BY <1>1, <1>2, <2>1, PatchSets DEF TuningInv, PatchedTo, Settings
  <1>4. TypeOK'
    BY <1>3 DEF TuningInv, TypeOK, ClimbApply, sweepVars, climbVars
  <1>5. ClimbInv'
    BY ClimbKeepsSweep DEF TuningInv, ClimbApply, climbVars, ClimbInv
  <1>6. LiveInv'
    BY <1>3, ClimbKeepsSweep DEF TuningInv, LiveInv, ClimbApply, climbVars
  <1>7. QED
    BY <1>4, <1>5, <1>6, ClimbKeepsSweep DEF TuningInv

\* autotune-hc.sh ends, with every deployment patched.
LEMMA ClimbEndKeeps ==
  ASSUME TuningInv, sweep = "refined", ClimbEnd, UNCHANGED sweepVars
  PROVE  TuningInv'
  <1>1. TypeOK'
    BY DEF TuningInv, TypeOK, ClimbEnd, settings, sweepVars
  <1>2. ClimbInv'
    BY ClimbKeepsSweep DEF ClimbEnd, settings, ClimbInv, Patched
  <1>3. LiveInv'
    BY ClimbKeepsSweep DEF TuningInv, ClimbEnd, settings, LiveInv, PatchedTo
  <1>4. QED
    BY <1>1, <1>2, <1>3, ClimbKeepsSweep DEF TuningInv

-----------------------------------------------------------------------------
\* Every step of either script keeps the invariant.
LEMMA TuningNext == TuningInv /\ [Next]_vars => TuningInv'
  <1> SUFFICES ASSUME TuningInv, [Next]_vars PROVE TuningInv'
    OBVIOUS
  <1>1. CASE Sweeping
    BY <1>1, SweepPatchKeeps, SweepMeasureKeeps, SweepRankKeeps, SweepApplyKeeps, SweepEndKeeps
       DEF Sweeping, SweepNext
  <1>2. CASE Refine
    BY <1>2, RefineKeeps
  <1>3. CASE Climbing
    BY <1>3, ClimbPatchKeeps, ClimbMeasureKeeps, NextCandidateKeeps, ClimbApplyKeeps, ClimbEndKeeps
       DEF Climbing, ClimbNext
  <1>4. CASE UNCHANGED vars
    BY <1>4 DEF vars, settings, sweepVars, climbVars, TuningInv, TypeOK, SweepInv, ClimbInv,
                LiveInv, PatchedTo, Combo, RankInv, RanInv
  <1>5. QED
    BY <1>1, <1>2, <1>3, <1>4 DEF Next

\* Every reachable state satisfies the inductive invariant.
THEOREM TuningInvariance == Spec => []TuningInv
  BY TuningInit, TuningNext, PTL DEF Spec

\* The variables keep their types: clamping keeps every trial within the knobs' limits.
THEOREM TuningTypes == Spec => []TypeOK
  <1>1. TuningInv => TypeOK
    BY DEF TuningInv
  <1>2. QED
    BY <1>1, TuningInvariance, PTL

\* What autotune.sh leaves applied is what one of its load tests ran under that no
\* other outscored, unless a call failed in that trial or at the end.
THEOREM TopScorerLeftApplied == Spec => []TopScorerStays
  <1>1. ASSUME TuningInv, sweep = "done", ~missed, ran[winner] # {}
        PROVE  \E i \in DOMAIN results :
                   /\ live \in ran[i]
                   /\ \A j \in DOMAIN results : results[j] # NoScore =>
                        results[i] # NoScore /\ results[j] <= results[i]
    <2>1. winner \in 1 .. Len(results) /\ Len(ran) = Len(results) /\ DOMAIN results = 1 .. Len(results)
      BY <1>1, SweepAssumption DEF TuningInv, TypeOK, SweepInv
    <2>2. PICK l \in ran[winner] : TRUE
      BY <1>1
    <2>3. l \in [App -> Setting] /\ \A a \in App : l[a] = Combos[winner]
      <3>1. ran[winner] \in SUBSET [App -> Setting]
        BY <1>1, <2>1 DEF TuningInv, TypeOK
      <3>2. QED
        BY <1>1, <2>1, <2>2, <3>1 DEF TuningInv, RanInv
    <2>4. live \in [App -> Setting] /\ \A a \in App : live[a] = Combos[winner]
      BY <1>1 DEF TuningInv, TypeOK, SweepInv, LiveInv, PatchedTo
    <2>5. live = l
      BY <2>3, <2>4
    <2>6. \A j \in DOMAIN results : results[j] # NoScore =>
             results[winner] # NoScore /\ results[j] <= results[winner]
      BY <1>1, <2>1 DEF TuningInv, RankInv
    <2>7. QED
      BY <2>1, <2>2, <2>5, <2>6
  <1>2. TuningInv => TopScorerStays
    BY <1>1 DEF TopScorerStays
  <1>3. QED
    BY <1>2, TuningInvariance, PTL

\* Each load test runs under the settings it is recorded for, on every deployment,
\* unless a call of this very trial failed.
THEOREM MeasuredWhatIsRecorded == Spec => []MeasuredAsRecorded
  <1>1. TuningInv => MeasuredAsRecorded
    BY DEF TuningInv, LiveInv, PatchedTo, MeasuredAsRecorded, Patched, Uniform
  <1>2. QED
    BY <1>1, TuningInvariance, PTL

\* Each script leaves its winner or BEST applied, unless a call failed meanwhile.
THEOREM BestStaysApplied == Spec => []BestLeftApplied
  <1>1. TuningInv => BestLeftApplied
    BY DEF TuningInv, LiveInv, SweepInv, ClimbInv, PatchedTo, BestLeftApplied, Uniform
  <1>2. QED
    BY <1>1, TuningInvariance, PTL

-----------------------------------------------------------------------------
(***************************************************************************)
(* The loop that closes gaps in the web ACL: its inductive invariant.      *)
(***************************************************************************)
\* Where the script and the page are, and what their results are made of.
PhaseInv ==
    /\ pending # {} => at = "querying"
    /\ \A row \in rows : row.header \in Name
    /\ \A row \in pasted.rows : row.header \in Name
    /\ at = "analysed" => pending = {}

\* The queries that have ended have returned all that was there when the period
\* was fixed.
ReadInv ==
    at # "idle" /\ whole =>
        \A x \in asked : \A i \in Indices \ pending :
            i \in DOMAIN x[1].headers => Row(x[1], i, x[2]) \in rows

LoopInv == LoopTypeOK /\ PhaseInv /\ ReadInv

-----------------------------------------------------------------------------
\* The rows of a query, all or some, have names of headers that there are.
LEMMA RowsTyped ==
    ASSUME NEW records, records \subseteq Request \X Action, NEW i, NEW n,
           NEW part \in Most(RowsAt(i, records), n)
    PROVE  \A row \in part : row.header \in Name
  <1>1. ASSUME NEW x \in records, i \in DOMAIN x[1].headers
        PROVE  x[1].headers[i].name \in Name
    <2>1. x[1] \in Request
      BY <1>1
    <2>2. QED
      BY <1>1, <2>1 DEF Name
  <1>2. part \subseteq RowsAt(i, records)
    BY DEF Most
  <1>3. QED
    BY <1>1, <1>2 DEF RowsAt, Row

\* A query returns a row for each record that has a header at its position.
LEMMA RowsRead ==
    ASSUME NEW records, NEW x \in records, NEW i, i \in DOMAIN x[1].headers
    PROVE  Row(x[1], i, x[2]) \in RowsAt(i, records)
  BY DEF RowsAt

\* A line that the page misreads has no path that it knows.
LEMMA MisreadHasNoPath == Misread.path \notin WAFX_VALID
  BY DEF Misread, WAFX_VALID, VALID_EP

\* What the page finds are headers of rows that were pasted.
LEMMA FindsTyped ==
    ASSUME \A row \in pasted.rows : row.header \in Name
    PROVE  \A f \in finds : f.header \in Name
  <1>1. ASSUME NEW q \in Read, q.path \in WAFX_VALID
        PROVE  q.header \in Name
    <2>1. PICK row \in pasted.rows : q = wafxParse(pasted.how, Line(pasted.how, row))
      BY DEF Read
    <2>2. q = Line(pasted.how, row)
      BY <1>1, <2>1, MisreadHasNoPath DEF wafxParse
    <2>3. q.header = row.header
      BY <2>2 DEF Line
    <2>4. QED
      BY <2>3
  <1>2. QED
    BY <1>1 DEF finds, wafxClassify, Key

-----------------------------------------------------------------------------
\* Before anything was asked.
LEMMA LoopStarts == LoopInit => LoopInv
  <1> SUFFICES ASSUME LoopInit PROVE LoopInv
    OBVIOUS
  <1>1. rules.headers = {"x-junk"} /\ log \subseteq Request \X Action
    BY DEF LoopInit, RulesAtFirst, Action
  <1>2. rules.headers \subseteq Name
    BY <1>1 DEF Name
  <1>5. LoopTypeOK
    BY <1>1, <1>2 DEF LoopInit, LoopTypeOK
  <1>3. PhaseInv /\ ReadInv
    BY DEF LoopInit, PhaseInv, ReadInv, NoPaste
  <1>4. QED
    BY <1>5, <1>3 DEF LoopInv

\* A request is logged, while queries may run.
LEMMA SendKeeps ==
    ASSUME LoopInv, NEW r \in Request, Send(r)
    PROVE  LoopInv'
  <1>1. Decision(r) \in Action
    BY DEF Decision, Action
  <1>2. LoopTypeOK'
    BY <1>1 DEF LoopInv, LoopTypeOK, Send, script
  <1>3. PhaseInv' /\ ReadInv'
    BY DEF LoopInv, PhaseInv, ReadInv, Send, script
  <1>4. QED
    BY <1>2, <1>3 DEF LoopInv

\* Records are forgotten only when no script runs.
LEMMA ForgetKeeps ==
    ASSUME LoopInv, NEW r \in Request, NEW a \in Action, Forget(r, a)
    PROVE  LoopInv'
  <1>1. LoopTypeOK'
    BY DEF LoopInv, LoopTypeOK, Forget, script
  <1>2. PhaseInv' /\ ReadInv'
    BY DEF LoopInv, PhaseInv, ReadInv, Forget, script
  <1>3. QED
    BY <1>1, <1>2 DEF LoopInv

\* The period is fixed, and no query has ended.
LEMMA StartKeeps ==
    ASSUME LoopInv, Start
    PROVE  LoopInv'
  <1>1. LoopTypeOK'
    BY DEF LoopInv, LoopTypeOK, Start
  <1>2. PhaseInv' /\ ReadInv'
    BY DEF LoopInv, PhaseInv, ReadInv, Start
  <1>3. QED
    BY <1>1, <1>2 DEF LoopInv

\* A query that returns all its rows returns what was there, and what came since.
LEMMA CompleteKeeps ==
    ASSUME LoopInv, NEW i \in Indices, Complete(i)
    PROVE  LoopInv'
  <1>1. at = "querying" /\ asked \subseteq log /\ log \subseteq Request \X Action
    BY DEF LoopInv, LoopTypeOK, PhaseInv, Complete
  <1>2. PICK part \in Most(RowsAt(i, log), Limit) :
            /\ rows' = rows \cup part
            /\ whole' = (whole /\ part = RowsAt(i, log))
    BY DEF Complete
  <1>3. LoopTypeOK'
    <2>1. whole' \in BOOLEAN
      BY <1>2
    <2>2. QED
      BY <2>1 DEF LoopInv, LoopTypeOK, Complete
  <1>4. PhaseInv'
    BY <1>1, <1>2, RowsTyped DEF LoopInv, PhaseInv, Complete
  <1>5. ASSUME whole', NEW x \in asked', NEW j \in Indices \ pending',
               j \in DOMAIN x[1].headers
        PROVE  Row(x[1], j, x[2]) \in rows'
    <2>1. CASE j = i
      BY <2>1, <1>1, <1>2, <1>5, RowsRead DEF Complete
    <2>2. CASE j # i
      BY <2>2, <1>1, <1>2, <1>5 DEF LoopInv, ReadInv, Complete
    <2>3. QED
      BY <2>1, <2>2
  <1>6. QED
    BY <1>3, <1>4, <1>5 DEF LoopInv, ReadInv, Indices

\* A query that is broken off ends the claim on all rows.
LEMMA BreakOffKeeps ==
    ASSUME LoopInv, NEW i \in Indices, BreakOff(i)
    PROVE  LoopInv'
  <1>1. at = "querying" /\ asked \subseteq Request \X Action
    BY DEF LoopInv, LoopTypeOK, PhaseInv, BreakOff
  <1>2. LoopTypeOK'
    BY DEF LoopInv, LoopTypeOK, BreakOff
  <1>3. PhaseInv'
    <2>1. PICK records \in {{}, asked} :
              \E part \in Most(RowsAt(i, records), Limit) : rows' = rows \cup part
      BY DEF BreakOff
    <2>2. PICK part \in Most(RowsAt(i, records), Limit) : rows' = rows \cup part
      BY <2>1
    <2>3. \A row \in part : row.header \in Name
      BY <1>1, RowsTyped
    <2>4. QED
      BY <1>1, <2>2, <2>3 DEF LoopInv, PhaseInv, BreakOff
  <1>4. ReadInv'
    BY DEF ReadInv, BreakOff
  <1>5. QED
    BY <1>2, <1>3, <1>4 DEF LoopInv

\* The script dies with what it has read.
LEMMA CrashKeeps ==
    ASSUME LoopInv, Crash
    PROVE  LoopInv'
  BY DEF LoopInv, LoopTypeOK, PhaseInv, ReadInv, Crash

\* The page is given what was read, or the most frequent of it.
LEMMA AnalyseKeeps ==
    ASSUME LoopInv, NEW how \in {"table", "csv"}, Analyse(how)
    PROVE  LoopInv'
  <1>1. LoopTypeOK'
    BY DEF LoopInv, LoopTypeOK, Analyse
  <1>2. PICK part \in PrintedRows(how) : pasted' = [how |-> how, rows |-> part]
    BY DEF Analyse
  <1>3. part \subseteq rows
    BY DEF PrintedRows, Most
  <1>4. \A row \in pasted'.rows : row.header \in Name
    BY <1>2, <1>3 DEF LoopInv, PhaseInv
  <1>5. PhaseInv' /\ ReadInv'
    BY <1>4 DEF LoopInv, PhaseInv, ReadInv, Analyse
  <1>6. QED
    BY <1>1, <1>5 DEF LoopInv

\* Rules are applied, and the loop begins again.
LEMMA ApplyKeeps ==
    ASSUME LoopInv, Apply
    PROVE  LoopInv'
  <1>1. \A f \in finds : f.header \in Name
    BY FindsTyped DEF LoopInv, PhaseInv
  <1>2. rules'.headers \subseteq Name
    BY <1>1 DEF LoopInv, LoopTypeOK, Apply, wafxRule
  <1>3. LoopTypeOK'
    BY <1>2 DEF LoopInv, LoopTypeOK, Apply
  <1>4. PhaseInv' /\ ReadInv'
    BY DEF LoopInv, PhaseInv, ReadInv, Apply, NoPaste
  <1>5. QED
    BY <1>3, <1>4 DEF LoopInv

\* Every step keeps the invariant.
LEMMA LoopSteps == LoopInv /\ [LoopNext]_loopVars => LoopInv'
  <1> SUFFICES ASSUME LoopInv, [LoopNext]_loopVars PROVE LoopInv'
    OBVIOUS
  <1>1. CASE UNCHANGED loopVars
    BY <1>1 DEF LoopInv, LoopTypeOK, PhaseInv, ReadInv, loopVars
  <1>2. CASE LoopNext
    BY <1>2, SendKeeps, ForgetKeeps, StartKeeps, CompleteKeeps, BreakOffKeeps, CrashKeeps,
       AnalyseKeeps, ApplyKeeps DEF LoopNext, Work
  <1>3. QED
    BY <1>1, <1>2

\* Every reachable state satisfies the inductive invariant.
THEOREM LoopInvariant == LoopSpec => []LoopInv
  BY LoopStarts, LoopSteps, PTL DEF LoopSpec

-----------------------------------------------------------------------------
\* The variables of the loop have their types, and the script's period is fixed:
\* what it asks for stays in the log as long as it asks.
THEOREM WafLoopTypeCorrect == LoopSpec => []LoopTypeOK
  BY LoopInvariant, PTL DEF LoopInv

\* A gap in the period would have been a row, and so a gap in the report.
LEMMA NoneIsTrueFollows == LoopInv => NoneIsTrue
  <1> SUFFICES ASSUME LoopInv, Ready, whole, gaps = {},
                      NEW r \in Request, NEW i \in 1 .. MaxIndex + 1,
                      <<r, "ALLOW">> \in asked, i \in DOMAIN r.headers
               PROVE  verdict(Row(r, i, "ALLOW")) \notin Abnormal
    BY DEF NoneIsTrue
  <1>1. Row(r, i, "ALLOW") \in rows
    BY DEF LoopInv, ReadInv, Ready, Indices
  <1>2. QED
    BY <1>1 DEF gaps, Row

\* "None: all that should be blocked is" is true of what was asked for, if all
\* queries returned all their rows, however long the log grows between two queries.
THEOREM NoneMeansNone == LoopSpec => []NoneIsTrue
  BY LoopInvariant, NoneIsTrueFollows, PTL

\* A row that is pasted and that the page can read has its own header and action.
LEMMA SeenIsTheRow ==
    ASSUME NEW row, Seen(row).path \in WAFX_VALID
    PROVE  Seen(row).header = row.header /\ Seen(row).action = row.action
                /\ Seen(row).path = row.path
  BY MisreadHasNoPath DEF Seen, wafxParse, Line

\* What the page finds fault with is left out only for a blocked row with the same key.
LEMMA ClearUnlessBlockedFollows == LoopInv => ClearUnlessBlocked
  <1> SUFFICES ASSUME LoopInv, AllClear, whole, pasted.rows = rows,
                      NEW r \in Request, NEW i \in Indices,
                      <<r, "ALLOW">> \in asked, i \in DOMAIN r.headers,
                      wafxClassify(Seen(Row(r, i, "ALLOW")))
               PROVE  \E q \in rows :
                          /\ q.action = "BLOCK" /\ q.path \in WAFX_VALID
                          /\ q.header = Row(r, i, "ALLOW").header
                          /\ q.header = "user-agent" =>
                                Seen(q).value = Seen(Row(r, i, "ALLOW")).value
    BY DEF ClearUnlessBlocked
  <1> DEFINE row == Row(r, i, "ALLOW")
  <1>1. row \in rows
    BY DEF LoopInv, ReadInv, PhaseInv, AllClear
  <1>2. Seen(row) \in Read
    BY <1>1 DEF Read, Seen
  <1>3. Key(Seen(row)) \in blocked
    BY <1>2 DEF AllClear, finds
  <1>4. PICK p \in Read : /\ Key(p) = Key(Seen(row))
                          /\ p.action = "BLOCK" /\ p.path \in WAFX_VALID
    BY <1>3 DEF blocked
  <1>5. PICK q \in rows : p = Seen(q)
    BY <1>4 DEF Read, Seen
  <1>6. q.action = "BLOCK" /\ q.path \in WAFX_VALID /\ Seen(q).header = q.header
    BY <1>4, <1>5, SeenIsTheRow
  <1>7. Seen(row).header = row.header
    BY SeenIsTheRow DEF wafxClassify
  <1>8. /\ Seen(q).header = Seen(row).header
        /\ Seen(q).header = "user-agent" => Seen(q).value = Seen(row).value
    BY <1>4, <1>5 DEF Key
  <1>9. QED
    BY <1>6, <1>7, <1>8

\* "Nothing to block", said of a whole report, is true up to headers of which, or
\* agents of which as they are read, another request was blocked.
THEOREM ClearOrBlocked == LoopSpec => []ClearUnlessBlocked
  BY LoopInvariant, ClearUnlessBlockedFollows, PTL
=============================================================================
