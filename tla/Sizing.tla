------------------------------- MODULE Sizing -------------------------------
(***************************************************************************)
(* What is made of a load profile (logcheck/recommend.py): for a rate that *)
(* is expected, how many pods an application needs, what each should ask   *)
(* for, the limits and the target of its autoscaler, and the nodes.        *)
(*                                                                         *)
(* Fractions are kept exact where the program computes with floats, but    *)
(* for what profile.csv has rounded.                                       *)
(***************************************************************************)
EXTENDS LoadProfile

CONSTANTS
    Targets,   \* rates that may be expected
    Safety,    \* --safety, in percent
    NoAdvice

ASSUME SizingAssumption ==
    /\ Targets \subseteq Nat
    /\ Safety \in Nat \ {0}

VARIABLE advice

vars == <<measured, results, advice>>

NODE_CPU_M == 1800
SYS_CPU_M == 600

CeilDiv(a, b) == -((-a) \div b)

-----------------------------------------------------------------------------
\* float(...) or 1.0: no ready pod at all counts as one.
replicas(b) == IF profile[b].replicas = 0 THEN 100 ELSE profile[b].replicas

\* Variant: the walk ends where the limit is exceeded first.
find_capacity_before_breach ==
    LET below == {b \in DOMAIN profile : \A c \in DOMAIN profile :
                                            c <= b => profile[c].p95 <= 10 * SLA_MS}
    IN  IF below = {} THEN Min(DOMAIN profile) ELSE Max(below)

\* The highest bucket within the limit, or the lowest if there is none.
find_capacity_per_pod ==
    LET within == {b \in DOMAIN profile : profile[b].p95 <= 10 * SLA_MS}
    IN  IF within = {} THEN Min(DOMAIN profile) ELSE Max(within)

\* target / (b / replicas) * safety, rounded up.
recommend_pods(target, b) ==
    Max({1, CeilDiv(target * replicas(b) * Safety, 100 * 100 * b)})

\* CPU time per pod is cpu(b) / replicas(b) millicores.
cpu(b) == 10 * profile[b].cpu

\* Half as much again as was used, rounded up in steps of 50.
Request(b) == Max({100, ((3 * cpu(b)) \div (100 * replicas(b)) + 1) * 50})

\* Variant: the target is rounded up.
TargetCpuRoundedUp(b) ==
    Max({50, Min({80, CeilDiv(100 * cpu(b), replicas(b) * Request(b))})})

TargetCpu(b) == Max({50, Min({80, (100 * cpu(b)) \div (replicas(b) * Request(b))})})

Nodes(pod, b, minimum) ==
    Max({minimum, CeilDiv(pod * cpu(b) + SYS_CPU_M * replicas(b), NODE_CPU_M * replicas(b))})

Recommend(target, mode) ==
    /\ ~Running /\ advice = NoAdvice
    /\ LET b == find_capacity_per_pod
           minimum == IF mode = "ha" THEN 2 ELSE 1
           pod == Max({minimum, recommend_pods(target, b)})
       IN  advice' = [target |-> target, at |-> b, pods |-> pod,
                      extrapolated |-> target > Max(DOMAIN profile),
                      request |-> Request(b), targetCPU |-> TargetCpu(b),
                      min |-> Max({minimum, 2, pod \div 3}),
                      max |-> Max({pod * 2, pod + 2}),
                      nodes |-> Nodes(pod, b, IF mode = "ha" THEN 3 ELSE 2)]
    /\ UNCHANGED <<measured, results>>

\* The script is run again.
Again ==
    /\ advice # NoAdvice
    /\ advice' = NoAdvice
    /\ UNCHANGED <<measured, results>>

Start == Init /\ advice = NoAdvice

Next ==
    \/ (Advance \/ Scale \/ Stamp \/ Read \/ Analyse) /\ UNCHANGED advice
    \/ \E target \in Targets, mode \in {"cost", "ha"} : Recommend(target, mode)
    \/ Again

Spec == Start /\ [][Next]_vars

-----------------------------------------------------------------------------
Advised == advice # NoAdvice

\* If every row tells what was true in its window and the bucket that was chosen
\* has any, some window of that bucket, with as few pods as it had at some time, is
\* the evidence for the number of pods that is advised.  First, with the safety
\* added, a pod's part of the expected rate is at most that window's part of the
\* bucket's upper end, which the program takes for the rate that was measured,
\* though it may have been lower.  Second, for all that, it is at most two and a half
\* times what a pod had in that window; in the lowest bucket, which has no lower end,
\* it may be any.  Time stamps, windows, buckets and two averages lie between.
SizedByEvidence ==
    Advised /\ clean /\ (\E i \in DOMAIN csv : csv[i].win \in WindowsOf(advice.at)) =>
        \E w \in WindowsOf(advice.at) : \E n \in had[w] :
            LET needed == advice.target * n * Safety
            IN  /\ needed <= 100 * advice.at * advice.pods
                /\ advice.at > Min(RPS_BUCKETS) =>
                       2 * WINDOW * needed <= 5 * 100 * reqs(w) * advice.pods

\* The report and the advice are two programs' readings of one load.  If the
\* report finds no breach, the highest bucket is what pods are counted by.  If it
\* finds one, no bucket is used that exceeds the limit by more than the rounding
\* of profile.csv hides, unless all do.
AdviceFollowsReport ==
    Advised =>
        /\ breach = 0 => advice.at = Max(DOMAIN profile)
        /\ (\E b \in buckets : ~Exceeds(b)) => pct(dur(advice.at), 95) <= 100 * SLA_MS + 5

\* The autoscaler with the settings advised does not run on fewer pods than were
\* advised for the load: it lets no pod use more than was measured, and may go
\* up to that number.  The exception is a pod that was seen to use less than 75
\* millicores, for which the target of at least 50 % may be too high.
HpaKeepsSizing ==
    Advised /\ cpu(advice.at) >= 75 * replicas(advice.at) =>
        /\ advice.request * advice.targetCPU * replicas(advice.at) <= 100 * cpu(advice.at)
        /\ advice.min <= advice.max /\ advice.pods <= advice.max
=============================================================================
