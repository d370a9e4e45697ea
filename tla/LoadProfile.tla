---------------------------- MODULE LoadProfile ----------------------------
(***************************************************************************)
(* How the load that an application bears is measured (logcheck/run.sh):   *)
(*                                                                         *)
(*   profile.js has k6 send requests, whose durations it records;          *)
(*   collect.sh meanwhile writes down how many pods are ready and what CPU *)
(*   time they use, under the time at which it began to ask;               *)
(*   analyze.py joins the two by windows of ten seconds and summarises the *)
(*   windows whose rate of requests falls into the same bucket.            *)
(*                                                                         *)
(* One application, as all three are measured alike.  Memory and nodes are *)
(* summarised just as CPU time is, and left out, like errors, which nobody *)
(* reads.  Durations are in hundredths of a millisecond.                   *)
(***************************************************************************)
EXTENDS Integers, Sequences, FiniteSetsExt, Functions

CONSTANTS
    Windows,   \* windows that k6 runs for
    Loads,     \* what may happen in a window: how many requests of which duration
    Ready,     \* how many pods may be ready
    PodCpu,    \* what one pod may use, in millicores
    SLA_MS     \* the application's limit for its 95th percentile

ASSUME LoadProfileAssumption ==
    /\ Windows \in Nat \ {0}
    /\ \A l \in Loads : /\ IsFiniteSet(DOMAIN l) /\ DOMAIN l \subseteq Nat
                        /\ \A d \in DOMAIN l : l[d] \in Nat
    /\ Ready \subseteq Nat \ {0}
    /\ PodCpu \subseteq Nat
    /\ SLA_MS \in Nat

WINDOW == 10
RPS_BUCKETS == {10, 25, 50, 100, 200, 400, 700, 1000, 1500}

\* sampling[1] is the window in which collect.sh took the time.
Asleep == <<>>

VARIABLES
    load,      \* the windows of k6 so far
    pods,      \* how many pods are ready
    sampling,  \* where collect.sh is
    csv,       \* metrics.csv
    had,       \* had[w]: how many pods were ready at some time in window w
    clean,     \* all rows tell what was true in their window
    profile,   \* profile.csv, by bucket
    breach     \* the report's bucket in which the limit is first exceeded, or 0

measured == <<load, pods, sampling, csv, had, clean>>
results == <<profile, breach>>

now == Len(load)

\* No row of the profile exists before analyze.py has written it.
NoProfile == [b \in {} |-> 0]

Init ==
    /\ load \in [1 .. 1 -> Loads]
    /\ pods \in Ready
    /\ sampling = Asleep
    /\ csv = <<>>
    /\ had = <<{pods}>>
    /\ clean = TRUE
    /\ profile = NoProfile
    /\ breach = 0

Running == profile = NoProfile

\* k6 goes on to the next window.
Advance ==
    /\ Running /\ now < Windows
    /\ \E l \in Loads : load' = Append(load, l)
    /\ had' = Append(had, {pods})
    /\ UNCHANGED <<pods, sampling, csv, clean, results>>

\* The autoscaler, or pods that become ready or fail.
Scale ==
    /\ Running
    /\ \E n \in Ready \ {pods} :
          /\ pods' = n
          /\ had' = [had EXCEPT ![now] = @ \cup {n}]
    /\ UNCHANGED <<load, sampling, csv, clean, results>>

-----------------------------------------------------------------------------
(***************************************************************************)
(* collect.sh                                                              *)
(***************************************************************************)
\* After sleeping for ten seconds it is at least one window later.
Stamp ==
    /\ Running /\ sampling = Asleep
    /\ csv # <<>> => csv[Len(csv)].win < now
    /\ sampling' = <<now>>
    /\ UNCHANGED <<load, pods, csv, had, clean, results>>

\* kubectl answers, maybe a window late; what it cannot tell is written as 0.
Read ==
    /\ Running /\ sampling # Asleep
    /\ \E c \in PodCpu, replicas \in {pods, 0}, used \in BOOLEAN :
          LET row == [win |-> sampling[1], replicas |-> replicas,
                      cpu |-> IF used THEN pods * c ELSE 0]
          IN  /\ csv' = Append(csv, row)
              /\ clean' = (clean /\ replicas = pods /\ used /\ row.win = now)
    /\ sampling' = Asleep
    /\ UNCHANGED <<load, pods, had, results>>

-----------------------------------------------------------------------------
(***************************************************************************)
(* analyze.py                                                              *)
(***************************************************************************)
\* To the nearest, and to the even one of two, as Python's round does.
Round(a, b) ==
    LET q == a \div b
        r == a % b
    IN  IF 2 * r > b \/ (2 * r = b /\ q % 2 = 1) THEN q + 1 ELSE q

reqs(w) == SumFunction(load[w])

\* Rates beyond the last bucket are in the last.
bucket_for(n) ==
    LET above == {b \in RPS_BUCKETS : n <= b * WINDOW}
    IN  IF above = {} THEN Max(RPS_BUCKETS) ELSE Min(above)

\* The windows that make a bucket.  One without requests has no samples.
WindowsOf(b) == {w \in DOMAIN load : reqs(w) > 0 /\ bucket_for(reqs(w)) = b}

dur(b) ==
    LET windows == WindowsOf(b)
        durations == UNION {DOMAIN load[w] : w \in windows}
        times(w, d) == IF d \in DOMAIN load[w] THEN load[w][d] ELSE 0
    IN  [d \in durations |-> SumFunction([w \in windows |-> times(w, d)])]

\* The value at position k of the sorted list, which begins with 0.
pct(durations, p) ==
    LET n == SumFunction(durations)
        k == Max({0, Min({n - 1, Round(p * (n - 1), 100)})})
        upto(d) == SumFunctionOnSet(durations, {e \in DOMAIN durations : e <= d})
    IN  Min({d \in DOMAIN durations : k < upto(d)})

\* Variant: rows are joined with the window before.
RowsBefore(b) == {i \in DOMAIN csv : csv[i].win + 1 \in WindowsOf(b)}

\* The rows of metrics.csv that are joined with a bucket.
RowsOf(b) == {i \in DOMAIN csv : csv[i].win \in WindowsOf(b)}

avg(f, scale) ==
    IF DOMAIN f = {} THEN 0 ELSE Round(scale * SumFunction(f), Cardinality(DOMAIN f))

\* A row of profile.csv: the percentile and the CPU time in tenths, the
\* replicas in hundredths.
ProfileRow(b) ==
    [p95 |-> Round(pct(dur(b), 95), 10),
     replicas |-> avg([i \in RowsOf(b) |-> csv[i].replicas], 100),
     cpu |-> avg([i \in RowsOf(b) |-> csv[i].cpu], 10)]

buckets == {b \in RPS_BUCKETS : WindowsOf(b) # {}}

\* The report compares what has not been rounded.
Exceeds(b) == pct(dur(b), 95) > 100 * SLA_MS

\* k6 has ended, and collect.sh is killed wherever it is.
Analyse ==
    /\ Running /\ now = Windows
    /\ buckets # {}
    /\ profile' = [b \in buckets |-> ProfileRow(b)]
    /\ breach' = IF \E b \in buckets : Exceeds(b) THEN Min({b \in buckets : Exceeds(b)}) ELSE 0
    /\ UNCHANGED measured
=============================================================================
