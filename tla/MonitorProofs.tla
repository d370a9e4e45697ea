--------------------------- MODULE MonitorProofs ---------------------------
(***************************************************************************)
(* The monitor for any number of applications, windows, loads and pages of *)
(* the web ACL's log: what diagnose says is true, whatever calls fail and  *)
(* however the cluster changes between them.                               *)
(***************************************************************************)
EXTENDS Monitor, FiniteSetTheorems, SequenceTheorems, TLAPS

\* What diagnose will say, between what was wrong at some time and all the time.
AlarmInv(d) ==
    d.at \in {"logs", "pods", "groups"} =>
        /\ d.alarms \subseteq d.met
        /\ d.held \cap d.seen \subseteq d.alarms
        /\ d.held \subseteq troubles
        /\ troubles \subseteq d.met

\* Of the web ACL's log a load has read the first requests, and all of them if its
\* last page said so.
PageInv(d) ==
    /\ d.at = "logs" => d.todo # {}
    /\ d.at \in {"logs", "pods", "groups"} => d.waf = <<>> /\ d.read = 0
    /\ d.at = "pages" => d.read < MaxPages
    /\ Len(d.waf) <= Len(blocked)
    /\ \A i \in 1 .. Len(d.waf) : d.waf[i] = blocked[i]
    /\ d.at = "back" /\ d.enabled /\ ~d.cut /\ d.read < MaxPages => Len(d.waf) = Len(blocked)

MonitorInv == TypeOK /\ \A l \in Load : AlarmInv(load[l]) /\ PageInv(load[l])

\* A record of these fields is a load.
LEMMA LoadTyped ==
  ASSUME NEW d \in LoadState
  PROVE  /\ d.at \in {"idle", "logs", "pods", "groups", "pages", "back"} /\ d.hangs \in BOOLEAN
         /\ d.since \in Window /\ d.minutes \in Nat /\ d.todo \subseteq App
         /\ d.alarms \subseteq Trouble /\ d.enabled \in BOOLEAN /\ d.waf \in Seq(Uri)
         /\ d.read \in 0 .. MaxPages /\ d.seen \subseteq Trouble /\ d.met \subseteq Trouble
         /\ d.held \subseteq Trouble /\ d.cut \in BOOLEAN
  BY DEF LoadState

\* An idle load satisfies everything.
LEMMA IdleGood ==
  ASSUME TypeOK
  PROVE  Idle \in LoadState /\ AlarmInv(Idle) /\ PageInv(Idle)
  <1>1. Default \in Window /\ MaxPages \in Nat /\ blocked \in Seq(Uri)
    BY MonitorAssumption DEF TypeOK
  <1>2. Idle \in LoadState
    BY <1>1 DEF Idle, LoadState
  <1>3. AlarmInv(Idle)
    BY DEF Idle, AlarmInv
  <1>4. PageInv(Idle)
    BY <1>1 DEF Idle, PageInv
  <1>5. QED
    BY <1>2, <1>3, <1>4

\* A new load satisfies everything.
LEMMA StartedGood ==
  ASSUME TypeOK, NEW w \in Window
  PROVE  Started(w) \in LoadState /\ AlarmInv(Started(w)) /\ PageInv(Started(w))
  <1>1. /\ Default \in Window /\ MaxPages \in Nat /\ blocked \in Seq(Uri)
        /\ troubles \subseteq Trouble /\ App # {}
    BY MonitorAssumption DEF TypeOK
  <1>2. Minutes(w) \in Nat
    BY MonitorAssumption DEF Minutes
  <1>3. /\ Started(w).at = "logs" /\ Started(w).todo = App /\ Started(w).alarms = {}
        /\ Started(w).seen = {} /\ Started(w).met = troubles /\ Started(w).held = troubles
        /\ Started(w).waf = <<>> /\ Started(w).read = 0
    BY DEF Started, Idle
  <1>4. Started(w) \in LoadState
    <2>1. Idle \in LoadState
      BY IdleGood
    <2>2. QED
      BY <1>1, <1>2, <2>1 DEF Started, LoadState
  <1>5. AlarmInv(Started(w))
    BY <1>3 DEF AlarmInv
  <1>6. PageInv(Started(w))
    BY <1>1, <1>3 DEF PageInv
  <1>7. QED
    BY <1>4, <1>5, <1>6

\* A step that changes one load and not the cluster keeps the invariant if the new
\* load satisfies it.
LEMMA OneLoad ==
  ASSUME MonitorInv, NEW l \in Load, NEW d \in LoadState, AlarmInv(d), PageInv(d),
         load' = [load EXCEPT ![l] = d], UNCHANGED <<cluster, ui>>,
         selected' \in Window, selects' \in 0 .. MaxSelects, shown' \in Data \cup {NoData}
  PROVE  MonitorInv'
  <1>1. load \in [Load -> LoadState]
    BY DEF MonitorInv, TypeOK
  <1>2. load' \in [Load -> LoadState]
    BY <1>1
  <1>3. troubles' = troubles /\ blocked' = blocked /\ changes' = changes /\ ui' = ui
    BY DEF cluster
  <1>4. TypeOK'
    BY <1>2, <1>3 DEF MonitorInv, TypeOK
  <1>5. ASSUME NEW k \in Load
        PROVE  (AlarmInv(load[k]) /\ PageInv(load[k]))'
    <2>1. AlarmInv(load'[k]) /\ PageInv(load'[k])
      <3>1. CASE k = l
        BY <1>1, <3>1
      <3>2. CASE k # l
        BY <1>1, <3>2 DEF MonitorInv
      <3>3. QED
        BY <3>1, <3>2
    <2>2. QED
      BY <1>3, <2>1 DEF AlarmInv, PageInv
  <1>6. QED
    BY <1>4, <1>5 DEF MonitorInv

\* At first no load is under way.
LEMMA MonitorInit == Init => MonitorInv
  <1> SUFFICES ASSUME Init PROVE MonitorInv
    OBVIOUS
  <1>1. /\ Default \in Window /\ {MaxPages, MaxChanges, MaxSelects} \subseteq Nat
        /\ blocked \in Log /\ blocked \in Seq(Uri) /\ troubles \subseteq Trouble
    BY MonitorAssumption DEF Init, Trouble
  <1>2. Idle \in LoadState
    BY <1>1 DEF Idle, LoadState
  <1>3. load = [l \in Load |-> Idle]
    BY DEF Init
  <1>4. load \in [Load -> LoadState]
    BY <1>2, <1>3
  <1>5. TypeOK
    BY <1>1, <1>4 DEF Init, TypeOK
  <1>6. AlarmInv(Idle) /\ PageInv(Idle)
    BY <1>5, IdleGood
  <1>7. \A l \in Load : AlarmInv(load[l]) /\ PageInv(load[l])
    BY <1>3, <1>6
  <1>8. QED
    BY <1>5, <1>7 DEF MonitorInv

-----------------------------------------------------------------------------
\* The cluster changes: every load under way has met it, and holds no more than it.
LEMMA ChangeKeeps ==
  ASSUME MonitorInv, Change
  PROVE  MonitorInv'
  <1>1. load \in [Load -> LoadState] /\ changes \in 0 .. MaxChanges /\ MaxChanges \in Nat
        /\ troubles \subseteq Trouble
    BY MonitorAssumption DEF MonitorInv, TypeOK
  <1>2. troubles' \subseteq Trouble /\ changes' \in 0 .. MaxChanges
    <2>1. PICK t \in Trouble : troubles' = IF t \in troubles THEN troubles \ {t}
                                          ELSE troubles \cup {t}
      BY DEF Change
    <2>2. troubles' \subseteq Trouble
      BY <1>1, <2>1
    <2>3. changes' = changes + 1 /\ changes < MaxChanges
      BY DEF Change
    <2>4. QED
      BY <1>1, <2>2, <2>3
  <1>3. blocked' = blocked /\ UNCHANGED page
    BY DEF Change
  <1> DEFINE Met(d) == [d EXCEPT !.met = d.met \cup troubles', !.held = d.held \cap troubles']
             Now(d) == IF d.at \notin {"logs", "pods", "groups"} THEN d ELSE Met(d)
  <1>4. load' = [l \in Load |-> Now(load[l])]
    BY DEF Change
  <1>5. ASSUME NEW l \in Load
        PROVE  /\ Now(load[l]) \in LoadState
               /\ AlarmInv(load[l])' /\ PageInv(load[l])'
    <2>1. load'[l] = Now(load[l]) /\ load[l] \in LoadState
      BY <1>1, <1>4
    <2>2. AlarmInv(load[l]) /\ PageInv(load[l])
      BY DEF MonitorInv
    <2>3. CASE load[l].at \notin {"logs", "pods", "groups"}
      <3>1. load'[l] = load[l]
        BY <2>1, <2>3
      <3>2. QED
        BY <1>3, <2>1, <2>2, <2>3, <3>1 DEF AlarmInv, PageInv
    <2>4. CASE load[l].at \in {"logs", "pods", "groups"}
      <3>1. load'[l] = Met(load[l])
        BY <2>1, <2>4
      <3>2. Met(load[l]) \in LoadState
        BY <1>2, <2>1 DEF LoadState
      <3>3. /\ load'[l].at = load[l].at /\ load'[l].alarms = load[l].alarms
            /\ load'[l].seen = load[l].seen /\ load'[l].todo = load[l].todo
            /\ load'[l].waf = load[l].waf /\ load'[l].read = load[l].read
            /\ load'[l].enabled = load[l].enabled /\ load'[l].cut = load[l].cut
            /\ load'[l].met = load[l].met \cup troubles'
            /\ load'[l].held = load[l].held \cap troubles'
        BY <2>1, <3>1 DEF LoadState
      <3>4. AlarmInv(load[l])'
        BY <2>2, <2>4, <3>3 DEF AlarmInv
      <3>5. PageInv(load[l])'
        BY <1>3, <2>2, <3>3 DEF PageInv
      <3>6. QED
        BY <2>1, <3>1, <3>2, <3>4, <3>5
    <2>5. QED
      BY <2>3, <2>4
  <1>6. load' \in [Load -> LoadState]
    BY <1>4, <1>5
  <1>7. TypeOK'
    BY <1>2, <1>3, <1>6 DEF MonitorInv, TypeOK, page
  <1>8. QED
    BY <1>5, <1>7 DEF MonitorInv

\* The page asks again, for the selected window.
LEMMA ReloadKeeps ==
  ASSUME MonitorInv, NEW l \in Load, Reload(l)
  PROVE  MonitorInv'
  <1>1. TypeOK /\ selected \in Window
    BY DEF MonitorInv, TypeOK
  <1>2. Started(selected) \in LoadState /\ AlarmInv(Started(selected)) /\ PageInv(Started(selected))
    BY <1>1, StartedGood
  <1>3. /\ load' = [load EXCEPT ![l] = Started(selected)] /\ UNCHANGED <<cluster, ui>>
        /\ selected' \in Window /\ selects' \in 0 .. MaxSelects /\ shown' \in Data \cup {NoData}
    BY <1>1 DEF Reload, TypeOK, page
  <1>4. QED
    BY <1>2, <1>3, OneLoad

\* Another window is selected.
LEMMA SelectKeeps ==
  ASSUME MonitorInv, NEW l \in Load, NEW w \in Window, Select(l, w)
  PROVE  MonitorInv'
  <1>1. TypeOK /\ MaxSelects \in Nat
    BY MonitorAssumption DEF MonitorInv
  <1>2. Started(w) \in LoadState /\ AlarmInv(Started(w)) /\ PageInv(Started(w))
    BY <1>1, StartedGood
  <1>3. /\ load' = [load EXCEPT ![l] = Started(w)] /\ UNCHANGED <<cluster, ui>>
        /\ selected' \in Window /\ selects' \in 0 .. MaxSelects /\ shown' \in Data \cup {NoData}
    BY <1>1 DEF Select, TypeOK
  <1>4. QED
    BY <1>2, <1>3, OneLoad

\* What a load is said to have found holds of what it was read of.
LEMMA FoundGood ==
  ASSUME MonitorInv, NEW l \in Load, load[l].at \in {"logs", "pods"},
         NEW read \in BOOLEAN, NEW about \in SUBSET Trouble
  PROVE  /\ Found(load[l], read, about) \in LoadState
         /\ AlarmInv(Found(load[l], read, about))
         /\ Found(load[l], read, about).at = load[l].at
         /\ Found(load[l], read, about).todo = load[l].todo
         /\ Found(load[l], read, about).waf = <<>>
         /\ Found(load[l], read, about).read = 0
  <1> DEFINE d == load[l]
             e == Found(d, read, about)
  <1>1. d \in LoadState /\ AlarmInv(d) /\ PageInv(d) /\ troubles \subseteq Trouble
    BY DEF MonitorInv, TypeOK
  <1>2. /\ e.at = d.at /\ e.todo = d.todo /\ e.waf = d.waf /\ e.read = d.read
        /\ e.met = d.met /\ e.held = d.held
        /\ e.seen = IF read THEN d.seen \cup about ELSE d.seen
        /\ e.alarms = IF read THEN d.alarms \cup (troubles \cap about) ELSE d.alarms
    BY <1>1 DEF Found, LoadState
  <1>3. e \in LoadState
    <2>1. (IF read THEN d.seen \cup about ELSE d.seen) \subseteq Trouble
      BY <1>1, LoadTyped
    <2>2. (IF read THEN d.alarms \cup (troubles \cap about) ELSE d.alarms) \subseteq Trouble
      BY <1>1, LoadTyped
    <2>3. QED
      BY <1>1, <2>1, <2>2 DEF Found, LoadState
  <1>4. AlarmInv(e)
    <2>1. CASE read
      BY <1>1, <1>2, <2>1 DEF AlarmInv
    <2>2. CASE ~read
      BY <1>1, <1>2, <2>2 DEF AlarmInv
    <2>3. QED
      BY <2>1, <2>2
  <1>5. d.waf = <<>> /\ d.read = 0
    BY <1>1 DEF PageInv
  <1>6. QED
    BY <1>2, <1>3, <1>4, <1>5

\* The log of an application was read, or not.
LEMMA ReadLogKeeps ==
  ASSUME MonitorInv, NEW l \in Load, NEW read \in BOOLEAN, ReadLog(l, read),
         UNCHANGED <<cluster, page>>
  PROVE  MonitorInv'
  <1> DEFINE a == NextApp(l)
             e == Found(load[l], read, {<<"log", a>>})
             d == [e EXCEPT !.todo = load[l].todo \ {a},
                            !.at = IF load[l].todo = {a} THEN "pods" ELSE "logs"]
  <1>1. load[l] \in LoadState /\ PageInv(load[l]) /\ load[l].at = "logs" /\ blocked \in Seq(Uri)
    BY MonitorAssumption DEF MonitorInv, TypeOK, ReadLog
  <1>2. a \in load[l].todo /\ load[l].todo \subseteq App
    BY <1>1 DEF NextApp, PageInv, LoadState
  <1>3. {<<"log", a>>} \in SUBSET Trouble
    BY <1>2 DEF Trouble
  <1>4. /\ e \in LoadState /\ AlarmInv(e) /\ e.at = "logs" /\ e.todo = load[l].todo
        /\ e.waf = <<>> /\ e.read = 0
    BY <1>1, <1>3, FoundGood
  <1>5. load' = [load EXCEPT ![l] = d]
    BY Zenon DEF ReadLog
  <1> HIDE DEF e, a
  <1>6. /\ d.at \in {"logs", "pods"} /\ d.todo = load[l].todo \ {a}
        /\ d.at = "logs" => load[l].todo # {a}
        /\ d.alarms = e.alarms /\ d.met = e.met /\ d.held = e.held /\ d.seen = e.seen
        /\ d.waf = <<>> /\ d.read = 0
    BY <1>4 DEF LoadState
  <1>7. d \in LoadState
    BY <1>2, <1>4 DEF LoadState
  <1>8. AlarmInv(d)
    BY <1>4, <1>6 DEF AlarmInv
  <1>9. PageInv(d)
    BY <1>1, <1>2, <1>6 DEF PageInv
  <1>10. /\ UNCHANGED <<cluster, ui>>
         /\ selected' \in Window /\ selects' \in 0 .. MaxSelects /\ shown' \in Data \cup {NoData}
    BY DEF MonitorInv, TypeOK, page
  <1> HIDE DEF d
  <1>11. QED
    BY <1>5, <1>7, <1>8, <1>9, <1>10, OneLoad

\* The pods were read, or not.
LEMMA ReadPodsKeeps ==
  ASSUME MonitorInv, NEW l \in Load, NEW read \in BOOLEAN, ReadPods(l, read),
         UNCHANGED <<cluster, page>>
  PROVE  MonitorInv'
  <1> DEFINE e == Found(load[l], read, {"pods"} \X App)
             d == [e EXCEPT !.at = "groups"]
  <1>1. load[l] \in LoadState /\ load[l].at = "pods" /\ blocked \in Seq(Uri)
    BY MonitorAssumption DEF MonitorInv, TypeOK, ReadPods
  <1>2. {"pods"} \X App \in SUBSET Trouble
    BY DEF Trouble
  <1>3. e \in LoadState /\ AlarmInv(e) /\ e.at = "pods" /\ e.waf = <<>> /\ e.read = 0
    BY <1>1, <1>2, FoundGood
  <1>4. load' = [load EXCEPT ![l] = d]
    BY DEF ReadPods
  <1> HIDE DEF e
  <1>5. /\ d.at = "groups" /\ d.alarms = e.alarms /\ d.met = e.met /\ d.held = e.held
        /\ d.seen = e.seen /\ d.waf = <<>> /\ d.read = 0
    BY <1>3 DEF LoadState
  <1>6. d \in LoadState
    BY <1>3 DEF LoadState
  <1>7. AlarmInv(d)
    BY <1>3, <1>5 DEF AlarmInv
  <1>8. PageInv(d)
    BY <1>1, <1>5 DEF PageInv
  <1>9. /\ UNCHANGED <<cluster, ui>>
        /\ selected' \in Window /\ selects' \in 0 .. MaxSelects /\ shown' \in Data \cup {NoData}
    BY DEF MonitorInv, TypeOK, page
  <1> HIDE DEF d
  <1>10. QED
    BY <1>4, <1>6, <1>7, <1>8, <1>9, OneLoad

\* The log group was found, or not.
LEMMA FindGroupKeeps ==
  ASSUME MonitorInv, NEW l \in Load, NEW read \in BOOLEAN, FindGroup(l, read),
         UNCHANGED <<cluster, page>>
  PROVE  MonitorInv'
  <1> DEFINE d == [load[l] EXCEPT !.hangs = FALSE, !.enabled = read,
                                  !.at = IF read THEN "pages" ELSE "back",
                                  !.seen = {}, !.met = {}, !.held = {}]
  <1>1. /\ load[l] \in LoadState /\ PageInv(load[l]) /\ load[l].at = "groups"
        /\ blocked \in Seq(Uri) /\ MaxPages \in Nat /\ MaxPages > 0
    BY MonitorAssumption DEF MonitorInv, TypeOK, FindGroup
  <1>2. load' = [load EXCEPT ![l] = d]
    BY DEF FindGroup
  <1>3. /\ d.at = (IF read THEN "pages" ELSE "back") /\ d.enabled = read
        /\ d.waf = <<>> /\ d.read = 0
    BY <1>1 DEF LoadState, PageInv
  <1>4. d \in LoadState
    BY <1>1 DEF LoadState
  <1>5. AlarmInv(d)
    BY <1>3 DEF AlarmInv
  <1>6. PageInv(d)
    BY <1>1, <1>3 DEF PageInv
  <1>7. /\ UNCHANGED <<cluster, ui>>
        /\ selected' \in Window /\ selects' \in 0 .. MaxSelects /\ shown' \in Data \cup {NoData}
    BY DEF MonitorInv, TypeOK, page
  <1> HIDE DEF d
  <1>8. QED
    BY <1>2, <1>4, <1>5, <1>6, <1>7, OneLoad

\* What a page adds to the first requests of a log are the next ones.
LEMMA PrefixGrows ==
  ASSUME NEW s \in Seq(Uri), NEW t \in Seq(Uri), Len(s) <= Len(t),
         \A i \in 1 .. Len(s) : s[i] = t[i],
         NEW n \in 0 .. Len(SubSeq(t, Len(s) + 1, Len(t)))
  PROVE  LET u == s \o SubSeq(SubSeq(t, Len(s) + 1, Len(t)), 1, n)
         IN  /\ u \in Seq(Uri) /\ Len(u) = Len(s) + n /\ Len(u) <= Len(t)
             /\ \A i \in 1 .. Len(u) : u[i] = t[i]
             /\ n = Len(SubSeq(t, Len(s) + 1, Len(t))) => Len(u) = Len(t)
  <1> DEFINE rest == SubSeq(t, Len(s) + 1, Len(t))
             next == SubSeq(rest, 1, n)
             u == s \o next
  <1>1. Len(s) \in Nat /\ Len(t) \in Nat
    OBVIOUS
  <1>2. \A i \in Len(s) + 1 .. Len(t) : t[i] \in Uri
    BY <1>1
  <1>3. /\ rest \in Seq(Uri) /\ Len(rest) = Len(t) - Len(s)
        /\ \A i \in 1 .. Len(t) - Len(s) : rest[i] = t[Len(s) + i]
    <2>1. /\ rest \in Seq(Uri)
          /\ Len(rest) = IF Len(s) + 1 <= Len(t) THEN Len(t) - (Len(s) + 1) + 1 ELSE 0
          /\ \A i \in 1 .. Len(t) - (Len(s) + 1) + 1 : rest[i] = t[(Len(s) + 1) + i - 1]
      BY <1>1, <1>2, SubSeqProperties
    <2> HIDE DEF rest
    <2>2. QED
      BY <1>1, <2>1
  <1> HIDE DEF rest
  <1>4. n \in 0 .. Len(t) - Len(s)
    BY <1>3 DEF rest
  <1>5. \A i \in 1 .. n : rest[i] \in Uri
    BY <1>1, <1>3, <1>4
  <1>6. /\ next \in Seq(Uri) /\ Len(next) = n
        /\ \A i \in 1 .. n : next[i] = rest[i]
    <2>1. /\ next \in Seq(Uri)
          /\ Len(next) = IF 1 <= n THEN n - 1 + 1 ELSE 0
          /\ \A i \in 1 .. n - 1 + 1 : next[i] = rest[1 + i - 1]
      BY <1>1, <1>4, <1>5, SubSeqProperties
    <2> HIDE DEF next
    <2>2. QED
      BY <1>1, <1>4, <2>1
  <1> HIDE DEF next
  <1>7. /\ u \in Seq(Uri) /\ Len(u) = Len(s) + n
        /\ \A i \in 1 .. Len(s) + n : u[i] = IF i <= Len(s) THEN s[i] ELSE next[i - Len(s)]
    BY <1>6, ConcatProperties
  <1> HIDE DEF u
  <1>8. ASSUME NEW i \in 1 .. Len(s) + n
        PROVE  u[i] = t[i]
    <2>1. CASE i <= Len(s)
      BY <1>1, <1>7, <2>1
    <2>2. CASE i > Len(s)
      <3>1. i - Len(s) \in 1 .. n /\ Len(s) + (i - Len(s)) = i
        BY <1>1, <1>4, <2>2
      <3>2. next[i - Len(s)] = rest[i - Len(s)]
        BY <1>6, <3>1
      <3>3. rest[i - Len(s)] = t[i]
        <4>1. i - Len(s) \in 1 .. Len(t) - Len(s)
          BY <1>1, <1>4, <3>1
        <4>2. rest[i - Len(s)] = t[Len(s) + (i - Len(s))]
          BY <1>3, <4>1
        <4>3. QED
          BY <3>1, <4>2
      <3>4. QED
        BY <1>1, <1>7, <2>2, <3>2, <3>3
    <2>3. QED
      BY <1>1, <1>4, <2>1, <2>2
  <1>9. /\ Len(u) <= Len(t)
        /\ n = Len(rest) => Len(u) = Len(t)
    BY <1>1, <1>3, <1>4, <1>7
  <1>10. QED
    BY <1>7, <1>8, <1>9 DEF u, next, rest

\* A page of the web ACL's log was read, or not.
LEMMA ReadPageKeeps ==
  ASSUME MonitorInv, NEW l \in Load, NEW read \in BOOLEAN, ReadPage(l, read),
         UNCHANGED <<cluster, page>>
  PROVE  MonitorInv'
  <1>1. /\ load[l] \in LoadState /\ PageInv(load[l]) /\ load[l].at = "pages"
        /\ blocked \in Seq(Uri) /\ MaxPages \in Nat
    BY MonitorAssumption DEF MonitorInv, TypeOK, ReadPage
  <1>2. load[l].waf \in Seq(Uri) /\ load[l].read \in 0 .. MaxPages /\ load[l].read < MaxPages
    BY <1>1 DEF PageInv, LoadState
  <1>3. /\ UNCHANGED <<cluster, ui>>
        /\ selected' \in Window /\ selects' \in 0 .. MaxSelects /\ shown' \in Data \cup {NoData}
    BY DEF MonitorInv, TypeOK, page
  <1>4. CASE read
    <2> DEFINE rest == SubSeq(blocked, Len(load[l].waf) + 1, Len(blocked))
    <2>1. PICK n \in 0 .. Len(rest), token \in BOOLEAN :
              LET next == SubSeq(rest, 1, n)
                  last == Ends(next, token) \/ OutOfPages(load[l].read + 1)
              IN  /\ n < Len(rest) => token
                  /\ load' = [load EXCEPT ![l] =
                        [load[l] EXCEPT !.waf = load[l].waf \o next, !.read = load[l].read + 1,
                                  !.at = IF last THEN "back" ELSE "pages"]]
      BY <1>4, Zenon DEF ReadPage
    <2> DEFINE u == load[l].waf \o SubSeq(rest, 1, n)
               last == ~token \/ load[l].read + 1 = MaxPages
               d == [load[l] EXCEPT !.waf = u, !.read = load[l].read + 1,
                                    !.at = IF last THEN "back" ELSE "pages"]
    <2>2. load' = [load EXCEPT ![l] = d] /\ (n < Len(rest) => token)
      BY <2>1, Zenon DEF Ends, OutOfPages
    <2>3. /\ u \in Seq(Uri) /\ Len(u) <= Len(blocked)
          /\ \A i \in 1 .. Len(u) : u[i] = blocked[i]
          /\ n = Len(rest) => Len(u) = Len(blocked)
      BY <1>1, <1>2, PrefixGrows DEF PageInv
    <2>4. Len(rest) \in Nat
      BY <1>1, <1>2
    <2>5. ~token => Len(u) = Len(blocked)
      <3> HIDE DEF rest, u
      <3>1. QED
        BY <2>2, <2>3, <2>4
    <2> HIDE DEF u, rest
    <2>6. /\ d.waf = u /\ d.read = load[l].read + 1
          /\ d.at = (IF last THEN "back" ELSE "pages")
      BY <1>1 DEF LoadState
    <2>7. d \in LoadState
      <3>1. load[l].read + 1 \in 0 .. MaxPages
        BY <1>1, <1>2
      <3>2. (IF last THEN "back" ELSE "pages") \in {"idle", "logs", "pods", "groups", "pages", "back"}
        OBVIOUS
      <3>3. QED
        BY <1>1, <2>3, <3>1, <3>2 DEF LoadState
    <2>8. AlarmInv(d)
      BY <2>6 DEF AlarmInv
    <2>9. PageInv(d)
      BY <1>1, <1>2, <2>3, <2>5, <2>6 DEF PageInv
    <2> HIDE DEF d
    <2>10. QED
      BY <1>3, <2>2, <2>7, <2>8, <2>9, OneLoad
  <1>5. CASE ~read
    <2> DEFINE d == [load[l] EXCEPT !.hangs = FALSE, !.cut = TRUE, !.at = "back"]
    <2>1. load' = [load EXCEPT ![l] = d]
      BY <1>5 DEF ReadPage
    <2>2. d.waf = load[l].waf /\ d.read = load[l].read /\ d.at = "back" /\ d.cut = TRUE
      BY <1>1 DEF LoadState
    <2>3. d \in LoadState
      BY <1>1 DEF LoadState
    <2>4. AlarmInv(d)
      BY <2>2 DEF AlarmInv
    <2>5. PageInv(d)
      BY <1>1, <2>2 DEF PageInv
    <2> HIDE DEF d
    <2>6. QED
      BY <1>3, <2>1, <2>3, <2>4, <2>5, OneLoad
  <1>6. QED
    BY <1>4, <1>5

\* The server goes on with a load.
LEMMA ServeKeeps ==
  ASSUME MonitorInv, NEW l \in Load, Serve(l)
  PROVE  MonitorInv'
  <1>1. PICK read \in BOOLEAN : Call(l, read)
    BY Zenon DEF Serve
  <1>2. UNCHANGED <<cluster, page>>
    BY DEF Serve
  <1>3. QED
    BY <1>1, <1>2, ReadLogKeeps, ReadPodsKeeps, FindGroupKeeps, ReadPageKeeps DEF Call

\* A call hangs.
LEMMA HangKeeps ==
  ASSUME MonitorInv, NEW l \in Load, Hang(l)
  PROVE  MonitorInv'
  <1> DEFINE d == [load[l] EXCEPT !.hangs = TRUE]
  <1>1. load[l] \in LoadState /\ AlarmInv(load[l]) /\ PageInv(load[l])
    BY DEF MonitorInv, TypeOK
  <1>2. load' = [load EXCEPT ![l] = d]
    BY DEF Hang
  <1>3. /\ d.at = load[l].at /\ d.todo = load[l].todo /\ d.alarms = load[l].alarms
        /\ d.met = load[l].met /\ d.held = load[l].held /\ d.seen = load[l].seen
        /\ d.waf = load[l].waf /\ d.read = load[l].read /\ d.enabled = load[l].enabled
        /\ d.cut = load[l].cut
    BY <1>1 DEF LoadState
  <1>4. d \in LoadState
    BY <1>1 DEF LoadState
  <1>5. AlarmInv(d) /\ PageInv(d)
    BY <1>1, <1>3 DEF AlarmInv, PageInv
  <1>6. /\ UNCHANGED <<cluster, ui>>
        /\ selected' \in Window /\ selects' \in 0 .. MaxSelects /\ shown' \in Data \cup {NoData}
    BY DEF MonitorInv, TypeOK, Hang, page
  <1> HIDE DEF d
  <1>7. QED
    BY <1>2, <1>4, <1>5, <1>6, OneLoad

\* The answer is shown.
LEMMA DeliverKeeps ==
  ASSUME MonitorInv, NEW l \in Load, Deliver(l)
  PROVE  MonitorInv'
  <1>1. TypeOK /\ load[l] \in LoadState
    BY DEF MonitorInv, TypeOK
  <1>2. Idle \in LoadState /\ AlarmInv(Idle) /\ PageInv(Idle)
    BY <1>1, IdleGood
  <1>3. Answer(load[l]) \in Data
    BY <1>1 DEF Answer, Data, LoadState
  <1>4. /\ load' = [load EXCEPT ![l] = Idle] /\ UNCHANGED <<cluster, ui>>
        /\ selected' \in Window /\ selects' \in 0 .. MaxSelects /\ shown' \in Data \cup {NoData}
    BY <1>1, <1>3 DEF Deliver, TypeOK
  <1>5. QED
    BY <1>2, <1>4, OneLoad

\* A load fails.
LEMMA DropKeeps ==
  ASSUME MonitorInv, NEW l \in Load, Drop(l)
  PROVE  MonitorInv'
  <1>1. Idle \in LoadState /\ AlarmInv(Idle) /\ PageInv(Idle)
    BY IdleGood DEF MonitorInv
  <1>2. /\ load' = [load EXCEPT ![l] = Idle] /\ UNCHANGED <<cluster, ui>>
        /\ selected' \in Window /\ selects' \in 0 .. MaxSelects /\ shown' \in Data \cup {NoData}
    BY DEF Drop, MonitorInv, TypeOK, page
  <1>3. QED
    BY <1>1, <1>2, OneLoad

-----------------------------------------------------------------------------
\* Every step keeps the invariant.
LEMMA MonitorNext == MonitorInv /\ [Next]_vars => MonitorInv'
  <1> SUFFICES ASSUME MonitorInv, [Next]_vars PROVE MonitorInv'
    OBVIOUS
  <1>1. CASE Change
    BY <1>1, ChangeKeeps
  <1>2. ASSUME NEW l \in Load,
               \/ Reload(l) \/ Hang(l) \/ Serve(l) \/ Deliver(l) \/ Drop(l)
               \/ \E w \in Window : Select(l, w)
        PROVE  MonitorInv'
    BY <1>2, ReloadKeeps, HangKeeps, ServeKeeps, DeliverKeeps, DropKeeps, SelectKeeps
  <1>3. CASE UNCHANGED vars
    BY <1>3 DEF vars, cluster, page, MonitorInv, TypeOK, AlarmInv, PageInv
  <1>4. QED
    BY <1>1, <1>2, <1>3 DEF Next

\* Every reachable state satisfies the inductive invariant.
THEOREM MonitorInvariance == Spec => []MonitorInv
  BY MonitorInit, MonitorNext, PTL DEF Spec

\* The variables keep their types; no more pages are read than allowed.
THEOREM MonitorTypes == Spec => []TypeOK
  <1>1. MonitorInv => TypeOK
    BY DEF MonitorInv
  <1>2. QED
    BY <1>1, MonitorInvariance, PTL

\* No alarm is raised for what was never wrong while it was looked at, and none is
\* missed for what was wrong all the time unless the call about it failed.
THEOREM AlarmsHonest == Spec => []AlarmsWereTrue
  <1>1. MonitorInv => AlarmsWereTrue
    BY DEF MonitorInv, AlarmInv, AlarmsWereTrue
  <1>2. QED
    BY <1>1, MonitorInvariance, PTL

-----------------------------------------------------------------------------
\* The elements of a sequence are finitely many.
LEMMA ElementsFinite ==
  ASSUME NEW s \in Seq(Uri)
  PROVE  IsFiniteSet({s[i] : i \in DOMAIN s})
  <1> DEFINE T == {s[i] : i \in DOMAIN s}
  <1>1. DOMAIN s = 1 .. Len(s) /\ Len(s) \in Nat
    OBVIOUS
  <1>2. IsFiniteSet(1 .. Len(s))
    BY <1>1, FS_Interval
  <1> DEFINE f == [i \in 1 .. Len(s) |-> s[i]]
  <1>3. f \in Surjection(1 .. Len(s), T)
    BY <1>1 DEF Surjection
  <1>4. QED
    BY <1>2, <1>3, FS_Surjection

\* If a log has no more URIs than are looked at, all of them are.
LEMMA AllMostCommon ==
  ASSUME NEW s \in Seq(Uri), TopUris \in Nat,
         Cardinality({s[i] : i \in DOMAIN s}) <= TopUris
  PROVE  MostCommon(s) = {s[i] : i \in DOMAIN s}
  <1> DEFINE met == {s[i] : i \in DOMAIN s}
  <1>1. IsFiniteSet(met)
    BY ElementsFinite
  <1>2. ASSUME NEW u \in met
        PROVE  Cardinality({v \in met \ {u} : Before(s, v, u)}) < TopUris
    <2> DEFINE others == {v \in met \ {u} : Before(s, v, u)}
    <2> HIDE DEF met
    <2>1. IsFiniteSet(met \ {u}) /\ Cardinality(met \ {u}) = Cardinality(met) - 1
      BY <1>1, FS_RemoveElement
    <2>2. others \in SUBSET (met \ {u})
      OBVIOUS
    <2>3. IsFiniteSet(others) /\ Cardinality(others) <= Cardinality(met \ {u})
      BY <2>1, <2>2, FS_Subset
    <2>4. Cardinality(others) \in Nat /\ Cardinality(met) \in Nat /\ Cardinality(met) <= TopUris
      BY <1>1, <2>3, FS_CardinalityType DEF met
    <2>5. QED
      BY <2>1, <2>3, <2>4
  <1>3. QED
    BY <1>2 DEF MostCommon

\* The verdict on valid paths is that of the whole log, if it was read to its end and
\* has no more URIs than are looked at.
THEOREM WafVerdictHonest == Spec => []WafVerdictSound
  <1>1. MonitorInv => WafVerdictSound
    <2> SUFFICES ASSUME MonitorInv, NEW l \in Load,
                        load[l].at = "back", load[l].enabled, ~load[l].cut,
                        load[l].read < MaxPages,
                        Cardinality({blocked[i] : i \in DOMAIN blocked}) <= TopUris
                 PROVE  (WafVerdict(load[l]) = "valid path")
                            = ({blocked[i] : i \in DOMAIN blocked} \cap Valid # {})
      BY DEF WafVerdictSound
    <2>1. load[l] \in LoadState /\ PageInv(load[l]) /\ blocked \in Seq(Uri) /\ TopUris \in Nat
      BY MonitorAssumption DEF MonitorInv, TypeOK
    <2>2. load[l].waf \in Seq(Uri)
      BY <2>1 DEF LoadState
    <2>3. Len(load[l].waf) = Len(blocked) /\ \A i \in 1 .. Len(load[l].waf) : load[l].waf[i] = blocked[i]
      BY <2>1 DEF PageInv
    <2>4. load[l].waf = blocked
      BY <2>1, <2>2, <2>3
    <2>5. MostCommon(blocked) = {blocked[i] : i \in DOMAIN blocked}
      BY <2>1, AllMostCommon
    <2>6. CASE blocked = <<>>
      <3>1. {blocked[i] : i \in DOMAIN blocked} = {}
        BY <2>6
      <3>2. WafVerdict(load[l]) = "nothing"
        BY <2>4, <2>6 DEF WafVerdict
      <3>3. QED
        BY <3>1, <3>2
    <2>7. CASE blocked # <<>>
      <3>1. WafVerdict(load[l]) = IF MostCommon(blocked) \cap Valid # {} THEN "valid path"
                                  ELSE "only abnormal"
        BY <2>4, <2>7 DEF WafVerdict
      <3>2. QED
        BY <2>5, <3>1
    <2>8. QED
      BY <2>6, <2>7
  <1>2. QED
    BY <1>1, MonitorInvariance, PTL

=============================================================================
