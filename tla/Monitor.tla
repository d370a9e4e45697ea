------------------------------ MODULE Monitor ------------------------------
(***************************************************************************)
(* The monitoring page (tools/monitor.py, and tools/dashboard.py, which    *)
(* serves another page over the same collection).  Each load of the page   *)
(* makes the server ask kubectl and aws, one call after the other, for     *)
(* what the page then shows; loads overlap, calls fail, hang and are timed *)
(* out, and the cluster goes on changing.                                  *)
(*                                                                         *)
(* Trouble is what diagnose raises an alarm for: an application's log has   *)
(* 5xx, or many 4xx or slow requests, or its pods are in a state that      *)
(* POD_REASONS explains.  Nothing read and nothing wrong look alike to it. *)
(***************************************************************************)
EXTENDS Integers, Sequences, FiniteSets

CONSTANTS
    App,         \* APPS, whose logs are read in any order
    Uri, Valid,  \* blocked URIs, and those that match the valid endpoints
    Log,         \* the web ACL's log: blocked URIs of the window, in order
    Ui,          \* the programs whose pages are looked at
    Window,      \* what can be selected, by the text of the option
    Default,     \* the option that is selected first
    Mins,        \* _mins of a window
    ParseInt,    \* JavaScript's parseInt of a window
    Load,        \* loads of the page under way
    TopUris,     \* most_common(10)
    MaxPages,    \* range(20)
    AtFirst,     \* what may be wrong in the cluster to begin with
    MaxChanges,  \* bound: how often the cluster changes
    MaxSelects,  \* bound: how often another window is selected
    NoData

ASSUME MonitorAssumption ==
    /\ App # {}
    /\ Valid \subseteq Uri
    /\ Default \in Window
    /\ Log \subseteq Seq(Uri)
    /\ Ui \subseteq {"monitor", "dashboard"}
    /\ Mins \in [Window -> Nat] /\ ParseInt \in [Window -> Nat]
    /\ {TopUris, MaxPages, MaxChanges, MaxSelects} \subseteq Nat
    /\ MaxPages > 0
    /\ AtFirst \subseteq SUBSET ({"log", "pods"} \X App)

VARIABLES
    ui,        \* which program serves the page
    troubles,  \* what is wrong in the cluster
    blocked,   \* the web ACL's log
    changes,   \* how often the cluster has changed
    selected,  \* the window selected on the page
    selects,   \* how often another one was selected
    load,      \* load[l]: a load of the page
    shown      \* D: the windows of what the page shows

cluster == <<troubles, blocked, changes>>
page == <<ui, selected, selects, shown>>
vars == <<cluster, page, load>>

Trouble == {"log", "pods"} \X App

\* at is the call the server is making: the applications' logs that are still
\* to be read, then the pods, the log groups, and the pages of the web ACL's log;
\* alarms is what diagnose will say of what was read.  The properties alone read
\* seen, what was read of, met and held, what was wrong at some time, and all the
\* time, since the load began (until diagnose's alarms are all known); and cut, set
\* when a page was not read.
LoadState ==
    [at : {"idle", "logs", "pods", "groups", "pages", "back"}, hangs : BOOLEAN,
     since : Window, minutes : Nat, todo : SUBSET App, alarms : SUBSET Trouble,
     enabled : BOOLEAN, waf : Seq(Uri), read : 0 .. MaxPages,
     seen : SUBSET Trouble, met : SUBSET Trouble, held : SUBSET Trouble, cut : BOOLEAN]

Data == [since : Window, minutes : Nat]

TypeOK ==
    /\ ui \in Ui
    /\ troubles \subseteq Trouble
    /\ blocked \in Log
    /\ changes \in 0 .. MaxChanges
    /\ selected \in Window
    /\ selects \in 0 .. MaxSelects
    /\ load \in [Load -> LoadState]
    /\ shown \in Data \cup {NoData}

Idle == [at |-> "idle", hangs |-> FALSE, since |-> Default, minutes |-> 0,
         todo |-> {}, alarms |-> {}, enabled |-> FALSE, waf |-> <<>>, read |-> 0,
         seen |-> {}, cut |-> FALSE, met |-> {}, held |-> {}]

Init ==
    /\ ui \in Ui
    /\ troubles \in AtFirst
    /\ blocked \in Log
    /\ changes = 0
    /\ selected = Default
    /\ selects = 0
    /\ load = [l \in Load |-> Idle]
    /\ shown = NoData

-----------------------------------------------------------------------------
(***************************************************************************)
(* The cluster.                                                            *)
(***************************************************************************)
Change ==
    /\ changes < MaxChanges
    /\ changes' = changes + 1
    /\ \E t \in Trouble : troubles' = IF t \in troubles THEN troubles \ {t}
                                      ELSE troubles \cup {t}
    /\ load' = [l \in Load |-> IF load[l].at \notin {"logs", "pods", "groups"} THEN load[l]
                               ELSE [load[l] EXCEPT !.met = @ \cup troubles',
                                                    !.held = @ \cap troubles']]
    /\ UNCHANGED <<blocked, page>>

-----------------------------------------------------------------------------
(***************************************************************************)
(* The page: load(), on a timer, by its button, and when another window is *)
(* selected.  Loads under way are not cancelled.                           *)
(***************************************************************************)
\* waf_minutes is the page's in monitor.py and the server's in dashboard.py.
Minutes(w) == IF ui = "monitor" THEN ParseInt[w] ELSE Mins[w]

Started(w) == [Idle EXCEPT !.at = "logs", !.since = w, !.minutes = Minutes(w),
                           !.todo = App, !.met = troubles, !.held = troubles]

\* Variant: the timer asks for the window that was selected when it was set.
ReloadFirst(l) ==
    /\ load[l].at = "idle"
    /\ load' = [load EXCEPT ![l] = Started(Default)]
    /\ UNCHANGED <<cluster, page>>

Reload(l) ==
    /\ load[l].at = "idle"
    /\ load' = [load EXCEPT ![l] = Started(selected)]
    /\ UNCHANGED <<cluster, page>>

Select(l, w) ==
    /\ load[l].at = "idle"
    /\ w # selected
    /\ selects < MaxSelects
    /\ selects' = selects + 1
    /\ selected' = w
    /\ load' = [load EXCEPT ![l] = Started(w)]
    /\ UNCHANGED <<cluster, ui, shown>>

-----------------------------------------------------------------------------
(***************************************************************************)
(* build_data, on a thread of its own for each load.  run() gives the      *)
(* empty text for a call that fails or is timed out.                       *)
(***************************************************************************)
Calling(l) == load[l].at \notin {"idle", "back"}

Hang(l) ==
    /\ Calling(l) /\ ~load[l].hangs
    /\ load' = [load EXCEPT ![l].hangs = TRUE]
    /\ UNCHANGED <<cluster, page>>

\* Variant: what could not be read is taken for pods that are down.
FoundDown(d, read, about) ==
    [d EXCEPT !.hangs = FALSE, !.seen = IF read THEN @ \cup about ELSE @,
              !.alarms = @ \cup IF read THEN troubles \cap about ELSE {"pods"} \X App]

\* A call that failed finds nothing, and its card stays empty.
Found(d, read, about) ==
    [d EXCEPT !.hangs = FALSE, !.seen = IF read THEN @ \cup about ELSE @,
              !.alarms = IF read THEN @ \cup (troubles \cap about) ELSE @]

NextApp(l) == CHOOSE a \in load[l].todo : TRUE

\* collect_app
ReadLog(l, read) ==
    /\ load[l].at = "logs"
    /\ LET a == NextApp(l)
           d == load[l]
       IN  load' = [load EXCEPT ![l] =
              [Found(d, read, {<<"log", a>>}) EXCEPT
                  !.todo = d.todo \ {a}, !.at = IF d.todo = {a} THEN "pods" ELSE "logs"]]

\* pods_detail
ReadPods(l, read) ==
    /\ load[l].at = "pods"
    /\ load' = [load EXCEPT ![l] =
          [Found(@, read, {"pods"} \X App) EXCEPT !.at = "groups"]]

\* waf_detail: without the list of log groups, logging counts as not enabled.
FindGroup(l, read) ==
    /\ load[l].at = "groups"
    /\ load' = [load EXCEPT ![l] =
          [@ EXCEPT !.hangs = FALSE, !.enabled = read, !.at = IF read THEN "pages" ELSE "back",
                    !.seen = {}, !.met = {}, !.held = {}]]

\* Variant: an empty page is taken for the last one.
EndsAtEmpty(next, token) == ~token \/ next = <<>>

\* The service may give an empty page and a token for the next one.
Ends(next, token) == ~token

\* Variant: pages are asked for as long as there is a token.
OutOfPagesNever(n) == FALSE

OutOfPages(n) == n = MaxPages

\* A page that is not read is the last one.
ReadPage(l, read) ==
    /\ load[l].at = "pages"
    /\ LET d == load[l]
           rest == SubSeq(blocked, Len(d.waf) + 1, Len(blocked))
       IN  IF read
           THEN \E n \in 0 .. Len(rest), token \in BOOLEAN :
                   LET next == SubSeq(rest, 1, n)
                       last == Ends(next, token) \/ OutOfPages(d.read + 1)
                   IN  /\ n < Len(rest) => token
                       /\ load' = [load EXCEPT ![l] =
                             [d EXCEPT !.waf = d.waf \o next, !.read = d.read + 1,
                                       !.at = IF last THEN "back" ELSE "pages"]]
           ELSE load' = [load EXCEPT ![l] =
                   [d EXCEPT !.hangs = FALSE, !.cut = TRUE, !.at = "back"]]

\* Variant: calls are not limited in time.
TimeoutNever(l) == FALSE

Timeout(l) == TRUE

Call(l, read) == ReadLog(l, read) \/ ReadPods(l, read) \/ FindGroup(l, read) \/ ReadPage(l, read)

Serve(l) ==
    /\ \/ load[l].hangs /\ Timeout(l) /\ Call(l, FALSE)
       \/ ~load[l].hangs /\ \E read \in BOOLEAN : Call(l, read)
    /\ UNCHANGED <<cluster, page>>

-----------------------------------------------------------------------------
(***************************************************************************)
(* diagnose                                                                *)
(***************************************************************************)
Count(s, u) == Cardinality({i \in DOMAIN s : s[i] = u})

First(s, u) == CHOOSE i \in DOMAIN s : s[i] = u /\ \A j \in DOMAIN s : s[j] = u => i <= j

\* Counter.most_common: equal counts in the order they were first met.
Before(s, u, v) == Count(s, u) > Count(s, v) \/ (Count(s, u) = Count(s, v) /\ First(s, u) < First(s, v))

MostCommon(s) ==
    LET met == {s[i] : i \in DOMAIN s}
    IN  {u \in met : Cardinality({v \in met \ {u} : Before(s, v, u)}) < TopUris}

WafVerdict(d) ==
    IF ~d.enabled THEN "disabled"
    ELSE IF d.waf = <<>> THEN "nothing"
    ELSE IF MostCommon(d.waf) \cap Valid # {} THEN "valid path"
    ELSE "only abnormal"

\* Of the answer, the windows it is for; the rest is read when it comes back.
Answer(d) == [since |-> d.since, minutes |-> d.minutes]

Deliver(l) ==
    /\ load[l].at = "back"
    /\ shown' = Answer(load[l])
    /\ load' = [load EXCEPT ![l] = Idle]
    /\ UNCHANGED <<cluster, ui, selected, selects>>

\* The connection fails, and the page says so.
Drop(l) ==
    /\ load[l].at # "idle"
    /\ load' = [load EXCEPT ![l] = Idle]
    /\ UNCHANGED <<cluster, page>>

-----------------------------------------------------------------------------
Next ==
    \/ Change
    \/ \E l \in Load : \/ Reload(l) \/ Hang(l) \/ Serve(l) \/ Deliver(l) \/ Drop(l)
                       \/ \E w \in Window : Select(l, w)

Spec == Init /\ [][Next]_vars

\* Threads run, run() limits every call, and answers arrive.
FairSpec == Spec /\ \A l \in Load : WF_vars(Serve(l)) /\ WF_vars(Deliver(l))

-----------------------------------------------------------------------------
\* Every load ends, with an answer or an error, whatever calls hang: the page is
\* not "loading" for ever.
LoadsEnd == \A l \in Load : load[l].at # "idle" ~> load[l].at = "idle"

\* Answers may arrive in another order than they were asked for, but once the
\* selection rests, answers for other windows stop coming; and the blocked
\* requests shown are of that window too.  The exception is the page of monitor.py
\* with a window in hours, which it takes for so many minutes.
PageSettles ==
    <>[][\A l \in Load : load[l].at = "back" /\ shown' = Answer(load[l]) =>
            /\ load[l].since = selected
            /\ ui = "dashboard" \/ ParseInt[selected] = Mins[selected] =>
                  load[l].minutes = Mins[selected]]_vars

\* Whatever calls failed or were timed out, and however the cluster changed between
\* two of them: no alarm is raised for what was all right all the time while it was
\* looked at, and what was wrong all the time is missed only where the call about
\* it failed.
AlarmsWereTrue ==
    \A l \in Load : load[l].at = "groups" =>
        /\ load[l].alarms \subseteq load[l].met
        /\ load[l].held \cap load[l].seen \subseteq load[l].alarms

\* "Only abnormal requests are blocked, no valid path": true if all calls
\* succeeded, and the log has no more pages and no more URIs than are looked at.
WafVerdictSound ==
    \A l \in Load :
        LET uris == {blocked[i] : i \in DOMAIN blocked}
        IN  /\ load[l].at = "back" /\ load[l].enabled /\ ~load[l].cut
            /\ load[l].read < MaxPages /\ Cardinality(uris) <= TopUris
            => (WafVerdict(load[l]) = "valid path") = (uris \cap Valid # {})

=============================================================================
