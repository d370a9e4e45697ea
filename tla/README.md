# Specifications of the jaemu-task3 services

TLA+ models of the programs in this repository, the TLC configurations that
check them on small instances, and TLAPS proofs of what must hold for every
number of pods, requests, products, files, retries, caches, headers and loads.

    tlc -workers 2 -config ProductReplicas.cfg MCProductService.tla
    tlapm ProductServiceProofs.tla

## 1. The system

| Part | Source | State it keeps | Operations |
|------|--------|----------------|------------|
| product application | `application/product/main.go` | table `product` (MySQL), image objects (S3), a `sync.Map` cache per pod | POST, GET, PUT `/v1/product` |
| user application | `application/user/main.go` | a map and a counter in the memory of each pod | GET (one or all), POST, DELETE under `/v1/users` |
| stress application | `application/stress/main.go` | none | POST `/v1/stress` |
| practice product application | `application/pjm/practice-app/product-app/` | table `products`, objects | the same three requests, in layers with interfaces and tests |
| database seeding job | `terraform/k8s_base.tf:36-144`, `seed.tf`, `load_user.dump` | tables `user`, `product` | create tables, load the dump once, retried by Kubernetes |
| edge routing | `terraform/waf.tf`, `alb.tf`, `cloudfront.tf` | the CDN's cached responses | block, cache, forward, 403, 404 |
| workload deployment | `terraform/k8s_apps.tf`, `rds_proxy.tf`, `karpenter.tf` | replica counts | rolling update, scale out and in |
| monitor | `tools/monitor.py`, `dashboard.py` | what the page shows | poll, parse logs, diagnose |
| web ACL analysis | `tuning/waf_header_stats.py`, the WAF tab of `tools/dashboard.py` | the rows read, the rules in use | query the log, report gaps, classify, print rules |
| log analysis and sizing | `logcheck/` | `metrics.csv`, `profile.csv` | load, collect, join and summarise, pod and node recommendation |
| autotuning | `tuning/` | the trial log, the HPA settings | sweep, hill climb |
| cloud infrastructure | the remaining `terraform/*.tf` | none | declarations |

How they interact. A client's request passes WAF and CloudFront
(`/v1/product` GETs are cached there by id for 10 to 60 s), then the load
balancer, then one of two to ten pods of an application. Pods of the product
application share the table and the bucket, and nothing else: each keeps its
own cache, which no other pod can invalidate. The seeding job must finish
before the deployments are created. The monitor, the sizing scripts and the
tuners only read logs and metrics and, the tuners, patch HPA objects.

### What is hard, and what makes each part correct

* **Product application.** Everything happens between calls: a GET that read
  the row and has not yet stored it while a PUT commits and invalidates; a POST
  that stores an imageless copy after a PUT; a pod that dies between PutObject
  and UPDATE; a statement that committed but reported an error; two spellings
  of one id under the `utf8mb4_unicode_ci` collation; a price rounded by the
  FLOAT column; a retry. Correct means: whatever is cached or answered was
  committed for that row; a row's image exists; reads from the table are fresh;
  a row has one creator; a 200 to a PUT is true; staleness ends.
* **Practice application.** The same hazards without the cache, with keys that
  collide by design (`id` + extension). Correct means what the tests' in-memory
  repository promises.
* **User application.** The counter and the map die with the pod, and no two
  pods agree. Correct means, for one life of one pod: an id keeps its owner even
  after a DELETE, reads are current, and the mutex is always released.
* **Seeding job.** Retried up to five times, may die anywhere. Correct means:
  the dump is loaded exactly once or not at all.
* **Edge routing.** Three rule systems decide one request. Correct means that
  the verdict of `waf_header_stats.py` is what the chain does.
* **Web ACL analysis.** Queries run one by one over a log that grows, and a query
  that fails looks like one that found nothing; records from before a rule lie about
  for an hour; rows and values are cut off before they are pasted, and the page reads
  them back from text; rules are applied in rounds. Correct means: "all is blocked" is
  true as far as the page could see, and the rounds get somewhere.
* **Monitor, sizing, tuning.** Responses out of order, partial failures taken
  for "nothing found", measurements taken at another time than they are stamped
  with, rounding in resource arithmetic, a search that must make progress.

`PROJECT.json` lists every hazard with its line and the properties that cover it.

## 2. The modules

    Catalogue                  what the product application promises a reader
    ProductService             the product application
    ProductServiceProofs       its inductive invariant; the safety theorems; that it implements
                               Catalogue
    MCProductService           finite instances of it
    SeedJob                    the db-init Job
    SeedJobProofs              its inductive invariant and safety theorems
    PracticeProduct            the practice application; a refinement of Catalogue
    PracticeProofs             its inductive invariant, safety theorems and refinement
    MCPractice                 a finite instance of it
    UserStore                  the user application
    UserStoreProofs            its inductive invariant and safety theorems
    EdgeRouting                web ACL, CDN cache, load balancer; the report's verdict
    EdgeRoutingProofs          its inductive invariant and safety theorems
    MCEdge                     a finite instance of it
    LiveSettings               what both tuning scripts do to the cluster
    AutoTune, HillClimb        the two scripts
    Tuning                     one after the other
    TuningProofs               the inductive invariants and safety theorems of Tuning and WafLoop
    MCTuning                   a finite instance of it
    Monitor                    the monitoring page and what its server collects
    MonitorProofs              its inductive invariant and safety theorems
    MCMonitor                  a finite instance of it
    WafLoop                    how operators close gaps in the web ACL, round by round
    MCWafLoop                  a finite instance of it
    LoadProfile                how the load an application bears is measured
    Sizing                     what is advised from it
    SizingProofs               their inductive invariant and safety theorems
    MCSizing                   a finite instance of it

`Catalogue` is what two applications promise. `ProductService` and
`PracticeProduct` are each shown to implement it, and `EdgeRouting` puts its
caches in front of it, seen by time alone: a GET is told a version between the
oldest that a pod may still cache and the row. `EventuallyCurrent` of
`ProductService` is what justifies that the oldest one catches up.

### ProductService

State and code:

| Variable | Code |
|----------|------|
| `db[k]` | the row with primary key `k`. All versions it went through are kept, the last is the row; an empty sequence is no row. The history is there to state properties: no guard reads anything but the last version. |
| `bucket` | the keys of the objects in the bucket |
| `cache[p][i]` | `cache` in pod `p`: product, and ticks left until `expires` |
| `pc[r]`, `call[r]`, `got[r]` | a handler's goroutine: next call, request, local `p` |
| `low[r]` | how many versions the row had when the request arrived (history only) |
| `wrote[r]` | the version that the request's own UPDATE made, or 0 (history only) |
| `reply[r]` | the response written: `created` 201, `hit` 200 with X-Cache, `ok` 200, `not found` 404, `error` 500, `bad request` 400 |

Actions and code (`application/product/main.go`):

| Action | Code |
|--------|------|
| `Arrive`, `Refuse` | a route is taken; the checks that answer 400 before any effect |
| `Insert` | `createProduct` up to and with the INSERT: success, an error without effect (duplicate key, no connection), an error after the commit |
| `StoreCreated` | `cachePut` and 201 |
| `Lookup`, `Evict` | `cacheGet`: hit, miss, or expired; the `Delete` of an expired entry is a step of its own because another request may store in between |
| `Query` | the SELECT: row, no row (404), error |
| `Fill` | `cachePut` and 200 |
| `Upload` | `PutObject`: success, or an error that may still have stored the object |
| `Update` | the UPDATE: changed, nothing changed (404), an error before or after the commit |
| `Invalidate` | `cacheDelete` and 200 |
| `Return` | the response is out, the slot is free for another request |
| `Restart` | a pod dies and is replaced: cache and requests in flight are gone (there is no signal handling, so a rolling update is the same) |
| `Tick` | time passes for all live entries |

Abstractions. A name and price are one `Payload`; `Stored` says what the columns
keep of it (`price FLOAT(8)`, `k8s_base.tf:95`). `RowOf` is the collation
(`rds.tf:43-46`). Object bodies are left out: only which keys exist matters
here. Latency (`jitter`) is contained in the interleaving. One clock serves all
pods; an entry's life is an interval of one pod's clock, so skew would change
nothing. "Versions" are counted per row and bounded by `MaxVersions`, in the
guard of `Arrive` only, and only for writes.

`RowsAffected` is modelled as the driver reports it here: rows *changed*, since
the DSN (`main.go:92`) does not ask for `clientFoundRows`.

### Catalogue

The abstract specification: rows are created once, change only in their image,
and a reader is told a version no older than its question ("ok"), some version
("hit"), or that there was no row yet ("not found"). It knows neither pods nor
caches nor time. `ProductService` maps `hist` to `db`, and a request's question
and answer to `asked` and `told`; a POST or PUT is seen only through its commit.

### SeedJob

State: `tables`, `indexed` and `users` are the database, `users` as the set of the
dump's INSERT statements whose rows are committed; `pc[p]` is the next command of
pod `p`'s script; `sent[p]` counts the statements in its open transaction; `lost`
are the pods Kubernetes has given up on; `job`, `restarts`, `applies` are the Job.

| Action | Code |
|--------|------|
| `Fetch` | the init container that copies the dump (`k8s_base.tf:55-72`) |
| `WaitForDB`, `CreateUserTable`, `CreateProductTable` | the loop over `SELECT 1`, the two `CREATE TABLE IF NOT EXISTS` |
| `FindIndex`, `AddIndex` | the count in `information_schema`, the `ALTER TABLE` it guards |
| `Count`, `Load`, `Commit` | `SELECT COUNT(*)`, then the dump: `load_user.dump` turns autocommit off, inserts, commits |
| `GiveUp`, `Fail`, `Exit` | a duplicate key ends `mysql`; any command or the container fails, `set -e` ends the script; exit 0 |
| `StartPod`, `Lose`, `Reap` | the Job controller: one pod at a time that it knows of; a node is lost, and its pod runs on until it is stopped |
| `Apply` | `terraform apply` once more, for a Job that is over |

`restart_policy` and `backoff_limit` are in `Fails`. Locks are modelled by what they
cause: a session's inserts wait for an open transaction that has inserted the same
rows, DDL waits for all. Left out: pods that Kubernetes counts as failed because
their node was lost do not use up the back-off limit here; that only leaves more
attempts.

### PracticeProduct

The variables of `ProductService` without the cache, and `objects[key]`, the stored
body, as keys collide here: an object's key is the id and the extension. `up` are
the processes that listen. `low`, `alone` and `shown` are history: how old a request
is, whether another PUT for the row overlapped it, which links clients have seen.

| Action | Code (`application/pjm/practice-app/product-app/`) |
|--------|------|
| `Listen`, `Stop` | `main.go`, which listens after the database answered and does not drain on a signal |
| `Arrive`, `Refuse` | the handlers' checks |
| `Create`, `Get`, `Update` | one `Repo` call each with the answer that follows (`db/db.go`, `handler/handler.go`) |
| `Put` | `Storage.Put`, then on to `Update` |
| `Download` | `GET /images/<key>` |

The storage package is imported but not in the repository, so it is external.

### EdgeRouting

| State | Code |
|-------|------|
| `pc[r]`, `call[r]`, `answer[r]`, `source[r]` | a request on its way: WAF, CloudFront, S3 or load balancer, pod, and back |
| `edge[e][<<path, id>>]` | what an edge cache holds under the key of the policy `product_get` (`cloudfront.tf:145-161`) and how long it is fresh |
| `rows`, `oldest` | the product application, see above |

| Action | Code |
|--------|------|
| `Send` | to the distribution, or straight to the load balancer, which is open to everybody |
| `Waf` | `waf.tf`: three header rules for every path, three managed groups scoped down to three exact paths, default allow |
| `CloudFront` | the cache behaviours in order; a fresh entry, S3, or the origin with `X-Origin-Verify` |
| `Alb` | `alb.tf`: health check (5), applications with the secret header (10-12), `deny_direct` (50), default 404; or no healthy target |
| `App`, `CatchUp` | the applications; pods forget old copies |
| `Return` | the answer is kept if the behaviour caches it; an old entry may stand in for a 5xx |
| `Tick` | entries age |
| `verdict` | `tuning/waf_header_stats.py:50-64` |

Requests are told apart by what a rule looks at: a path class and a sign
(`scanner agent`, `payload` and so on). CloudFront is external and modelled from its
configuration; that it keeps 404s and 5xx a minimum time and may answer a 5xx with
an entry it still has is its documented default, as the distribution configures no
`custom_error_response`. The cache of images is left out. A killed request whose
statement commits later is outside `EdgeRouting` and `PracticeProduct`.

### UserStore

`users[p]`, `lastID[p]` and `mu[p]` are the three package variables of pod `p`;
`pc[r]`, `call[r]` and `user[r]` a handler and its locals. `told`, `deleted` and
`before` are history: what the present life of each pod has told clients, whom it has
deleted, and both as they were when a request arrived.

| Action | Code (`application/user/main.go`) |
|--------|------|
| `Arrive` | a handler up to its `mu.Lock()`; what is refused before has no effect |
| `Lock`, `Increment`, `Mint`, `Put` | the POST's critical section, line by line |
| `Get`, `List`, `Delete` | theirs, in one step: they touch one thing each |
| `Answer` | the response, written after the mutex was released |
| `Restart` | the pod is replaced; memory and requests are gone |

Pods share nothing, so the run has one; that an id means different users on different
pods follows from there being no step that relates two pods.

### Tuning

`live[a]` is what runs: the CPU request and the autoscaler's `(util, min, max)`.
`Patch` is one turn of the loop in `patch_all` (`autotune.sh`) or `apply_state`
(`autotune-hc.sh`); each of its two `kubectl` calls may fail, since both end in
`|| true`. `SweepMeasure` and `ClimbMeasure` are a load test, with any score or none.
`sc` and `best` hold the *text* that `$(eval_state ...)` captured: the function
reports its progress on standard output too, so the text has four lines, and `Improves`
is what awk makes of it. `ran` is history: for each row of the log, the settings of all
deployments when its load test ran, or nothing if a call had failed. The start point is
taken within the limits; the script does not check its arguments. Rollouts and draining nodes are waits that end and are not
modelled; `Tuning` runs the second script after the first.

### Monitor

`load[l]` is a load of the page from `load()` to its answer, with the locals of
`build_data`; `at` is the next call it makes. `shown` is the page's `D`, of which only
the windows matter. `ui` is the program that serves the page: `monitor.py`, or
`dashboard.py`, which imports it and has a page of its own.

| Action | Code (`tools/monitor.py`) |
|--------|------|
| `Reload`, `Select` | `load()` from the timer or the button, and when another window is chosen; nothing is cancelled |
| `ReadLog`, `ReadPods`, `FindGroup`, `ReadPage` | `app_detail`, `pods_detail`, `waf_detail`, in that order, each read or not |
| `Hang` | a call hangs until `run` gives up (25 s) |
| `Deliver`, `Drop` | the answer is shown; or the connection fails |
| `WafVerdict` | the end of `diagnose` |
| `Change` | the cluster: what is wrong, as far as `diagnose` would see it in a reading |

A `Trouble` stands for the thresholds of `diagnose` on one application's log or pods.
The calls that raise no alarm (`kubectl top`, deployments, nodes, HPAs) are left out.
A call that fails is taken to give nothing; `kubectl logs` may in fact have printed a
part. `seen`, `met` and `held` are history, forgotten when the alarms are all known.

### WafLoop

A request kind is its path and its headers in order, a header's value a sequence of
words. `log` holds what the web ACL's log has of the last hour: which kind was let
through, which blocked. `rules` are the words and names that `waf.tf` blocks for.
The rest is one round of the operators: `at`, the log when the period was fixed
(`asked`), the queries that have not ended (`pending`), whether all have returned all
their rows (`whole`), the `rows` they returned, and what was `pasted` into the page.

| Action | Code |
|--------|------|
| `Send`, `Forget` | clients, decided by `waf.tf:26-110` and logged; an hour passes |
| `Start` | `waf_header_stats.py:109-133`: the period, one query per position |
| `Complete`, `BreakOff`, `Crash` | `run_query`: rows, up to the query's limit; a query that failed, was cancelled or timed out, of which only standard error tells; an exception |
| `Analyse` | what is pasted: the table, with the `Top` most frequent rows and values cut off, or the CSV, with quotes around values that have commas or quotes |
| `Read`, `blocked`, `finds` | `wafxParse` and `wafxRun` in `dashboard.py`: read the text back, classify, leave out what is blocked already |
| `Apply` | the rules `wafxRule` prints are taken over by the operators, who add to the agents' pattern and do not replace it |

Values are made of words, commas and quotes. A line of the table with five commas or
more is taken for one of the CSV (`dashboard.py:204`), and the pieces that then stand for
path and header are none the page knows; a quoted agent has no first word, so that its
pattern is `badtool` (`dashboard.py:231`); a quoted address is not at the beginning of
the value, where the page looks for it. How often a request is sent is not modelled:
where the most frequent rows are kept, any may be. A value's length is counted in words,
with the page's limit for junk (24 characters) in proportion to the table's width (30).

Left out: the managed groups, which never change, the count and status columns, paths
with commas or too long for the table, the doubling of quotes, and the test commands.
`Internal` and the addresses `wafxRule` blocks are the ones that tell the page's pattern
and the rule's apart.

### LoadProfile and Sizing

`load[w]` is what k6 did in window `w`: how many requests of which duration.
`sampling` is where `collect.sh` is between stamping and writing a row of `csv`;
`profile` is `profile.csv`, `breach` what the report says. `had` and `clean` are
history: how many pods were ready at any time in each window, and whether all rows were
true of theirs.

| Action | Code (`logcheck/`) |
|--------|------|
| `Advance`, `Scale` | k6 goes on to the next window (`profile.js`); the autoscaler |
| `Stamp`, `Read` | `collect.sh`: the time, then kubectl, which may fail and be written as 0 |
| `Analyse` | `analyze.py`: windows, buckets, percentiles, averages, the report |
| `Recommend`, `Again` | `recommend.py`: capacity, pods, request, target, limits, nodes |

Durations are in hundredths of a millisecond, averages in tenths and hundredths, so
that rounding, to the even one of two as Python does, is that of the files. Fractions
that the program keeps as floats are exact here. One application stands for three.
Left out: memory, errors, the nodes of the profile and the other percentiles, which are
summarised alike and decide nothing that is modelled.

## 3. The runs

| Run | Instance | Checks | Result |
|-----|----------|--------|--------|
| `product_replicas` | 2 pods, 1 id, 2 files, 2 payloads, 2 requests at a time, `TTL` 1, 3 versions | five safety invariants, `ImplementsCatalogue` | holds, 432 589 states |
| `product_spellings` | 1 pod, 2 spellings of one id, 1 file, 2 payloads, 2 requests, `TTL` 0, 2 versions, fairness | `IInv`, the inductive invariant of the proofs; `EventuallyCurrent` | holds, 600 632 states |
| `product_put_retry` | 1 pod, 1 request at a time | `NotFoundMeansMissing` | violated, see 5 |
| `seed_job` | 3 pods, 2 statements, back-off limit 2, 2 applies, fairness | its three safety properties, `JobSettles` | holds, 29 928 states |
| `practice_product` | 1 process, 2 spellings, 2 files of one key, 2 payloads, 2 requests, 3 versions | `AckedFileServed`, `ShownLinksWork`, `ImplementsCatalogue` | holds, 280 526 states |
| `edge` | 1 cache, 2 products, a request of every kind beside a product GET, `TTL` 0, 2 versions, fairness | who reaches pods, the verdict, what is shown, `EdgeEventuallyCurrent` | holds, 455 270 states |
| `tuning` | 2 deployments, 2 combinations, scores 40 and 90, 2 moves, fairness | the winner, what was measured, what is left applied, both scripts end | holds, 81 724 states |
| `tuning_uphill` | the same | `MovesUphill` | violated, see 5 |
| `monitor` | `monitor.py` or `dashboard.py`, 1 application, 2 windows, 2 loads at a time, 2 pages of 2 blocked URIs, 1 change, 1 selection, fairness | `AlarmsWereTrue`, `WafVerdictSound`, `LoadsEnd`, `PageSettles` | holds, 373 110 states |
| `waf_loop` | 2 kinds of requests, 3 positions asked for, 3 rows a query, 6 rows a table, 11 words of a value printed, fairness | `NoneIsTrue`, `ClearUnlessBlocked`, `AgentsGetBlocked` | holds, 327 786 states |
| `sizing` | 2 windows, 6 loads, 1 or 2 pods ready of 60 or 130 millicores, a limit of 200 ms, 2 targets | `SizedByEvidence`, `AdviceFollowsReport`, `HpaKeepsSizing` | holds, 289 244 states |
| `user_store` | 1 pod, 2 requests at a time, 2 names, 2 ids, 1 restart | `IdsStayTheirs`, `ReadsCurrent`, no deadlock | holds, 86 298 states |

The product application:

* `CopiesAreVersions`: what a pod caches or a handler holds is a version the row
  had, but for the unrounded price of a POST.
* `NoDanglingImage`: no version ever named an object that is not there.
* `FreshReads`: a GET answered from the table is at least as new as the row was
  when it arrived. (A hit need not be: that is what the cache trades away.)
* `SoleCreator`: at most one 201 per row, and then the row is what was sent.
* `AckedImageCommitted`: a 200 to a PUT means that its own UPDATE made a version with
  its image, after it arrived; that another PUT put the same file's path does not count.
* `EventuallyCurrent`: once a row stops changing, every later GET shows it.

The seeding job:

* `SeededWhole`: all of the dump or none of it, however it was interrupted.
* `CompleteIsSeeded`: when the Job is complete, data, tables and index are there.
* `ConflictNeedsLostPod`: retries meet no duplicate key, but for a pod that goes on
  after Kubernetes has replaced it.
* `JobSettles`: an active Job becomes complete or failed.

The practice application:

* `AckedFileServed`: a PUT answered 200 that no other PUT for the product
  overlapped leaves a link to its own file, whatever failed uploads did before.
* `ShownLinksWork`: a link that was ever shown is never answered 404.

The edge:

* `OnlyPassedRequestsReachPods`: three configurations together keep everybody from
  the pods who has not passed the web ACL, health checks apart.
* `VerdictsAgree`: the report's verdict is what was done, for paths that exist. An
  `X-Junk` header without a value is excluded: it passes, and the report counts it
  as not blocked.
* `ShownProductExists`: caches mix up no products.
* `EdgeEventuallyCurrent`: when products stop changing, what the edge tells becomes
  current, in spite of cached 404s and of fills under way.

Tuning:

* `TopScorerStays`: when the first script is done, all deployments run under settings
  under which a load test was really run that no other outscored; an unscored one wins
  only if all are. Between the two lie the record, the sort, the search for the winner's
  name and one more loop of calls, of which none may have failed.
* `MeasuredAsRecorded`, `BestLeftApplied`: the load ran under the settings it is recorded
  for on every deployment, and each script leaves its winner or `BEST` applied; unless a
  call failed in that very loop.
* `ScriptsEnd`: both scripts end.

The monitor:

* `AlarmsWereTrue`: whatever fails and changes between the calls of one load, no alarm
  is raised for what was never wrong meanwhile, and none is missed for what was wrong
  all the time, unless the very call about it failed.
* `WafVerdictSound`: "a valid path is blocked" and its opposite are true if the log was
  read to its end and has no more URIs than are looked at.
* `LoadsEnd`, `PageSettles`: loads end although calls hang; once the selection rests,
  answers for another window stop, and the minutes the blocked requests are asked for are
  those of the window (but for `monitor.py` and hours, see 5).

The web ACL analysis:

* `NoneIsTrue`: the report's "none" holds for every request of the period and every
  position that was asked for, although each query reads the log at a time of its own;
  unless a query was broken off or reached its limit, which the report does not say.
* `ClearUnlessBlocked`: the page's "nothing to block" is true up to headers that also
  occur on a blocked request, if no query was cut short and no row was cut from the
  table. The exception is wide, and "true" is meant of values as the page reads them:
  what a misread line or a quote hides from it is hidden from the property, see 5.
* `AgentsGetBlocked`: if again and again the file of a whole report is pasted, the rounds
  end with rules that block every attacker with an agent the page knows that nobody else
  has and that is made of words only, in spite of the records that lie about for an
  hour. For an agent with a comma, or with tables alone, this is not so, see 5.

Sizing:

* `SizedByEvidence`: if every row of `metrics.csv` is true, some window of the bucket,
  with as few pods as it had at some time, bears the number of pods that is advised:
  at the bucket's upper end, safety added, and from the second bucket on at two and a
  half times the window's own rate. That the two differ is in the code, see 5. Time
  stamps, joins, buckets and two averages lie in between.
* `AdviceFollowsReport`: two programs read one profile, one rounded and one not; the
  advice uses no bucket that the report finds too slow, up to the rounding.
* `HpaKeepsSizing`: request, target and limits, each rounded by itself, together let
  no pod be loaded beyond what was measured; not for pods below 75 millicores, where
  the lower bound of 50 % for the target prevails.

The user application:

* `IdsStayTheirs`: within one life of a pod an id never comes to mean another user.
* `ReadsCurrent`: reads show who was created before they were asked and nobody who was
  deleted before.
* A mutex that was not released would be a deadlock, which TLC looks for.

The bounds of the product runs. Two requests at a time give every pair of handlers every
interleaving, and slots are reused without limit, so a third request may follow
what two left behind in the caches. Three versions are what a POST and two
different PUTs produce: enough for a copy to be the oldest, a middle or the
newest one. `TTL` 1 separates a fresh, an ageing and an expired entry. Two files
let an update change an image that is set already; two payloads with one
`Stored` value exercise the rounding. Two spellings of one row are in
`product_spellings`. Requests, pods, files and spellings of one row are used
symmetrically, except under fairness, where no symmetry is used.

The bounds of the others. In `seed_job` three pods give two replacements, so that two
pods the controller has forgotten run beside its own; two statements make a load
interruptible half-way; a limit of 2 and two applies reach each end of a Job.
`practice_product` needs two files with one key and two requests for an overlap, and
a third version for a change after a change. In `edge` one slot takes every path and
every sign in turn (not every pair of them: the theorem `ReportAgrees` does) and changes a product, the other reads two products, one of which is
never made, so that entries of every kind get old and are filled late; with `TTL` 0
an entry is fresh until the next tick. Its signed requests are POSTs, as no rule of
the web ACL looks at the method. In `tuning` the start is where two of four neighbours
are clamped, two scores give better, worse and equal, and two combinations a first
and a last. In `monitor` two loads overlap at every pair of calls, one selection makes one of
them old, one change falls before, between and after any two calls, starting from pods
that are down; two pages are the least where the first may be empty.

In `waf_loop` one kind is blocked from the beginning, and has a scanner's agent with a
comma and a long header nobody knows; the other forges the same header in another way, as
a chain whose commas and quotes the page trips over, and has an agent that only the page
knows. With both actions of both kinds in the log a query finds four rows and may return
three, and a report may have eight and the table six; the last position is one where a verdict
is at stake. Queries end in any order, and rounds repeat without a bound, as log and
rules are finite. In `sizing` two windows give a row that is stamped in one and read in
the other, two buckets or one, and a scale-out in between; the loads lie within the
limit, beyond it, beyond it by less than the rounding, and beyond the last bucket; 60
and 130 millicores are below and above the 75 of `HpaKeepsSizing`. In `user_store` two
handlers meet at every line, two ids let a DELETE fall between two POSTs, and a
restart falls anywhere.

Fairness of `ProductService` (`FairSpec`): weak fairness of each handler's next step, since a
goroutine runs once it can and every call it makes returns, in the end because
the request's context is cancelled, and of `Tick`, since clocks advance. No fairness is
assumed of clients, of restarts, or of any particular outcome of a call.
The others have theirs alike: in `SeedJob` a container's next step, the controller
that starts a missing pod, and the end of a pod on a lost node, but no success of
anything; in `EdgeRouting` each request's next step (origin timeouts bound it),
`Tick` and `CatchUp`; in `Tuning` the running script, whose waits all have timeouts,
but not the operator who starts the second one; in
`Monitor` the server's thread, for which `run` limits each call, and the answer, but
neither the timer nor the user; in `WafLoop` only clients who keep sending, as the contest's
load generator does. What the operators do is no fairness but the premise of
`AgentsGetBlocked`: that whole reports are pasted as CSV infinitely often.
`Sizing` and `UserStore` have none.

## 4. The proofs

`ProductServiceProofs` proves `IInv` inductive for every value of the constants
that satisfies `ConstantsAssumption` (finitely many requests, a collation
that maps ids to rows, a rounding that maps payloads to payloads, and special
values that are not ordinary ones). From it follow, as theorems of `Spec`:
`TypeCorrect`, `CopiesCorrect`, `ImagesCorrect`, `ReadsFresh`, `CreatesOnce`
and `AcksHonest`, one for each invariant the runs check, and `Spec => ImplementsCatalogue`.

Why a strengthening is needed. None of the properties is inductive alone.
`FreshReads` speaks of answers; that the answer is fresh was settled when the
SELECT ran, so `ReadInv` carries it from `fill` on, with the fact that the row
has at least as many versions as on arrival. `NoDanglingImage` needs the object
to be there from the moment the handler reaches `update` (`WriteInv`).
`SoleCreator` needs the row to exist, with the creator's payload, from `store`
on: a second INSERT then fails. `AckedImageCommitted` is settled by the UPDATE
and carried through `invalidate` as the version that this very request wrote (`wrote`), which
no other request wrote, since each adds one. `CopiesAreVersions` needs `CacheInv` and the
handlers' `got` together, as each is filled from the other. `StepInv` says which
handler may be at which step.

The argument has two frame lemmas: histories only grow (`Grown`), so whatever
was said of a version stays true; and a handler's step touches its own request
only (`ServeFrame`, `UntouchedKept`). What is left is one case per step and
conjunct for the request that moves.

The refinement maps `Insert` and `Update` to `Create` and `SetImage` when they
commit, `Lookup`, `Query` and `Fill` to `TellRemembered`, `TellMissing` and
`TellFresh` when they answer, `Arrive` of a GET to `Ask`, `Return` and `Restart`
to `Leave`; all other steps stutter.

`SeedJobProofs` proves `SeedInv` inductive for any number of pods, statements,
retries and applies, and from it `SeededWhole`, `CompleteIsSeeded` and
`ConflictNeedsLostPod`. The strengthening says that at most one session has
something open, and then the table is empty (`SessionInv`, `OneSession`): the locks
make the others wait. It says that there is at most one pod Kubernetes knows of
(`OneManaged`), and what exists by the time a script reaches a step (`StepInv`);
`"load"` with a table that is not empty needs a lost pod. Steps that leave the
database alone share one lemma (`PodMoves`).

`EdgeRoutingProofs` proves `EdgeInv` inductive for any caches, ids, slots, calls and
bounds that satisfy `EdgeAssumption`, and from it `OnlyPassedRequestsReachPods`,
`VerdictsAgree` and `ShownProductExists`. What was blocked is settled in `Waf`, the
properties speak of later places, so `RouteInv` carries it along every way a request
may take, the direct one included; `AnswerInv` and `EntryInv` must be proved
together, as answers fill caches and caches answer; `ProductInv` says that the oldest
copy is a version. Requests that move share `RequestMoves`, changes of a product `ProductsGrow`.

For `WafLoop`, `TuningProofs` proves `LoopInv` inductive for any kinds of requests, positions,
limits of rows and widths of the table, and from it `NoneIsTrue` and `ClearUnlessBlocked`. Both speak of
the log as it was when the period was fixed; the rows come later, from a log that has
grown. `ReadInv` bridges the two: as the log does not lose records while a script
runs (`LoopTypeOK`), a query that returned all its rows has returned at least what was asked
for. `PhaseInv` says what rows were pasted; `SeenIsTheRow` that a line the page can read
keeps its header, path and action, so that what it takes for blocked was blocked.

`PracticeProofs` proves `PracticeInv` inductive for any ids, spellings, files,
extensions, requests and processes, and from it `AckedFileServed`, `ShownLinksWork` and
`Spec => ImplementsCatalogue`. `LinkInv` is about every version of every row and
every answer ever given; it needs `UploadInv`, which says that between its two calls
an upload has its object in place, and, if no other upload overlaps it (`alone`), that
it is its own. Downloads that fail are ruled out by `LinksWork`, a fact about one step.

`TuningProofs` proves `TuningInv` inductive for any deployments, combinations, scores
and start points, and from it `TopScorerStays`, `MeasuredAsRecorded` and
`BestLeftApplied`. The properties speak of loops that have ended; `LiveInv` says what
a loop has done so far, for the deployments it has passed (`PatchedTo`). One lemma,
`PatchSets`, is about the turn of a loop, and serves all four loops. `TopScorerStays` takes
together that no row outranks the winner (`RankInv`), that a row's test ran under what it
names (`RanInv`), and what is applied at the end.

`MonitorProofs` proves `MonitorInv` inductive for any applications, windows, loads, logs
and splits into pages, and from it `AlarmsWereTrue` and `WafVerdictSound`.
`AlarmInv` keeps what was found between what was wrong at some time and all the time;
`PageInv` says that what was read of the log is its beginning, and all of it if the
last page said so. That with no more than `TopUris` URIs `most_common` has all of them
(`AllMostCommon`) is a fact about finite sets.

`UserStoreProofs` proves `UserInv` inductive for any pods, requests, calls and ids, and from
it `IdsStayTheirs` and `ReadsCurrent`. Both speak of what clients were told, the code of a
map and a counter. `IdInv` takes together whoever was seen under an id in one life of a pod,
in the map, in an answer under way or by a client, and says that all these ids, and the deleted
ones, are used: not above the counter, and below it while a handler is between
`lastID++` and the store. So a new id is new, which needs that only one handler is there:
`HandlerInv` says that the mutex names it (`OneHolder`). `MapInv` says that a user who was told
of is in the map or deleted, and not both, `BeforeInv` that what a request remembers of its
arrival is still so.

`SizingProofs` proves `SizingInv` inductive for any windows, loads, numbers of pods, millicores,
limits and targets that satisfy `LoadProfileAssumption` and `SizingAssumption`, and from
it `SizedByEvidence`, `AdviceFollowsReport` and `HpaKeepsSizing`. The invariant says little: while
all rows are true each tells a number of pods its window had (`EvidenceInv`), and profile, report
and advice are what the programs make of their inputs. The work is in the arithmetic. That the
sum over a finite set exists, is unique and can be taken apart at any element is shown by a least
counterexample among its subsets (`LeastSubset`, `SumsAgree`, `SumsExist`, `SumRecursion`), as no
induction theorem with an operator for a parameter can be used. On it rest that an average is not
below the least value but for the rounding (`AvgAtLeast`) and that a percentile is a number
(`PctIsNat`: a value with enough weight below it exists). `RequestIs` does the two roundings of
request and target from 75 millicores on; `LimitRounded` compares the rounded profile with the
unrounded report; `EvidenceSuffices` follows the least number of pods in a bucket through both
averages into the advice, and `BucketOverstates` compares a window's rate with its bucket.

Every safety property of a passing run is a theorem. Only model-checked are the liveness
properties (`EventuallyCurrent`, `JobSettles`, `EdgeEventuallyCurrent`, `ScriptsEnd`,
`LoadsEnd`, `PageSettles`, `AgentsGetBlocked`), as the prover does not do liveness under
fairness.

## 5. Where code and documents differ

* `product_put_retry`. A PUT that uploads a file of a name the row already has
  stores the object, then the UPDATE changes no row, `RowsAffected` is 0
  and the client is told 404 (`main.go:287`), though the product exists;
  `terraform/README.md:349` says PUT answers 200. The shortest
  behaviour: POST, PUT of `f`, PUT of `f` again. The entry in the cache is not deleted
  either, which is harmless as the row did not change.

* `tuning_uphill`. `autotune-hc.sh:77` captures everything `eval_state` prints, its
  progress lines included, so the comparison in awk is a syntax error and no
  candidate is ever moved to; `tuning/README.md:133` says the script moves in the
  direction of a better score.

Met while modelling, without a run of their own:

* A path that does not exist is answered 403, not 404, if the request has a scanner's
  User-Agent, a loopback X-Forwarded-For or an X-Junk header: the three rules
  (`waf.tf:26-110`) look at every path. `tuning/README.md:346`, the header of `waf.tf` and
  `waf_header_stats.py:54-55` say 404. `VerdictsAgree` is about paths that exist.
* The page leaves a find out if its header occurs on any blocked row, of which only for
  agents the value must be the same (`dashboard.py:247-251`); the comment there says "the
  same header/value". Once one forged X-Forwarded-For is blocked, another one that passes
  is never mentioned again, and the page says that nothing is let through
  (`dashboard.py:253`). It is the exception of `ClearUnlessBlocked`.
* `monitor.py:570` converts the window with `parseInt`, so "1h" asks for the blocked
  requests of one minute; `tools/README.md:89` promises the data of the dashboard, which
  converts with `_mins`. `PageSettles` excepts it.
* The rules that the page prints. The word for an agent is its first one, so for an agent
  that begins like a browser's it is `mozilla`, which blocks browsers; for an empty one it
  is `badtool`, which does not block it. The pattern for X-Forwarded-For finds "10." inside
  any address and does not cover `127.0.0.2`, which the page takes for internal. The
  printed list of scanners lacks two that `waf.tf` has, so it must be added to the rule and
  must not replace it.
* What the page cannot read in what it says to paste (`dashboard.py:245`). The table holds
  the 100 most frequent rows (`waf_header_stats.py:184`), a query 10 000 (`:42`), neither
  said on the page: "nothing to block" is said of what is left. A line with five commas,
  such as a chain of six addresses, is split as CSV and dropped or misread
  (`dashboard.py:204`). In the CSV a value with a comma or a quote comes in quotes
  (`waf_header_stats.py:152-158`), which the page does not take off: an agent then gets the
  pattern `badtool` (`dashboard.py:231`), which does not block it, so that going round the
  loop shows the same find for ever; a forged address at its beginning is not found.
* `recommend.py` divides a bucket's upper end by the pods as if it were the rate measured
  (`recommend.py:56`), and calls it so ("measured at", `:59`). Two pods that had 20 requests a
  second, in bucket 25, give 29 pods for 300: 10.3 for each where 10 were shown, in spite of
  the safety that is described as "+20%" (`recommend.py:78`). Up to two and a half times is
  possible, more in the lowest bucket. `SizedByEvidence` allows for it, and no more.
* `collect.sh` takes the time before kubectl is asked, so a slow call is recorded for a
  window in which it was not true; a call that fails is recorded as 0 and averaged.
  `SizedByEvidence` speaks of runs without either.
* A comment at `recommend.py:51` says that it warns when every bucket exceeds the limit, and
  it does not. Nodes are counted by usage, not by the request that the scheduler counts.
  The example in `logcheck/README.md:94` (300m, 66 %) is not what the formula gives.
* The source of the user application serves `/v1/users` from memory; what is deployed is a
  binary that serves `/v1/user` from the table. `UserStore` is about the source.

## 6. Plan

1. *(done)* `Catalogue`, `ProductService`, its invariants, liveness, refinement and proofs.
2. *(done)* `SeedJob` and its proofs.
3. *(done)* `PracticeProduct`, as a refinement of `Catalogue`, and its proofs.
4. *(done)* `EdgeRouting` and its proofs.
5. *(done)* `AutoTune`, `HillClimb`, `Tuning` and their proofs.
6. *(done)* `Monitor` and its proofs.
7. *(done)* `LoadProfile`, `Sizing` and their proofs: sizing arithmetic and windows.
8. *(done)* `WafLoop` and its proofs: the log queries, the page, the rules, in rounds.
9. *(done)* `UserStore` and its proofs.

Left: the object bodies of `ProductService`, whose keys collide only for one file name
(`PracticeProduct` has the harder case); and a `LoadProfile` where kubectl's zeros are
followed into the advice.

## 7. Not modelled

* The stress application, which keeps nothing between two requests.
* The workload deployment: replica counts are decided by the HPA and Karpenter, which
  are external. What the other modules use of it, several pods and rolling updates
  without signal handling, is stated there.
* Cloud resources without behaviour (`vpc`, `iam`, `ecr`, `eks`, `providers`, `build`,
  `s3`, `lb_controller`, `policies/`) and shell bootstrap.
* Of the monitor its tables and statistics and the terminal mode, which show what was read
  and decide nothing; of the dashboard the calculator, arithmetic over typed-in numbers.
* HTML and CSS, log formats, Content-Types.

MySQL, S3, CloudFront, kubectl and CloudWatch Logs are external: what is used of them is
stated where it is used.
