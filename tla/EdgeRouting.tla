---------------------------- MODULE EdgeRouting ----------------------------
(***************************************************************************)
(* What decides how a request is answered, in front of the applications:   *)
(* the web ACL (terraform/waf.tf), the CloudFront distribution with its    *)
(* caches (terraform/cloudfront.tf) and the load balancer's listener rules *)
(* (terraform/alb.tf).  The load balancer is open to the Internet, so a    *)
(* request may also come to it directly.                                   *)
(*                                                                         *)
(* The product application is what module Catalogue promises, seen by time *)
(* alone: a GET is answered with a version from the oldest one that some   *)
(* pod still caches up to the row.  The other applications answer anything.*)
(***************************************************************************)
EXTENDS Integers, FiniteSets

CONSTANTS
    Edge,         \* CloudFront's caches
    Id,           \* product ids
    Req,          \* requests in flight
    Calls,        \* Calls[r]: what may be sent in slot r
    TTL,          \* default_ttl of product_get, in ticks of the clock
    MaxVersions,  \* bound: a row changes at most this often
    NoCall, NoEntry, NoWhere

ApiPath == {"/v1/user", "/v1/product", "/v1/stress"}

\* "/v1/product/x" and "/v1/productx" stand for what the wildcards of the cache
\* behaviour and of the listener rules tell apart; "/none" for all the rest.
Path == ApiPath \cup {"/v1/user/x", "/v1/product/x", "/v1/productx", "/images/x",
                      "/healthcheck", "/none"}

\* What a request carries that some rule looks at.  "payload" is what one of
\* the managed rule groups takes for an attack.
Sign == {"none", "scanner agent", "loopback forwarded-for", "junk header",
         "empty junk header", "payload"}

Method == {"GET", "POST", "PUT"}

Call == [edge : Edge \cup {NoWhere}, method : Method, path : Path, id : Id, sign : Sign]

\* An answer: its status and, for a product that is shown, its version.
Answer == [status : {"200", "403", "404", "5xx", "other"}, v : Nat]

Entry == [answer : Answer, left : -1 .. TTL]

ASSUME EdgeAssumption ==
    /\ Calls \in [Req -> SUBSET Call]
    /\ TTL \in Nat
    /\ MaxVersions \in Nat
    /\ NoWhere \notin Edge
    /\ NoCall \notin Call
    /\ NoEntry \notin Entry

VARIABLES
    rows,     \* rows[i]: the versions product i has had; 0 if it is missing
    oldest,   \* oldest[i]: the oldest version that a pod may answer with
    edge,     \* edge[e][<<path, i>>]: what a cache holds for path and id
    pc,       \* where a request is
    call,     \* the request
    answer,   \* the answer on its way back, or given
    source    \* who answered, "stale" for an entry in place of a 5xx

vars == <<rows, oldest, edge, pc, call, answer, source>>
products == <<rows, oldest>>

NoAnswer == [status |-> "other", v |-> 0]

\* Paths of the cache behaviour "/v1/product*".
CachedPath == {"/v1/product", "/v1/product/x", "/v1/productx"}

TypeOK ==
    /\ rows \in [Id -> 0 .. MaxVersions]
    /\ oldest \in [Id -> 0 .. MaxVersions]
    /\ edge \in [Edge -> [CachedPath \X Id -> Entry \cup {NoEntry}]]
    /\ pc \in [Req -> {"idle", "waf", "cloudfront", "s3", "alb", "app", "back", "done"}]
    /\ call \in [Req -> Call \cup {NoCall}]
    /\ answer \in [Req -> Answer]
    /\ source \in [Req -> {"none", "waf", "cloudfront", "cache", "stale", "s3", "alb", "app"}]

Init ==
    /\ rows = [i \in Id |-> 0]
    /\ oldest = [i \in Id |-> 0]
    /\ edge = [e \in Edge |-> [k \in CachedPath \X Id |-> NoEntry]]
    /\ pc = [r \in Req |-> "idle"]
    /\ call = [r \in Req |-> NoCall]
    /\ answer = [r \in Req |-> NoAnswer]
    /\ source = [r \in Req |-> "none"]

-----------------------------------------------------------------------------
GoTo(r, where) == pc' = [pc EXCEPT ![r] = where] /\ UNCHANGED <<answer, source>>

Answered(r, who, ans, where) ==
    /\ pc' = [pc EXCEPT ![r] = where]
    /\ answer' = [answer EXCEPT ![r] = ans]
    /\ source' = [source EXCEPT ![r] = who]

Status(s) == [status |-> s, v |-> 0]

ViaEdge(c) == c.edge # NoWhere

\* The client sends a request to the distribution, or to the load balancer.
Send(r, c) ==
    /\ pc[r] = "idle"
    /\ call' = [call EXCEPT ![r] = c]
    /\ GoTo(r, IF ViaEdge(c) THEN "waf" ELSE "alb")
    /\ UNCHANGED <<products, edge>>

-----------------------------------------------------------------------------
(***************************************************************************)
(* waf.tf: the rules by priority; the default action is to allow.          *)
(***************************************************************************)
\* Rules 3, 4 and 5 look at a header of any request.  An X-Junk header without
\* a value is of size 0 and passes.
CustomRule(c) == c.sign \in {"scanner agent", "loopback forwarded-for", "junk header"}

\* Variant of Blocked: the header rules have the managed groups' scope.
BlockedOnEndpoints(c) == (CustomRule(c) \/ c.sign = "payload") /\ c.path \in ApiPath

\* The managed groups are scoped down to the three endpoints, exactly.
ManagedRule(c) == c.sign = "payload" /\ c.path \in ApiPath

Blocked(c) == CustomRule(c) \/ ManagedRule(c)

Waf(r) ==
    /\ pc[r] = "waf"
    /\ \/ Blocked(call[r]) /\ Answered(r, "waf", Status("403"), "done")
       \/ ~Blocked(call[r]) /\ GoTo(r, "cloudfront")
    /\ UNCHANGED <<products, edge, call>>

-----------------------------------------------------------------------------
(***************************************************************************)
(* cloudfront.tf: only GETs of product paths are cached here, by path and  *)
(* id.  Images come from S3, if only by GET; that they are cached too is   *)
(* left out.  Everything else passes to the load balancer with the secret  *)
(* header.                                                                 *)
(***************************************************************************)
Cacheable(c) == c.method = "GET" /\ c.path \in CachedPath

\* Variant: the query string is not part of the key.
CacheKeyWithoutId(c) == <<c.path, CHOOSE i \in Id : TRUE>>

CacheKey(c) == <<c.path, c.id>>

EntryFor(r) == edge[call[r].edge][CacheKey(call[r])]

\* Variant: an entry is used whatever its age.
FreshForEver(e) == e # NoEntry

Fresh(e) == e # NoEntry /\ e.left >= 0

CloudFront(r) ==
    /\ pc[r] = "cloudfront"
    /\ \/ /\ call[r].path = "/images/x" /\ call[r].method = "GET"
          /\ GoTo(r, "s3")
       \/ /\ call[r].path = "/images/x" /\ call[r].method # "GET"
          /\ Answered(r, "cloudfront", Status("403"), "done")
       \/ /\ Cacheable(call[r]) /\ Fresh(EntryFor(r))
          /\ Answered(r, "cache", EntryFor(r).answer, "done")
       \/ /\ call[r].path # "/images/x"
          /\ ~(Cacheable(call[r]) /\ Fresh(EntryFor(r)))
          /\ GoTo(r, "alb")
    /\ UNCHANGED <<products, edge, call>>

\* The bucket answers 403 for a key that is missing, as it may not be listed.
S3(r) ==
    /\ pc[r] = "s3"
    /\ \E s \in {"200", "403", "5xx"} : Answered(r, "s3", Status(s), "done")
    /\ UNCHANGED <<products, edge, call>>

-----------------------------------------------------------------------------
(***************************************************************************)
(* alb.tf: listener rules by priority.  Only CloudFront knows the value of *)
(* X-Origin-Verify.                                                        *)
(***************************************************************************)
\* "/v1/<app>" and "/v1/<app>/*"
AppPath == ApiPath \cup {"/v1/user/x", "/v1/product/x"}

\* Variant: the rule's condition on the header is missing.
ForwardedToAnyone(c) == c.path \in AppPath

Forwarded(c) == c.path \in AppPath /\ ViaEdge(c)

Alb(r) ==
    /\ pc[r] = "alb"
    /\ LET c == call[r]
       IN  \/ c.path = "/healthcheck" /\ GoTo(r, "app")
           \/ Forwarded(c) /\ GoTo(r, "app")
           \/ /\ c.path \in ApiPath /\ ~Forwarded(c)
              /\ Answered(r, "alb", Status("403"), "back")
           \/ /\ c.path \notin ApiPath \cup {"/healthcheck"} /\ ~Forwarded(c)
              /\ Answered(r, "alb", Status("404"), "back")
           \* No healthy target, or it does not answer in time.
           \/ /\ c.path = "/healthcheck" \/ Forwarded(c)
              /\ Answered(r, "alb", Status("5xx"), "back")
    /\ UNCHANGED <<products, edge, call>>

-----------------------------------------------------------------------------
(***************************************************************************)
(* The applications.                                                       *)
(***************************************************************************)
IsProduct(c) == c.path = "/v1/product"

GetProduct(r) ==
    /\ IsProduct(call[r]) /\ call[r].method = "GET"
    /\ LET i == call[r].id
       IN  \/ /\ rows[i] = 0
              /\ Answered(r, "app", Status("404"), "back")
           \/ /\ rows[i] > 0
              /\ \E v \in oldest[i] .. rows[i] :
                    Answered(r, "app", [status |-> "200", v |-> v], "back")
    /\ UNCHANGED products

\* A POST makes the first version, a PUT a further one; or neither does
\* anything, whatever it answers.
ChangeProduct(r) ==
    /\ IsProduct(call[r]) /\ call[r].method # "GET"
    /\ LET i == call[r].id
       IN  /\ rows[i] < MaxVersions
           /\ (call[r].method = "POST") = (rows[i] = 0)
           /\ rows' = [rows EXCEPT ![i] = @ + 1]
           /\ oldest' = [oldest EXCEPT ![i] = IF @ = 0 THEN 1 ELSE @]
    /\ \E s \in {"200", "5xx"} : Answered(r, "app", Status(s), "back")

App(r) ==
    /\ pc[r] = "app"
    /\ \/ GetProduct(r)
       \/ ChangeProduct(r)
       \* Other applications, changes without effect, and paths below an
       \* endpoint, which no route of the application has.
       \/ /\ ~IsProduct(call[r]) \/ call[r].method # "GET"
          /\ \E s \in {"404", "other"} : Answered(r, "app", Status(s), "back")
          /\ UNCHANGED products
    /\ UNCHANGED <<edge, call>>

\* In the end every pod has forgotten the versions before the row's last.
CatchUp(i) ==
    /\ oldest[i] < rows[i]
    /\ oldest' = [oldest EXCEPT ![i] = rows[i]]
    /\ UNCHANGED <<rows, edge, pc, call, answer, source>>

-----------------------------------------------------------------------------
(***************************************************************************)
(* The answer passes CloudFront, which keeps what it shows of a product    *)
(* and, for a minimum time of its own, 404s and 5xx.  If it holds an entry *)
(* already, it may give that instead of a 5xx.                             *)
(***************************************************************************)
Kept(r) ==
    /\ ViaEdge(call[r]) /\ Cacheable(call[r])
    /\ answer[r].status \in {"200", "404", "5xx"}

Cached(r) ==
    edge' = [edge EXCEPT ![call[r].edge][CacheKey(call[r])] =
                [answer |-> answer[r], left |-> TTL]]

Return(r) ==
    /\ pc[r] = "back"
    /\ \/ /\ Kept(r)
          /\ Cached(r)
          /\ GoTo(r, "done")
       \/ /\ Kept(r)
          /\ answer[r].status = "5xx" /\ EntryFor(r) # NoEntry
          /\ Answered(r, "stale", EntryFor(r).answer, "done")
          /\ UNCHANGED edge
       \/ /\ ~Kept(r)
          /\ GoTo(r, "done")
          /\ UNCHANGED edge
    /\ UNCHANGED <<products, call>>

Done(r) ==
    /\ pc[r] = "done"
    /\ call' = [call EXCEPT ![r] = NoCall]
    /\ Answered(r, "none", NoAnswer, "idle")
    /\ UNCHANGED <<products, edge>>

\* Variant: entries that have expired go on ageing.
OlderStill(e) == IF e # NoEntry THEN [e EXCEPT !.left = @ - 1] ELSE e

Older(e) == IF e # NoEntry /\ e.left >= 0 THEN [e EXCEPT !.left = @ - 1] ELSE e

Tick ==
    /\ \E e \in Edge, k \in CachedPath \X Id : Older(edge[e][k]) # edge[e][k]
    /\ edge' = [e \in Edge |-> [k \in CachedPath \X Id |-> Older(edge[e][k])]]
    /\ UNCHANGED <<products, pc, call, answer, source>>

-----------------------------------------------------------------------------
Handle(r) == Waf(r) \/ CloudFront(r) \/ S3(r) \/ Alb(r) \/ App(r) \/ Return(r)

Next ==
    \/ \E r \in Req : \/ \E c \in Calls[r] : Send(r, c)
                      \/ Handle(r) \/ Done(r)
    \/ \E i \in Id : CatchUp(i)
    \/ Tick

Spec == Init /\ [][Next]_vars

\* Requests are answered, time passes, and the application keeps its promise.
FairSpec ==
    /\ Spec
    /\ \A r \in Req : WF_vars(Handle(r))
    /\ \A i \in Id : WF_vars(CatchUp(i))
    /\ WF_vars(Tick)

-----------------------------------------------------------------------------
(***************************************************************************)
(* tuning/waf_header_stats.py: what the operators' report expects to be    *)
(* done with a request, by its header and its path.                        *)
(***************************************************************************)
VALID_EP == ApiPath \cup {"/healthcheck", "/images/x"}

verdict(c) ==
    IF c.path \notin VALID_EP THEN "404"
    ELSE IF c.sign = "scanner agent" THEN "403-UA"
    ELSE IF c.sign = "loopback forwarded-for" THEN "403-XFF"
    ELSE IF c.sign \in {"junk header", "empty junk header"} THEN "403-HDR"
    ELSE "OK"

-----------------------------------------------------------------------------
(***************************************************************************)
(* Properties                                                              *)
(***************************************************************************)
\* Whatever reaches a pod of an application has come through the distribution
\* and past the web ACL, though the load balancer is open to everybody: only
\* its health check is answered to others.  Three systems decide this
\* together: waf.tf, the origin's header in cloudfront.tf and the order of
\* the listener rules in alb.tf.
OnlyPassedRequestsReachPods ==
    \A r \in Req :
        pc[r] = "app" /\ call[r].path # "/healthcheck" =>
            ViaEdge(call[r]) /\ ~CustomRule(call[r]) /\ ~ManagedRule(call[r])

\* For the paths that exist, the report judges requests as the web ACL does:
\* what should be a 403 was blocked, and what was blocked without such a
\* verdict was the managed groups' doing.  An X-Junk header without a value is
\* the exception: the report counts it as not blocked yet.
VerdictsAgree ==
    \A r \in Req :
        /\ pc[r] = "done" /\ ViaEdge(call[r])
        /\ verdict(call[r]) # "404" /\ call[r].sign # "empty junk header"
        => (source[r] = "waf") = (verdict(call[r]) # "OK" \/ ManagedRule(call[r]))

\* A product that is shown, from a cache or not, is one of that id's own
\* versions, in the answer and in every cache (the cache key of cloudfront.tf).
ShownProductExists ==
    /\ \A r \in Req :
          answer[r].status = "200" /\ source[r] \in {"app", "cache", "stale"}
                /\ call[r].method = "GET" =>
              answer[r].v \in 1 .. rows[call[r].id]
    /\ \A e \in Edge, k \in CachedPath \X Id :
          edge[e][k] # NoEntry /\ edge[e][k].answer.status = "200" =>
              edge[e][k].answer.v \in 1 .. rows[k[2]]

\* When the products have stopped changing, answers through the edge become
\* and stay current, cached 404s and the fills that were under way included:
\* whoever is told something other than an error is told the product's last
\* version (the short default_ttl of cloudfront.tf, the max-age of
\* handleProduct).  Not so for an old entry given in place of a 5xx.
EdgeEventuallyCurrent ==
    <>[][\A r \in Req :
            /\ pc'[r] = "done" /\ pc[r] # "done"
            /\ IsProduct(call[r]) /\ ViaEdge(call[r]) /\ call[r].method = "GET"
            /\ source'[r] \in {"app", "cache"} /\ answer'[r].status # "5xx"
            => answer'[r].v = rows[call[r].id]]_vars

=============================================================================
