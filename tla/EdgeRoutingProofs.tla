------------------------- MODULE EdgeRoutingProofs -------------------------
(***************************************************************************)
(* Proofs about the edge, for any number of caches, products and requests, *)
(* and whatever clients send.                                              *)
(***************************************************************************)
EXTENDS EdgeRouting, TLAPS

(***************************************************************************)
(* The inductive invariant: what is known of a request, by where it is.    *)
(***************************************************************************)
Unanswered == {"idle", "waf", "cloudfront", "s3", "alb", "app"}

\* Whoever gets behind the web ACL has passed it, on every way there is.
RouteInv(r) ==
    /\ pc[r] # "idle" => call[r] \in Call
    /\ pc[r] = "waf" => ViaEdge(call[r])
    /\ pc[r] \in {"cloudfront", "s3"} => ViaEdge(call[r]) /\ ~Blocked(call[r])
    /\ pc[r] \in {"alb", "app", "back"} /\ ViaEdge(call[r]) => ~Blocked(call[r])
    /\ pc[r] = "app" => call[r].path = "/healthcheck" \/ ViaEdge(call[r])
    /\ pc[r] = "done" /\ ViaEdge(call[r]) => (source[r] = "waf" <=> Blocked(call[r]))

AnswerInv(r) ==
    /\ pc[r] \in Unanswered => source[r] = "none"
    /\ pc[r] = "back" => source[r] \in {"app", "alb"}
    /\ source[r] = "alb" => answer[r].status # "200"
    /\ /\ answer[r].status = "200" /\ source[r] \in {"app", "cache", "stale"}
       /\ call[r].method = "GET"
       => answer[r].v \in 1 .. rows[call[r].id]

ProductInv(i) == oldest[i] <= rows[i] /\ (rows[i] > 0 => oldest[i] > 0)

EntryInv(e, k) ==
    edge[e][k] # NoEntry /\ edge[e][k].answer.status = "200" =>
        edge[e][k].answer.v \in 1 .. rows[k[2]]

EdgeInv ==
    /\ TypeOK
    /\ \A r \in Req : RouteInv(r) /\ AnswerInv(r)
    /\ \A i \in Id : ProductInv(i)
    /\ \A e \in Edge, k \in CachedPath \X Id : EntryInv(e, k)

-----------------------------------------------------------------------------
\* A step of one request that leaves products and caches alone.
LEMMA RequestMoves ==
    ASSUME EdgeInv, NEW r \in Req, TypeOK', UNCHANGED <<products, edge>>,
           RouteInv(r)', AnswerInv(r)',
           \A s \in Req : s # r =>
               /\ pc'[s] = pc[s] /\ call'[s] = call[s]
               /\ answer'[s] = answer[s] /\ source'[s] = source[s]
    PROVE  EdgeInv'
  <1>1. ASSUME NEW s \in Req, s # r PROVE RouteInv(s)' /\ AnswerInv(s)'
    BY <1>1 DEF EdgeInv, RouteInv, AnswerInv, products
  <1>2. \A i \in Id : ProductInv(i)'
    BY DEF EdgeInv, ProductInv, products
  <1>3. \A e \in Edge, k \in CachedPath \X Id : EntryInv(e, k)'
    BY DEF EdgeInv, EntryInv, products
  <1>4. QED
    BY <1>1, <1>2, <1>3 DEF EdgeInv

\* Nothing is under way, cached or told yet.
LEMMA EdgeInit == Init => EdgeInv
  <1> SUFFICES ASSUME Init PROVE EdgeInv
    OBVIOUS
  <1>1. TypeOK
    BY EdgeAssumption DEF Init, TypeOK, NoAnswer, Answer
  <1>2. \A r \in Req : RouteInv(r) /\ AnswerInv(r)
    BY DEF Init, RouteInv, AnswerInv, NoAnswer
  <1>3. \A i \in Id : ProductInv(i)
    BY DEF Init, ProductInv
  <1>4. \A e \in Edge, k \in CachedPath \X Id : EntryInv(e, k)
    BY DEF Init, EntryInv
  <1>5. QED
    BY <1>1, <1>2, <1>3, <1>4 DEF EdgeInv

\* A request moves on, or is answered: what that does to the variables.
LEMMA GoToFacts ==
    ASSUME TypeOK, NEW r \in Req, UNCHANGED <<products, edge, call>>,
           NEW w \in {"cloudfront", "s3", "alb", "app"}, GoTo(r, w)
    PROVE  /\ TypeOK'
           /\ pc'[r] = w
           /\ \A s \in Req : s # r => pc'[s] = pc[s]
  BY DEF TypeOK, GoTo, products

\* An answered request keeps its call, and no other request moves.
LEMMA AnsweredFacts ==
    ASSUME TypeOK, NEW r \in Req, UNCHANGED <<products, edge, call>>,
           NEW who \in {"none", "waf", "cloudfront", "cache", "stale", "s3", "alb", "app"},
           NEW ans \in Answer, NEW w \in {"idle", "back", "done"}, Answered(r, who, ans, w)
    PROVE  /\ TypeOK'
           /\ pc'[r] = w /\ source'[r] = who /\ answer'[r] = ans
           /\ \A s \in Req : s # r =>
                pc'[s] = pc[s] /\ source'[s] = source[s] /\ answer'[s] = answer[s]
  BY DEF TypeOK, Answered, products

\* A request sent to the distribution or straight to the load balancer.
LEMMA SendStep ==
    ASSUME EdgeInv, NEW r \in Req, NEW c \in Calls[r], Send(r, c)
    PROVE  EdgeInv'
  <1>1. c \in Call
    BY EdgeAssumption
  <1>2. TypeOK /\ RouteInv(r) /\ AnswerInv(r)
    BY DEF EdgeInv
  <1>3. TypeOK'
    BY <1>1, <1>2 DEF TypeOK, Send, GoTo, products
  <1>4. /\ pc'[r] = IF ViaEdge(c) THEN "waf" ELSE "alb"
        /\ call'[r] = c /\ source'[r] = "none" /\ answer' = answer
        /\ \A s \in Req : s # r => pc'[s] = pc[s] /\ call'[s] = call[s] /\ source'[s] = source[s]
    BY <1>2 DEF TypeOK, Send, GoTo, AnswerInv, Unanswered
  <1>5. RouteInv(r)' /\ AnswerInv(r)'
    BY <1>1, <1>4 DEF RouteInv, AnswerInv, Unanswered
  <1>6. QED
    BY <1>3, <1>4, <1>5, RequestMoves DEF Send

\* The verdict of the web ACL is settled here.
LEMMA WafStep ==
    ASSUME EdgeInv, NEW r \in Req, Waf(r)
    PROVE  EdgeInv'
  <1>1. TypeOK /\ RouteInv(r) /\ AnswerInv(r)
    BY DEF EdgeInv
  <1>2. CASE Blocked(call[r])
    <2>1. Answered(r, "waf", Status("403"), "done") /\ Status("403") \in Answer
      BY <1>2 DEF Waf, Status, Answer
    <2>2. RouteInv(r)' /\ AnswerInv(r)'
      BY <1>1, <1>2, <2>1, AnsweredFacts DEF Waf, RouteInv, AnswerInv, Unanswered, Status
    <2>3. QED
      BY <1>1, <2>1, <2>2, AnsweredFacts, RequestMoves DEF Waf
  <1>3. CASE ~Blocked(call[r])
    <2>1. GoTo(r, "cloudfront")
      BY <1>3 DEF Waf
    <2>2. RouteInv(r)' /\ AnswerInv(r)'
      BY <1>1, <1>3, <2>1, GoToFacts DEF Waf, RouteInv, AnswerInv, Unanswered, GoTo
    <2>3. QED
      BY <1>1, <2>1, <2>2, GoToFacts, RequestMoves DEF Waf, GoTo
  <1>4. QED
    BY <1>2, <1>3

\* An entry that a request can meet is one of the product it asks for.
LEMMA EntryFacts ==
    ASSUME EdgeInv, NEW r \in Req, call[r] \in Call, ViaEdge(call[r]), Cacheable(call[r]),
           EntryFor(r) # NoEntry
    PROVE  /\ EntryFor(r) \in Entry
           /\ EntryFor(r).answer \in Answer
           /\ EntryFor(r).answer.status = "200" =>
                EntryFor(r).answer.v \in 1 .. rows[call[r].id]
  <1>1. call[r].edge \in Edge /\ CacheKey(call[r]) \in CachedPath \X Id
    BY DEF Call, ViaEdge, Cacheable, CacheKey
  <1>2. EntryFor(r) \in Entry
    BY <1>1 DEF EdgeInv, TypeOK, EntryFor
  <1>3. EntryFor(r).answer \in Answer
    BY <1>2 DEF Entry
  <1>4. EntryInv(call[r].edge, CacheKey(call[r])) /\ CacheKey(call[r])[2] = call[r].id
    BY <1>1 DEF EdgeInv, CacheKey
  <1>5. QED
    BY <1>2, <1>3, <1>4 DEF EntryInv, EntryFor

\* A blocked path, a fresh entry, S3, or the origin.
LEMMA CloudFrontStep ==
    ASSUME EdgeInv, NEW r \in Req, CloudFront(r)
    PROVE  EdgeInv'
  <1>1. TypeOK /\ RouteInv(r) /\ AnswerInv(r)
    BY DEF EdgeInv
  <1>2. pc[r] = "cloudfront" /\ UNCHANGED <<products, edge, call>>
    BY DEF CloudFront
  <1>3. ASSUME NEW w \in {"s3", "alb"}, GoTo(r, w)
        PROVE  EdgeInv'
    <2>1. RouteInv(r)' /\ AnswerInv(r)'
      BY <1>1, <1>2, <1>3, GoToFacts DEF RouteInv, AnswerInv, Unanswered, GoTo, products
    <2>2. QED
      BY <1>1, <1>2, <1>3, <2>1, GoToFacts, RequestMoves DEF GoTo
  <1>4. CASE Answered(r, "cloudfront", Status("403"), "done")
    <2>1. Status("403") \in Answer
      BY DEF Status, Answer
    <2>2. RouteInv(r)' /\ AnswerInv(r)'
      BY <1>1, <1>2, <1>4, <2>1, AnsweredFacts DEF RouteInv, AnswerInv, Unanswered, Status
    <2>3. QED
      BY <1>1, <1>2, <1>4, <2>1, <2>2, AnsweredFacts, RequestMoves
  <1>5. CASE /\ Cacheable(call[r]) /\ Fresh(EntryFor(r))
             /\ Answered(r, "cache", EntryFor(r).answer, "done")
    <2>1. /\ EntryFor(r).answer \in Answer
          /\ EntryFor(r).answer.status = "200" =>
                EntryFor(r).answer.v \in 1 .. rows[call[r].id]
      BY <1>1, <1>2, <1>5, EntryFacts DEF RouteInv, Fresh
    <2>2. RouteInv(r)'
      BY <1>1, <1>2, <1>5, <2>1, AnsweredFacts DEF RouteInv
    <2>3. AnswerInv(r)'
      BY <1>1, <1>2, <1>5, <2>1, AnsweredFacts DEF AnswerInv, Unanswered, products
    <2>4. QED
      BY <1>1, <1>2, <1>5, <2>1, <2>2, <2>3, AnsweredFacts, RequestMoves
  <1>6. QED
    BY <1>3, <1>4, <1>5 DEF CloudFront

\* An image comes from the bucket.
LEMMA S3Step ==
    ASSUME EdgeInv, NEW r \in Req, S3(r)
    PROVE  EdgeInv'
  <1>1. TypeOK /\ RouteInv(r) /\ AnswerInv(r)
    BY DEF EdgeInv
  <1>2. PICK s \in {"200", "403", "5xx"} : Answered(r, "s3", Status(s), "done")
    BY DEF S3
  <1>3. Status(s) \in Answer
    BY DEF Status, Answer
  <1>4. RouteInv(r)' /\ AnswerInv(r)'
    BY <1>1, <1>2, <1>3, AnsweredFacts DEF S3, RouteInv, AnswerInv, Unanswered
  <1>5. QED
    BY <1>1, <1>2, <1>3, <1>4, AnsweredFacts, RequestMoves DEF S3

\* The listener rules decide who is forwarded.
LEMMA AlbStep ==
    ASSUME EdgeInv, NEW r \in Req, Alb(r)
    PROVE  EdgeInv'
  <1>1. TypeOK /\ RouteInv(r) /\ AnswerInv(r)
    BY DEF EdgeInv
  <1>2. pc[r] = "alb" /\ UNCHANGED <<products, edge, call>>
    BY DEF Alb
  <1>3. CASE (call[r].path = "/healthcheck" \/ Forwarded(call[r])) /\ GoTo(r, "app")
    <2>1. RouteInv(r)' /\ AnswerInv(r)'
      BY <1>1, <1>2, <1>3, GoToFacts
         DEF Forwarded, RouteInv, AnswerInv, Unanswered, GoTo, products
    <2>2. QED
      BY <1>1, <1>2, <1>3, <2>1, GoToFacts, RequestMoves DEF GoTo
  <1>4. ASSUME NEW s \in {"403", "404", "5xx"}, Answered(r, "alb", Status(s), "back")
        PROVE  EdgeInv'
    <2>1. Status(s) \in Answer
      BY DEF Status, Answer
    <2>2. RouteInv(r)' /\ AnswerInv(r)'
      BY <1>1, <1>2, <1>4, <2>1, AnsweredFacts DEF RouteInv, AnswerInv, Unanswered, Status
    <2>3. QED
      BY <1>1, <1>2, <1>4, <2>1, <2>2, AnsweredFacts, RequestMoves
  <1>5. QED
    BY <1>3, <1>4 DEF Alb

-----------------------------------------------------------------------------
\* Products only ever get further versions, and what was said of the earlier
\* ones stays true.
LEMMA ProductsGrow ==
    ASSUME EdgeInv, TypeOK', NEW r \in Req,
           \A i \in Id : rows'[i] >= rows[i] /\ ProductInv(i)',
           UNCHANGED edge, RouteInv(r)', AnswerInv(r)',
           \A s \in Req : s # r =>
               /\ pc'[s] = pc[s] /\ call'[s] = call[s]
               /\ answer'[s] = answer[s] /\ source'[s] = source[s]
    PROVE  EdgeInv'
  <1>1. \A i \in Id : rows[i] \in Nat /\ rows'[i] \in Nat
    BY EdgeAssumption DEF EdgeInv, TypeOK
  <1>2. \A i \in Id : 1 .. rows[i] \subseteq 1 .. rows'[i]
    BY <1>1
  <1>3. ASSUME NEW s \in Req, s # r PROVE RouteInv(s)' /\ AnswerInv(s)'
    <2>1. RouteInv(s)'
      BY <1>3 DEF EdgeInv, RouteInv
    <2>2. source[s] \in {"app", "cache", "stale"} => call[s] \in Call
      BY <1>3 DEF EdgeInv, TypeOK, RouteInv, AnswerInv, Unanswered
    <2>3. AnswerInv(s)'
      BY <1>2, <1>3, <2>2 DEF EdgeInv, AnswerInv, Call
    <2>4. QED
      BY <2>1, <2>3
  <1>4. \A e \in Edge, k \in CachedPath \X Id : EntryInv(e, k)'
    BY <1>2 DEF EdgeInv, EntryInv
  <1>5. QED
    BY <1>3, <1>4 DEF EdgeInv

\* An application answers, and may create or change a product.
LEMMA AppStep ==
    ASSUME EdgeInv, NEW r \in Req, App(r)
    PROVE  EdgeInv'
  <1>1. TypeOK /\ RouteInv(r) /\ AnswerInv(r)
    BY DEF EdgeInv
  <1>2. pc[r] = "app" /\ UNCHANGED <<edge, call>> /\ call[r] \in Call
    BY <1>1 DEF App, RouteInv
  <1>3. PICK i \in Id : i = call[r].id
    BY <1>2 DEF Call
  <1>4. rows[i] \in Nat /\ oldest[i] \in Nat /\ ProductInv(i)
    BY EdgeAssumption DEF EdgeInv, TypeOK
  <1>5. ASSUME UNCHANGED products, NEW ans \in Answer, Answered(r, "app", ans, "back"),
               ans.status = "200" => ans.v \in 1 .. rows[call[r].id]
        PROVE  EdgeInv'
    <2>1. RouteInv(r)' /\ AnswerInv(r)'
      BY <1>1, <1>2, <1>5, AnsweredFacts DEF RouteInv, AnswerInv, Unanswered, products
    <2>2. QED
      BY <1>1, <1>2, <1>5, <2>1, AnsweredFacts, RequestMoves
  <1>6. CASE GetProduct(r)
    <2>1. CASE rows[i] = 0
      <3>1. Answered(r, "app", Status("404"), "back") /\ UNCHANGED products
        BY <1>3, <1>6, <2>1 DEF GetProduct
      <3>2. Status("404") \in Answer /\ Status("404").status # "200"
        BY DEF Status, Answer
      <3>3. QED
        BY <1>5, <3>1, <3>2
    <2>2. CASE rows[i] > 0
      <3>1. PICK v \in oldest[i] .. rows[i] :
                Answered(r, "app", [status |-> "200", v |-> v], "back")
        BY <1>3, <1>6, <2>2 DEF GetProduct
      <3>2. v \in 1 .. rows[i] /\ v \in Nat
        BY <1>4, <2>2 DEF ProductInv
      <3>3. [status |-> "200", v |-> v] \in Answer
        BY <3>2 DEF Answer
      <3>4. QED
        BY <1>3, <1>5, <1>6, <3>1, <3>2, <3>3 DEF GetProduct
    <2>3. QED
      BY <1>4, <2>1, <2>2
  <1>7. CASE ChangeProduct(r)
    <2>1. PICK s \in {"200", "5xx"} : Answered(r, "app", Status(s), "back")
      BY <1>7 DEF ChangeProduct
    <2>2. Status(s) \in Answer
      BY DEF Status, Answer
    <2>3. /\ rows[i] < MaxVersions /\ rows' = [rows EXCEPT ![i] = @ + 1]
          /\ oldest' = [oldest EXCEPT ![i] = IF @ = 0 THEN 1 ELSE @]
          /\ call[r].method # "GET"
      BY <1>3, <1>7 DEF ChangeProduct
    <2>4. rows' \in [Id -> 0 .. MaxVersions] /\ oldest' \in [Id -> 0 .. MaxVersions]
      BY <1>1, <1>4, <2>3, EdgeAssumption DEF TypeOK
    <2>5. TypeOK'
      BY <1>1, <1>2, <2>1, <2>2, <2>4 DEF TypeOK, Answered
    <2>6. ASSUME NEW j \in Id PROVE rows'[j] >= rows[j] /\ ProductInv(j)'
      <3>1. rows[j] \in Nat /\ oldest[j] \in Nat /\ ProductInv(j)
        BY EdgeAssumption DEF EdgeInv, TypeOK
      <3>2. QED
        BY <1>1, <2>3, <3>1 DEF ProductInv, TypeOK
    <2>7. RouteInv(r)' /\ AnswerInv(r)'
      BY <1>1, <1>2, <2>1, <2>3 DEF TypeOK, Answered, RouteInv, AnswerInv, Unanswered
    <2>8. QED
      BY <1>1, <1>2, <2>1, <2>5, <2>6, <2>7, ProductsGrow DEF TypeOK, Answered
  <1>8. CASE /\ UNCHANGED products
             /\ \E s \in {"404", "other"} : Answered(r, "app", Status(s), "back")
    <2>1. PICK s \in {"404", "other"} : Answered(r, "app", Status(s), "back")
      BY <1>8
    <2>2. Status(s) \in Answer /\ Status(s).status # "200"
      BY DEF Status, Answer
    <2>3. QED
      BY <1>5, <1>8, <2>1, <2>2
  <1>9. QED
    BY <1>6, <1>7, <1>8 DEF App

\* Pods forget an old copy; what is told only gets newer.
LEMMA CatchUpStep ==
    ASSUME EdgeInv, NEW i \in Id, CatchUp(i)
    PROVE  EdgeInv'
  <1>1. rows[i] \in Nat /\ rows[i] \in 0 .. MaxVersions
    BY EdgeAssumption DEF EdgeInv, TypeOK
  <1>2. TypeOK'
    BY <1>1 DEF EdgeInv, TypeOK, CatchUp
  <1>3. \A r \in Req : RouteInv(r)' /\ AnswerInv(r)'
    BY DEF EdgeInv, RouteInv, AnswerInv, CatchUp
  <1>4. \A j \in Id : ProductInv(j)'
    BY <1>1 DEF EdgeInv, TypeOK, ProductInv, CatchUp
  <1>5. \A e \in Edge, k \in CachedPath \X Id : EntryInv(e, k)'
    BY DEF EdgeInv, EntryInv, CatchUp
  <1>6. QED
    BY <1>2, <1>3, <1>4, <1>5 DEF EdgeInv

-----------------------------------------------------------------------------
\* The answer comes back and is kept, passed on, or replaced by an old one.
LEMMA ReturnStep ==
    ASSUME EdgeInv, NEW r \in Req, Return(r)
    PROVE  EdgeInv'
  <1>1. TypeOK /\ RouteInv(r) /\ AnswerInv(r)
    BY DEF EdgeInv
  <1>2. pc[r] = "back" /\ UNCHANGED <<products, call>> /\ call[r] \in Call
    BY <1>1 DEF Return, RouteInv
  <1>3. CASE Kept(r) /\ Cached(r) /\ GoTo(r, "done")
    <2>1. call[r].edge \in Edge /\ CacheKey(call[r]) \in CachedPath \X Id
      BY <1>2, <1>3 DEF Kept, Cacheable, CacheKey, ViaEdge, Call
    <2> DEFINE new == [answer |-> answer[r], left |-> TTL]
    <2>2. new \in Entry
      BY <1>1, EdgeAssumption DEF Entry, TypeOK
    <2>3. edge' \in [Edge -> [CachedPath \X Id -> Entry \cup {NoEntry}]]
      BY <1>1, <1>3, <2>1, <2>2 DEF Cached, TypeOK
    <2>4. TypeOK'
      BY <1>1, <1>2, <1>3, <2>3 DEF TypeOK, GoTo, products
    <2>5. answer[r].status = "200" => answer[r].v \in 1 .. rows[CacheKey(call[r])[2]]
      BY <1>1, <1>2, <1>3 DEF AnswerInv, Kept, Cacheable, CacheKey
    <2>6. ASSUME NEW e \in Edge, NEW k \in CachedPath \X Id
          PROVE  EntryInv(e, k)'
      <3>1. CASE e = call[r].edge /\ k = CacheKey(call[r])
        <4>1. edge'[e][k] = new
          BY <1>1, <1>3, <3>1 DEF Cached, TypeOK
        <4>2. QED
          BY <1>2, <2>5, <3>1, <4>1 DEF EntryInv, products
      <3>2. CASE ~(e = call[r].edge /\ k = CacheKey(call[r]))
        <4>1. edge'[e][k] = edge[e][k]
          BY <1>1, <1>3, <3>2 DEF Cached, TypeOK
        <4>2. QED
          BY <1>2, <4>1 DEF EdgeInv, EntryInv, products
      <3>3. QED
        BY <3>1, <3>2
    <2>7. ASSUME NEW s \in Req PROVE RouteInv(s)' /\ AnswerInv(s)'
      BY <1>1, <1>2, <1>3 DEF EdgeInv, TypeOK, GoTo, RouteInv, AnswerInv, Unanswered, products
    <2>8. \A i \in Id : ProductInv(i)'
      BY <1>2 DEF EdgeInv, ProductInv, products
    <2>9. QED
      BY <2>4, <2>6, <2>7, <2>8 DEF EdgeInv
  <1>4. CASE /\ Kept(r) /\ EntryFor(r) # NoEntry /\ UNCHANGED edge
             /\ Answered(r, "stale", EntryFor(r).answer, "done")
    <2>1. /\ EntryFor(r).answer \in Answer
          /\ EntryFor(r).answer.status = "200" =>
                EntryFor(r).answer.v \in 1 .. rows[call[r].id]
      BY <1>2, <1>4, EntryFacts DEF Kept
    <2>2. RouteInv(r)'
      BY <1>1, <1>2, <1>4, <2>1, AnsweredFacts DEF RouteInv
    <2>3. AnswerInv(r)'
      BY <1>1, <1>2, <1>4, <2>1, AnsweredFacts DEF AnswerInv, Unanswered, products
    <2>4. QED
      BY <1>1, <1>2, <1>4, <2>1, <2>2, <2>3, AnsweredFacts, RequestMoves
  <1>5. CASE GoTo(r, "done") /\ UNCHANGED edge
    <2>1. TypeOK'
      BY <1>1, <1>2, <1>5 DEF TypeOK, GoTo, products
    <2>2. RouteInv(r)' /\ AnswerInv(r)'
      BY <1>1, <1>2, <1>5 DEF TypeOK, GoTo, RouteInv, AnswerInv, Unanswered, products
    <2>3. QED
      BY <1>1, <1>2, <1>5, <2>1, <2>2, RequestMoves DEF TypeOK, GoTo
  <1>6. QED
    BY <1>3, <1>4, <1>5 DEF Return

\* The client has its answer, and the slot is free.
LEMMA DoneStep ==
    ASSUME EdgeInv, NEW r \in Req, Done(r)
    PROVE  EdgeInv'
  <1>1. TypeOK
    BY DEF EdgeInv
  <1>2. NoAnswer \in Answer
    BY DEF NoAnswer, Answer
  <1>3. TypeOK'
    BY <1>1, <1>2 DEF TypeOK, Done, Answered, products
  <1>4. RouteInv(r)' /\ AnswerInv(r)'
    BY <1>1 DEF TypeOK, Done, Answered, NoAnswer, RouteInv, AnswerInv
  <1>5. QED
    BY <1>1, <1>3, <1>4, RequestMoves DEF TypeOK, Done, Answered

\* Entries age.
LEMMA TickStep ==
    ASSUME EdgeInv, Tick
    PROVE  EdgeInv'
  <1>1. ASSUME NEW x \in Entry \cup {NoEntry}
        PROVE  /\ Older(x) \in Entry \cup {NoEntry}
               /\ Older(x) # NoEntry => x # NoEntry /\ Older(x).answer = x.answer
    BY EdgeAssumption DEF Older, Fresh, Entry
  <1>2. TypeOK'
    BY <1>1 DEF EdgeInv, TypeOK, Tick, products
  <1>3. \A r \in Req : RouteInv(r)' /\ AnswerInv(r)'
    BY DEF EdgeInv, RouteInv, AnswerInv, Tick, products
  <1>4. \A i \in Id : ProductInv(i)'
    BY DEF EdgeInv, ProductInv, Tick, products
  <1>5. ASSUME NEW e \in Edge, NEW k \in CachedPath \X Id
        PROVE  EntryInv(e, k)'
    <2>1. edge[e][k] \in Entry \cup {NoEntry} /\ edge'[e][k] = Older(edge[e][k])
      BY DEF EdgeInv, TypeOK, Tick
    <2>2. QED
      BY <1>1, <2>1 DEF EdgeInv, EntryInv, Tick, products
  <1>6. QED
    BY <1>2, <1>3, <1>4, <1>5 DEF EdgeInv

\* Every step keeps the invariant.
LEMMA EdgeNext == EdgeInv /\ [Next]_vars => EdgeInv'
  <1> SUFFICES ASSUME EdgeInv, [Next]_vars PROVE EdgeInv'
    OBVIOUS
  <1>1. ASSUME NEW r \in Req, NEW c \in Calls[r], Send(r, c) PROVE EdgeInv'
    BY <1>1, SendStep
  <1>2. ASSUME NEW r \in Req, Handle(r) PROVE EdgeInv'
    BY <1>2, WafStep, CloudFrontStep, S3Step, AlbStep, AppStep, ReturnStep DEF Handle
  <1>3. ASSUME NEW r \in Req, Done(r) PROVE EdgeInv'
    BY <1>3, DoneStep
  <1>4. ASSUME NEW i \in Id, CatchUp(i) PROVE EdgeInv'
    BY <1>4, CatchUpStep
  <1>5. CASE Tick
    BY <1>5, TickStep
  <1>6. CASE UNCHANGED vars
    BY <1>6 DEF EdgeInv, TypeOK, RouteInv, AnswerInv, ProductInv, EntryInv, EntryFor,
                vars, products
  <1>7. QED
    BY <1>1, <1>2, <1>3, <1>4, <1>5, <1>6 DEF Next

-----------------------------------------------------------------------------
(***************************************************************************)
(* The theorems.                                                           *)
(***************************************************************************)
\* The invariant holds of every behaviour.
THEOREM EdgeInvariance == Spec => []EdgeInv
  BY EdgeInit, EdgeNext, PTL DEF Spec

\* Requests, answers and cache entries have their types.
THEOREM EdgeTypes == Spec => []TypeOK
  <1>1. EdgeInv => TypeOK
    BY DEF EdgeInv
  <1>2. QED
    BY <1>1, EdgeInvariance, PTL

\* Pods serve nobody but the distribution's clients, whom the web ACL let pass,
\* and health checks.
THEOREM PodsGuarded == Spec => []OnlyPassedRequestsReachPods
  <1>1. EdgeInv => OnlyPassedRequestsReachPods
    BY DEF EdgeInv, RouteInv, Blocked, OnlyPassedRequestsReachPods
  <1>2. QED
    BY <1>1, EdgeInvariance, PTL

\* The report's verdict is what the web ACL did, for the paths that exist.
THEOREM ReportAgrees == Spec => []VerdictsAgree
  <1>1. ASSUME NEW c \in Call, verdict(c) # "404", c.sign # "empty junk header"
        PROVE  Blocked(c) <=> verdict(c) # "OK" \/ ManagedRule(c)
    BY <1>1 DEF verdict, Blocked, CustomRule, VALID_EP
  <1>2. EdgeInv => VerdictsAgree
    BY <1>1 DEF EdgeInv, RouteInv, VerdictsAgree
  <1>3. QED
    BY <1>2, EdgeInvariance, PTL

\* No cache shows one product for another, or a version that never was.
THEOREM ShowsProducts == Spec => []ShownProductExists
  <1>1. EdgeInv => ShownProductExists
    BY DEF EdgeInv, AnswerInv, EntryInv, ShownProductExists
  <1>2. QED
    BY <1>1, EdgeInvariance, PTL

=============================================================================
