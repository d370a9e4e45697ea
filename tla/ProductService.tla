--------------------------- MODULE ProductService ---------------------------
(***************************************************************************)
(* The product application (application/product/main.go): several pods     *)
(* serve POST, GET and PUT /v1/product over one MySQL table and one S3     *)
(* bucket, each pod with a cache of its own that no other pod sees.        *)
(*                                                                         *)
(* A request is served by one goroutine.  Every call that leaves the       *)
(* process (PutObject, ExecContext, QueryRowContext) and every operation   *)
(* on the shared cache is one step, so that the steps of different         *)
(* requests interleave as they may in the program.  jitter() only delays   *)
(* a request: the interleaving already contains every delay.               *)
(*                                                                         *)
(* A definition marked "Variant" is no part of the specification: it is a  *)
(* slip that the code could have had, put in place of the definition that  *)
(* follows it to see which property notices.                               *)
(***************************************************************************)
EXTENDS Integers, Sequences, FiniteSets

CONSTANTS
    Pod,          \* replicas of the deployment
    Id,           \* product ids as clients spell them
    Row,          \* primary keys of the table
    RowOf,        \* the row a spelling selects under the column's collation
    File,         \* file names of uploaded images
    Payload,      \* the (name, price) pairs clients send
    Stored,       \* what the columns keep of a payload: FLOAT(8) rounds a price
    Req,          \* request slots: how many requests are in flight at once
    TTL,          \* cacheTTL, in ticks of the clock
    MaxVersions,  \* bound: a row changes at most this often
    NoImage, NoArg, NoCall, NoCopy, NoEntry

(***************************************************************************)
(* The object key is id + "/" + file name, and the image path "/" + key.   *)
(* A file name has no slash (mime/multipart keeps its last element), so    *)
(* distinct pairs give distinct keys.                                      *)
(***************************************************************************)
Key == Id \X File

Product == [id : Id, pay : Payload, img : Key \cup {NoImage}]

\* A product in a pod's memory, with the number of the row version it shows.
Copy == [prod : Product, v : Nat]

\* left < 0 once time.Now() is after the entry's expiry.
Entry == [copy : Copy, left : -1 .. TTL]

Call ==
    [op : {"POST"}, pod : Pod, id : Id, arg : Payload] \cup
    [op : {"GET"}, pod : Pod, id : Id, arg : {NoArg}] \cup
    [op : {"PUT"}, pod : Pod, id : Id, arg : File]

ASSUME ConstantsAssumption ==
    /\ IsFiniteSet(Req)
    /\ RowOf \in [Id -> Row]
    /\ Stored \in [Payload -> Payload]
    /\ TTL \in Nat
    /\ MaxVersions \in Nat
    /\ NoImage \notin Key
    /\ NoCall \notin Call
    /\ NoCall \notin [row : Row, low : Nat]
    /\ NoCopy \notin Copy
    /\ NoEntry \notin Entry

VARIABLES
    db,      \* db[k]: the versions row k has gone through; the last is the row
    bucket,  \* the keys of the objects in the bucket
    cache,   \* cache[p][i]: the entry pod p holds for id i
    pc,      \* the next step of a request's handler
    call,    \* the request: method, pod, id and the rest of its input
    low,     \* the number of versions the row had when the request arrived
    got,     \* the handler's local p
    wrote,   \* history: the version the UPDATE of a request committed, or 0
    reply    \* what the client was answered

vars == <<db, bucket, cache, pc, call, low, got, wrote, reply>>
stores == <<db, bucket, cache>>
locals == <<call, low, got, wrote>>

TypeOK ==
    /\ db \in [Row -> Seq(Product)]
    /\ bucket \subseteq Key
    /\ cache \in [Pod -> [Id -> Entry \cup {NoEntry}]]
    /\ pc \in [Req -> {"idle", "insert", "store", "lookup", "evict", "query",
                       "fill", "upload", "update", "invalidate", "done"}]
    /\ call \in [Req -> Call \cup {NoCall}]
    /\ low \in [Req -> Nat]
    /\ got \in [Req -> Copy \cup {NoCopy}]
    /\ wrote \in [Req -> Nat]
    /\ reply \in [Req -> {"none", "bad request", "created", "hit", "ok",
                          "not found", "error"}]

Init ==
    /\ db = [k \in Row |-> <<>>]
    /\ bucket = {}
    /\ cache = [p \in Pod |-> [i \in Id |-> NoEntry]]
    /\ pc = [r \in Req |-> "idle"]
    /\ call = [r \in Req |-> NoCall]
    /\ low = [r \in Req |-> 0]
    /\ got = [r \in Req |-> NoCopy]
    /\ wrote = [r \in Req |-> 0]
    /\ reply = [r \in Req |-> "none"]

-----------------------------------------------------------------------------
(***************************************************************************)
(* Helpers.                                                                *)
(***************************************************************************)
RowFor(r) == RowOf[call[r].id]

Exists(k) == Len(db[k]) > 0

Current(k) == db[k][Len(db[k])]

CachedFor(r) == cache[call[r].pod][call[r].id]

ImagePath(r) == <<call[r].id, call[r].arg>>

\* What the INSERT of request r writes, and the row its UPDATE leaves.
NewRow(r) == [id |-> call[r].id, pay |-> Stored[call[r].arg], img |-> NoImage]

UpdatedRow(r) == [Current(RowFor(r)) EXCEPT !.img = ImagePath(r)]

\* The handlers' p: a POST's has the price of the request, not of the column.
CreatedCopy(r) == [prod |-> [NewRow(r) EXCEPT !.pay = call[r].arg], v |-> 1]

SelectedCopy(r) == [prod |-> Current(RowFor(r)), v |-> Len(db[RowFor(r)])]

Commit(k, prod) == db' = [db EXCEPT ![k] = Append(@, prod)]

GoTo(r, step) ==
    /\ pc' = [pc EXCEPT ![r] = step]
    /\ UNCHANGED reply

Answer(r, status) ==
    /\ pc' = [pc EXCEPT ![r] = "done"]
    /\ reply' = [reply EXCEPT ![r] = status]

SetEntry(r, entry) ==
    cache' = [cache EXCEPT ![call[r].pod][call[r].id] = entry]

\* cachePut: the entry lives for cacheTTL from now.
CachePut(r) == SetEntry(r, [copy |-> got[r], left |-> TTL])

\* Writes that may still add a version to row k.
PendingWrites(k) ==
    {r \in Req : /\ pc[r] \in {"insert", "upload", "update"}
                 /\ RowFor(r) = k}

-----------------------------------------------------------------------------
(***************************************************************************)
(* A request arrives.  Only writes are bounded, and only in how many       *)
(* versions they may still give the row.                                   *)
(***************************************************************************)
FirstStep == [POST |-> "insert", GET |-> "lookup", PUT |-> "upload"]

Arrive(r, c) ==
    /\ pc[r] = "idle"
    /\ c.op # "GET" =>
         Len(db[RowOf[c.id]]) + Cardinality(PendingWrites(RowOf[c.id])) < MaxVersions
    /\ call' = [call EXCEPT ![r] = c]
    /\ low' = [low EXCEPT ![r] = Len(db[RowOf[c.id]])]
    /\ GoTo(r, FirstStep[c.op])
    /\ UNCHANGED <<stores, got, wrote>>

\* Bad JSON, an empty id or name, or no image file: 400 before any effect.
Refuse(r) ==
    /\ pc[r] = "idle"
    /\ Answer(r, "bad request")
    /\ UNCHANGED <<stores, locals>>

-----------------------------------------------------------------------------
(***************************************************************************)
(* createProduct.                                                          *)
(***************************************************************************)
\* Variants: the INSERT's error is not looked at, INSERT IGNORE, and REPLACE.
InsertUnchecked(r) ==
    \/ UNCHANGED db
    \/ ~Exists(RowFor(r)) /\ Commit(RowFor(r), NewRow(r))

InsertIgnoring(r) ==
    IF Exists(RowFor(r)) THEN UNCHANGED db ELSE Commit(RowFor(r), NewRow(r))

InsertReplacing(r) == Commit(RowFor(r), NewRow(r))

Inserted(r) == ~Exists(RowFor(r)) /\ Commit(RowFor(r), NewRow(r))

Insert(r) ==
    /\ pc[r] = "insert"
    /\ \/ /\ Inserted(r)
          /\ got' = [got EXCEPT ![r] = CreatedCopy(r)]
          /\ GoTo(r, "store")
       \* The insert committed but its result never reached the handler.
       \/ Inserted(r) /\ Answer(r, "error") /\ UNCHANGED got
       \* Duplicate primary key, or no connection.
       \/ Answer(r, "error") /\ UNCHANGED <<db, got>>
    /\ UNCHANGED <<bucket, cache, call, low, wrote>>

StoreCreated(r) ==
    /\ pc[r] = "store"
    /\ CachePut(r)
    /\ Answer(r, "created")
    /\ UNCHANGED <<db, bucket, locals>>

-----------------------------------------------------------------------------
(***************************************************************************)
(* getProduct.                                                             *)
(***************************************************************************)
\* Variant: cacheGet does not look at the clock.
NeverExpired(e) == FALSE

Expired(e) == e.left < 0

Lookup(r) ==
    /\ pc[r] = "lookup"
    /\ \/ /\ CachedFor(r) = NoEntry
          /\ GoTo(r, "query")
          /\ UNCHANGED got
       \/ /\ CachedFor(r) # NoEntry /\ Expired(CachedFor(r))
          /\ GoTo(r, "evict")
          /\ UNCHANGED got
       \/ /\ CachedFor(r) # NoEntry /\ ~Expired(CachedFor(r))
          /\ got' = [got EXCEPT ![r] = CachedFor(r).copy]
          /\ Answer(r, "hit")
    /\ UNCHANGED <<stores, call, low, wrote>>

\* cacheGet deletes by id: whatever entry is there by now goes.
Evict(r) ==
    /\ pc[r] = "evict"
    /\ SetEntry(r, NoEntry)
    /\ GoTo(r, "query")
    /\ UNCHANGED <<db, bucket, locals>>

\* Variant: any error of the SELECT is taken for sql.ErrNoRows.
SelectFailsAsNoRows(r) == Answer(r, "not found")

SelectFails(r) == Answer(r, "error")

Query(r) ==
    /\ pc[r] = "query"
    /\ \/ /\ Exists(RowFor(r))
          /\ got' = [got EXCEPT ![r] = SelectedCopy(r)]
          /\ GoTo(r, "fill")
       \/ ~Exists(RowFor(r)) /\ Answer(r, "not found") /\ UNCHANGED got
       \/ SelectFails(r) /\ UNCHANGED got
    /\ UNCHANGED <<stores, call, low, wrote>>

\* Variant: LoadOrStore instead of Store, answering what it loaded.
FillLoadOrStore(r) ==
    /\ pc[r] = "fill"
    /\ IF CachedFor(r) = NoEntry
       THEN CachePut(r) /\ UNCHANGED got
       ELSE got' = [got EXCEPT ![r] = CachedFor(r).copy] /\ UNCHANGED cache
    /\ Answer(r, "ok")
    /\ UNCHANGED <<db, bucket, call, low, wrote>>

Fill(r) ==
    /\ pc[r] = "fill"
    /\ CachePut(r)
    /\ Answer(r, "ok")
    /\ UNCHANGED <<db, bucket, locals>>

-----------------------------------------------------------------------------
(***************************************************************************)
(* updateProductImage.                                                     *)
(***************************************************************************)
\* Variant: the error of PutObject is logged and the handler goes on.
PutFailsUnnoticed(r) == GoTo(r, "update")

PutFails(r) == Answer(r, "error")

Upload(r) ==
    /\ pc[r] = "upload"
    /\ \/ bucket' = bucket \cup {ImagePath(r)} /\ GoTo(r, "update")
       \* A failed call may have written the object all the same.
       \/ bucket' \in {bucket, bucket \cup {ImagePath(r)}} /\ PutFails(r)
    /\ UNCHANGED <<db, cache, locals>>

\* RowsAffected counts the rows the UPDATE changed: the DSN does not ask for
\* the rows it found (clientFoundRows).
Changes(r) ==
    /\ Exists(RowFor(r))
    /\ Current(RowFor(r)).img # ImagePath(r)

\* No guard reads wrote: it records which version of the row is r's own.
Updated(r) ==
    /\ Changes(r)
    /\ Commit(RowFor(r), UpdatedRow(r))
    /\ wrote' = [wrote EXCEPT ![r] = Len(db[RowFor(r)]) + 1]

\* Variant: RowsAffected is not looked at.
NoRowsUnnoticed(r) == GoTo(r, "invalidate")

NoRows(r) == Answer(r, "not found")

Update(r) ==
    /\ pc[r] = "update"
    /\ \/ Updated(r) /\ GoTo(r, "invalidate")
       \/ ~Changes(r) /\ NoRows(r) /\ UNCHANGED <<db, wrote>>
       \* The update committed but its result never reached the handler.
       \/ Updated(r) /\ Answer(r, "error")
       \/ Answer(r, "error") /\ UNCHANGED <<db, wrote>>
    /\ UNCHANGED <<bucket, cache, call, low, got>>

\* cacheDelete reaches this pod's entry for this spelling, and no other.
Invalidate(r) ==
    /\ pc[r] = "invalidate"
    /\ SetEntry(r, NoEntry)
    /\ Answer(r, "ok")
    /\ UNCHANGED <<db, bucket, locals>>

-----------------------------------------------------------------------------
(***************************************************************************)
(* The client is done with its answer; time passes; a pod dies and is      *)
(* replaced, losing its cache and every request it was serving (main has   *)
(* no signal handling, so a rollout kills requests just as a crash does).  *)
(***************************************************************************)
Forget(R) ==
    /\ pc' = [r \in Req |-> IF r \in R THEN "idle" ELSE pc[r]]
    /\ call' = [r \in Req |-> IF r \in R THEN NoCall ELSE call[r]]
    /\ low' = [r \in Req |-> IF r \in R THEN 0 ELSE low[r]]
    /\ got' = [r \in Req |-> IF r \in R THEN NoCopy ELSE got[r]]
    /\ wrote' = [r \in Req |-> IF r \in R THEN 0 ELSE wrote[r]]
    /\ reply' = [r \in Req |-> IF r \in R THEN "none" ELSE reply[r]]

Return(r) ==
    /\ pc[r] = "done"
    /\ Forget({r})
    /\ UNCHANGED stores

ServedBy(p) == {r \in Req : call[r] # NoCall /\ call[r].pod = p}

Restart(p) ==
    /\ cache' = [cache EXCEPT ![p] = [i \in Id |-> NoEntry]]
    /\ Forget(ServedBy(p))
    /\ UNCHANGED <<db, bucket>>

Live(e) == e # NoEntry /\ e.left >= 0

Older(e) == IF Live(e) THEN [e EXCEPT !.left = @ - 1] ELSE e

Tick ==
    /\ \E p \in Pod, i \in Id : Live(cache[p][i])
    /\ cache' = [p \in Pod |-> [i \in Id |-> Older(cache[p][i])]]
    /\ UNCHANGED <<db, bucket, pc, locals, reply>>

-----------------------------------------------------------------------------
Serve(r) ==
    \/ Insert(r) \/ StoreCreated(r)
    \/ Lookup(r) \/ Evict(r) \/ Query(r) \/ Fill(r)
    \/ Upload(r) \/ Update(r) \/ Invalidate(r)

Next ==
    \/ \E r \in Req, c \in Call : Arrive(r, c)
    \/ \E r \in Req : Refuse(r) \/ Serve(r) \/ Return(r)
    \/ \E p \in Pod : Restart(p)
    \/ Tick

Spec == Init /\ [][Next]_vars

\* A goroutine that can run runs, every call to MySQL or S3 returns (in the
\* end because the request's context is cancelled), and clocks advance.
FairSpec == Spec /\ (\A r \in Req : WF_vars(Serve(r))) /\ WF_vars(Tick)

-----------------------------------------------------------------------------
(***************************************************************************)
(* Properties.                                                             *)
(***************************************************************************)
\* The copy is version copy.v of row k.  Only what a POST answered and cached
\* may still have the price before its rounding.
Shows(copy, k) ==
    /\ copy.v \in 1 .. Len(db[k])
    /\ copy.prod.id = db[k][copy.v].id
    /\ copy.prod.img = db[k][copy.v].img
    /\ \/ copy.prod.pay = db[k][copy.v].pay
       \/ copy.v = 1 /\ Stored[copy.prod.pay] = db[k][copy.v].pay

\* Whatever a pod caches for an id, and whatever a request answers, is a
\* version that this id's row really had: never the product of another row,
\* a product whose INSERT failed, or an image path that was not committed.
CopiesAreVersions ==
    /\ \A p \in Pod, i \in Id :
         cache[p][i] # NoEntry => Shows(cache[p][i].copy, RowOf[i])
    /\ \A r \in Req : got[r] # NoCopy => Shows(got[r], RowFor(r))

\* No row has ever named an image whose object is not in the bucket, although
\* the bucket and the table are written by two calls and a pod may die between
\* them (the upload goes first).
NoDanglingImage ==
    \A k \in Row : \A n \in DOMAIN db[k] :
        db[k][n].img # NoImage => db[k][n].img \in bucket

\* A GET answered from the table (no X-Cache header) is at least as new as the
\* row was when the request arrived, whatever fills and writes ran meanwhile.
FreshReads ==
    \A r \in Req :
        reply[r] = "ok" /\ call[r].op = "GET" => got[r].v >= low[r]

\* Of the POSTs for one row, under whatever spelling and on whatever pod, at
\* most one is answered 201, and then the row is there with its payload.
Created(r) ==
    /\ call[r] # NoCall /\ call[r].op = "POST"
    /\ pc[r] = "store" \/ reply[r] = "created"

SoleCreator ==
    /\ \A r, s \in Req : Created(r) /\ Created(s) /\ r # s => RowFor(r) # RowFor(s)
    /\ \A r \in Req : Created(r) =>
         /\ Exists(RowFor(r))
         /\ db[RowFor(r)][1] = NewRow(r)

\* A PUT answered 200 has itself committed a version of the row after it
\* arrived, with its own image path; and no two PUTs were answered 200 for the
\* same version, so that of two clients that upload the same file at once only
\* one is told so.  A 200 is never another request's success or a missing row.
Acked(r) == reply[r] = "ok" /\ call[r].op = "PUT"

AckedImageCommitted ==
    /\ \A r \in Req : Acked(r) =>
         /\ wrote[r] \in low[r] + 1 .. Len(db[RowFor(r)])
         /\ db[RowFor(r)][wrote[r]].img = ImagePath(r)
    /\ \A r, s \in Req : Acked(r) /\ Acked(s) /\ r # s /\ RowFor(r) = RowFor(s) =>
         wrote[r] # wrote[s]

\* Once a row stops changing, every GET is in the end answered with the row as
\* it is, on every pod and under every spelling: a stale entry, however it got
\* into a cache, is served for at most its time to live.
EventuallyCurrent ==
    <>[][\A r \in Req :
            reply'[r] \in {"hit", "ok"} /\ reply[r] = "none" /\ call[r].op = "GET"
                => got'[r].prod = Current(RowFor(r))]_vars

\* A PUT is answered 404 only if the product was missing when it arrived.  The
\* code answers 404 whenever the UPDATE changes no row.
NotFoundMeansMissing ==
    \A r \in Req :
        reply[r] = "not found" /\ call[r].op = "PUT" => low[r] = 0

-----------------------------------------------------------------------------
(***************************************************************************)
(* The service as a catalogue that answers reads with committed versions.  *)
(***************************************************************************)
Question(r) ==
    IF call[r] # NoCall /\ call[r].op = "GET"
    THEN [row |-> RowFor(r), low |-> low[r]]
    ELSE NoCall

Told(r) ==
    IF call[r] # NoCall /\ call[r].op = "GET" /\ reply[r] \in {"hit", "ok", "not found"}
    THEN [how |-> reply[r], prod |-> IF reply[r] = "not found" THEN NoCopy ELSE got[r].prod]
    ELSE NoCall

Promise == INSTANCE Catalogue WITH
    Image <- Key,
    NoQuestion <- NoCall,
    NoAnswer <- NoCall,
    NoProduct <- NoCopy,
    hist <- db,
    asked <- [r \in Req |-> Question(r)],
    told <- [r \in Req |-> Told(r)]

\* The service implements the catalogue: see module Catalogue for what that
\* promises.
ImplementsCatalogue == Promise!Spec

=============================================================================
