------------------------ MODULE ProductServiceProofs ------------------------
(***************************************************************************)
(* Proofs about the product application for any number of pods, ids, rows, *)
(* files and requests, any collation (RowOf) and any rounding (Stored).    *)
(***************************************************************************)
EXTENDS ProductService, TLAPS

(***************************************************************************)
(* The inductive invariant.                                                *)
(***************************************************************************)
\* What a handler's position says about its request: its method, its answer,
\* and whether the local p is set.
StepInv(r) ==
    /\ pc[r] = "idle" => call[r] = NoCall
    /\ pc[r] \in {"insert", "store"} \/ reply[r] = "created" =>
         call[r] # NoCall /\ call[r].op = "POST"
    /\ pc[r] \in {"lookup", "evict", "query", "fill"} \/ reply[r] = "hit" =>
         call[r] # NoCall /\ call[r].op = "GET"
    /\ pc[r] \in {"upload", "update", "invalidate"} =>
         call[r] # NoCall /\ call[r].op = "PUT"
    /\ reply[r] = "ok" => call[r] # NoCall /\ call[r].op \in {"GET", "PUT"}
    /\ pc[r] = "done" <=> reply[r] # "none"
    /\ pc[r] \in {"store", "fill"} \/ reply[r] \in {"created", "hit"} => got[r] # NoCopy
    /\ reply[r] = "ok" /\ call[r].op = "GET" => got[r] # NoCopy
    /\ got[r] # NoCopy => call[r] # NoCall
    /\ wrote[r] # 0 => call[r] # NoCall
    /\ pc[r] = "invalidate" \/ (reply[r] = "ok" /\ call[r].op = "PUT") => wrote[r] # 0

\* How a request relates to its row: the versions it saw on arrival are there,
\* p is one of them, and exactly one no older when it came from the table.
ReadInv(r) ==
    /\ call[r] # NoCall => low[r] <= Len(db[RowFor(r)])
    /\ got[r] # NoCopy => Shows(got[r], RowFor(r))
    /\ pc[r] = "fill" \/ (reply[r] = "ok" /\ call[r].op = "GET") => got[r].v >= low[r]
    /\ pc[r] = "fill" => got[r].prod = db[RowFor(r)][got[r].v]

\* What a write has done by now: the object is in the bucket before its path
\* goes to the table, and the versions recorded as a request's own are later
\* than its arrival and carry its path.
WriteInv(r) ==
    /\ pc[r] = "update" => ImagePath(r) \in bucket
    /\ Created(r) => Exists(RowFor(r)) /\ db[RowFor(r)][1] = NewRow(r)
    /\ wrote[r] # 0 =>
         /\ wrote[r] \in low[r] + 1 .. Len(db[RowFor(r)])
         /\ db[RowFor(r)][wrote[r]].img = ImagePath(r)

RequestInv(r) == StepInv(r) /\ ReadInv(r) /\ WriteInv(r)

CacheInv ==
    \A p \in Pod, i \in Id :
        cache[p][i] # NoEntry => Shows(cache[p][i].copy, RowOf[i])

CreatorsDiffer ==
    \A r, s \in Req : Created(r) /\ Created(s) /\ r # s => RowFor(r) # RowFor(s)

\* A version of a row was committed by one request only.
WritersDiffer ==
    \A r, s \in Req :
        wrote[r] # 0 /\ wrote[s] # 0 /\ r # s /\ RowFor(r) = RowFor(s) =>
            wrote[r] # wrote[s]

IInv ==
    /\ TypeOK
    /\ \A r \in Req : RequestInv(r)
    /\ CacheInv
    /\ NoDanglingImage
    /\ CreatorsDiffer
    /\ WritersDiffer

\* The properties that the runs check follow from it.
LEMMA IInvImplies ==
    ASSUME IInv
    PROVE  /\ CopiesAreVersions
           /\ NoDanglingImage
           /\ FreshReads
           /\ SoleCreator
           /\ AckedImageCommitted
  <1>1. CopiesAreVersions /\ NoDanglingImage /\ FreshReads /\ SoleCreator
    BY DEF IInv, RequestInv, ReadInv, WriteInv, CacheInv, CreatorsDiffer,
           CopiesAreVersions, FreshReads, SoleCreator
  <1>2. \A r \in Req : Acked(r) =>
           /\ wrote[r] # 0
           /\ wrote[r] \in low[r] + 1 .. Len(db[RowFor(r)])
           /\ db[RowFor(r)][wrote[r]].img = ImagePath(r)
    BY DEF IInv, RequestInv, StepInv, WriteInv, Acked
  <1>3. QED
    BY <1>1, <1>2 DEF IInv, WritersDiffer, AckedImageCommitted

-----------------------------------------------------------------------------
(***************************************************************************)
(* Facts about the data.                                                   *)
(***************************************************************************)
\* Appending keeps what was there.
LEMMA AppendKeeps ==
    ASSUME NEW S, NEW s \in Seq(S), NEW e \in S
    PROVE  /\ Append(s, e) \in Seq(S)
           /\ Len(Append(s, e)) = Len(s) + 1
           /\ Append(s, e)[Len(s) + 1] = e
           /\ \A n \in 1 .. Len(s) : Append(s, e)[n] = s[n]
  OBVIOUS

\* A row's history is a sequence.
LEMMA HistoryLength ==
    ASSUME TypeOK, NEW k \in Row
    PROVE  db[k] \in Seq(Product) /\ Len(db[k]) \in Nat
  <1>1. db[k] \in Seq(Product)
    BY DEF TypeOK
  <1>2. QED
    BY <1>1

\* The current version of a row that exists is a product.
LEMMA CurrentIsProduct ==
    ASSUME TypeOK, NEW k \in Row, Exists(k)
    PROVE  /\ Len(db[k]) \in Nat \ {0}
           /\ Current(k) \in Product
  <1>1. db[k] \in Seq(Product)
    BY DEF TypeOK
  <1>2. Len(db[k]) \in Nat \ {0}
    BY <1>1 DEF Exists
  <1>3. QED
    BY <1>1, <1>2 DEF Current

\* What the INSERT writes and what the UPDATE leaves are products.
LEMMA NewRowIsProduct ==
    ASSUME TypeOK, NEW r \in Req, call[r] # NoCall, call[r].op = "POST"
    PROVE  /\ RowFor(r) \in Row
           /\ NewRow(r) \in Product
           /\ [NewRow(r) EXCEPT !.pay = call[r].arg] \in Product
  <1>1. call[r] \in [op : {"POST"}, pod : Pod, id : Id, arg : Payload]
    BY DEF TypeOK, Call
  <1>2. QED
    BY <1>1, ConstantsAssumption DEF RowFor, NewRow, Product

\* What a PUT writes to its row is a product.
LEMMA UpdatedRowIsProduct ==
    ASSUME TypeOK, NEW r \in Req, call[r] # NoCall, call[r].op = "PUT"
    PROVE  /\ RowFor(r) \in Row
           /\ ImagePath(r) \in Key
           /\ Exists(RowFor(r)) => UpdatedRow(r) \in Product
  <1>1. call[r] \in [op : {"PUT"}, pod : Pod, id : Id, arg : File]
    BY DEF TypeOK, Call
  <1>2. RowFor(r) \in Row /\ ImagePath(r) \in Key
    BY <1>1, ConstantsAssumption DEF RowFor, ImagePath, Key
  <1>3. ASSUME Exists(RowFor(r)) PROVE UpdatedRow(r) \in Product
    BY <1>2, <1>3, CurrentIsProduct DEF UpdatedRow, Product
  <1>4. QED
    BY <1>2, <1>3

\* A request is for a row, a pod and an id.
LEMMA CallFacts ==
    ASSUME TypeOK, NEW r \in Req, call[r] # NoCall
    PROVE  /\ call[r] \in Call
           /\ call[r].pod \in Pod
           /\ call[r].id \in Id
           /\ RowFor(r) \in Row
  BY ConstantsAssumption DEF TypeOK, Call, RowFor

\* What the handlers put in p, and what they find in the cache, are copies.
LEMMA CopiesAreCopies ==
    ASSUME TypeOK, NEW r \in Req, call[r] # NoCall
    PROVE  /\ call[r].op = "POST" => CreatedCopy(r) \in Copy
           /\ Exists(RowFor(r)) => SelectedCopy(r) \in Copy
           /\ CachedFor(r) \in Entry \cup {NoEntry}
           /\ CachedFor(r) # NoEntry => CachedFor(r).copy \in Copy
  <1>1. call[r].op = "POST" => CreatedCopy(r) \in Copy
    BY NewRowIsProduct DEF CreatedCopy, Copy
  <1>2. Exists(RowFor(r)) => SelectedCopy(r) \in Copy
    BY CallFacts, CurrentIsProduct DEF SelectedCopy, Copy
  <1>3. CachedFor(r) \in Entry \cup {NoEntry}
    <2>1. call[r].pod \in Pod /\ call[r].id \in Id
      BY CallFacts
    <2>2. QED
      BY <2>1 DEF CachedFor, TypeOK
  <1>4. QED
    BY <1>1, <1>2, <1>3 DEF Entry

-----------------------------------------------------------------------------
(***************************************************************************)
(* Type correctness.                                                       *)
(***************************************************************************)
\* The first steps of the handlers are steps.
LEMMA FirstStepIsStep ==
    ASSUME NEW c \in Call
    PROVE  FirstStep[c.op] \in {"insert", "lookup", "upload"}
  BY DEF Call, FirstStep

\* cachePut stores a well-formed entry.
LEMMA CachePutType ==
    ASSUME TypeOK, NEW r \in Req, call[r] # NoCall, got[r] # NoCopy, CachePut(r)
    PROVE  cache' \in [Pod -> [Id -> Entry \cup {NoEntry}]]
  <1>1. got[r] \in Copy
    BY DEF TypeOK
  <1>2. [copy |-> got[r], left |-> TTL] \in Entry
    BY <1>1, ConstantsAssumption DEF Entry
  <1>3. QED
    BY <1>2, CallFacts DEF TypeOK, CachePut, SetEntry

\* So does removing an entry.
LEMMA NoEntryType ==
    ASSUME TypeOK, NEW r \in Req, call[r] # NoCall, SetEntry(r, NoEntry)
    PROVE  cache' \in [Pod -> [Id -> Entry \cup {NoEntry}]]
  BY CallFacts DEF TypeOK, SetEntry

\* And the passing of time.
LEMMA OlderType ==
    ASSUME NEW e \in Entry \cup {NoEntry}
    PROVE  Older(e) \in Entry \cup {NoEntry}
  BY ConstantsAssumption DEF Older, Live, Entry

\* Committing a product keeps the histories well-formed.
LEMMA CommitType ==
    ASSUME TypeOK, NEW k \in Row, NEW prod \in Product, Commit(k, prod)
    PROVE  db' \in [Row -> Seq(Product)]
  BY AppendKeeps DEF TypeOK, Commit

\* An UPDATE that commits records the version it adds.
LEMMA UpdatedRecords ==
    ASSUME TypeOK, NEW r \in Req, call[r] # NoCall, Updated(r)
    PROVE  /\ Len(db[RowFor(r)]) \in Nat
           /\ wrote'[r] = Len(db[RowFor(r)]) + 1
           /\ wrote' \in [Req -> Nat]
  <1>1. wrote \in [Req -> Nat]
    BY DEF TypeOK
  <1>2. Len(db[RowFor(r)]) \in Nat
    BY CallFacts, HistoryLength
  <1>3. wrote' = [wrote EXCEPT ![r] = Len(db[RowFor(r)]) + 1]
    BY DEF Updated
  <1>4. QED
    BY <1>1, <1>2, <1>3

\* A step of a handler keeps the types.
LEMMA ServeType ==
    ASSUME TypeOK, NEW r \in Req, StepInv(r), Serve(r)
    PROVE  TypeOK'
  <1> USE DEF GoTo, Answer, stores, locals
  <1>1. ASSUME Insert(r) PROVE TypeOK'
    <2>1. call[r] # NoCall /\ call[r].op = "POST"
      BY <1>1 DEF StepInv, Insert
    <2>2. db' \in [Row -> Seq(Product)]
      <3>1. CASE Inserted(r)
        BY <2>1, <3>1, NewRowIsProduct, CommitType DEF Inserted
      <3>2. CASE UNCHANGED db
        BY <3>2 DEF TypeOK
      <3>3. QED
        BY <1>1, <3>1, <3>2 DEF Insert
    <2>3. got' \in [Req -> Copy \cup {NoCopy}]
      <3>1. CreatedCopy(r) \in Copy
        BY <2>1, CopiesAreCopies
      <3>2. QED
        BY <1>1, <3>1 DEF Insert, TypeOK
    <2>4. QED
      BY <1>1, <2>2, <2>3 DEF Insert, TypeOK
  <1>2. ASSUME StoreCreated(r) PROVE TypeOK'
    <2>1. call[r] # NoCall /\ got[r] # NoCopy
      BY <1>2 DEF StepInv, StoreCreated
    <2>2. QED
      BY <1>2, <2>1, CachePutType DEF StoreCreated, TypeOK
  <1>3. ASSUME Lookup(r) PROVE TypeOK'
    <2>1. CachedFor(r) # NoEntry => CachedFor(r).copy \in Copy
      BY <1>3, CopiesAreCopies DEF StepInv, Lookup
    <2>2. QED
      BY <1>3, <2>1 DEF Lookup, TypeOK
  <1>4. ASSUME Evict(r) PROVE TypeOK'
    BY <1>4, NoEntryType DEF StepInv, Evict, TypeOK
  <1>5. ASSUME Query(r) PROVE TypeOK'
    <2>1. Exists(RowFor(r)) => SelectedCopy(r) \in Copy
      BY <1>5, CopiesAreCopies DEF StepInv, Query
    <2>2. QED
      BY <1>5, <2>1 DEF Query, SelectFails, TypeOK
  <1>6. ASSUME Fill(r) PROVE TypeOK'
    <2>1. call[r] # NoCall /\ got[r] # NoCopy
      BY <1>6 DEF StepInv, Fill
    <2>2. QED
      BY <1>6, <2>1, CachePutType DEF Fill, TypeOK
  <1>7. ASSUME Upload(r) PROVE TypeOK'
    <2>1. ImagePath(r) \in Key
      BY <1>7, UpdatedRowIsProduct DEF StepInv, Upload
    <2>2. QED
      BY <1>7, <2>1 DEF Upload, PutFails, TypeOK
  <1>8. ASSUME Update(r) PROVE TypeOK'
    <2>1. call[r] # NoCall /\ call[r].op = "PUT"
      BY <1>8 DEF StepInv, Update
    <2>2. db' \in [Row -> Seq(Product)]
      <3>1. CASE Updated(r)
        BY <2>1, <3>1, UpdatedRowIsProduct, CommitType DEF Updated, Changes
      <3>2. CASE UNCHANGED db
        BY <3>2 DEF TypeOK
      <3>3. QED
        BY <1>8, <3>1, <3>2 DEF Update
    <2>3. wrote' \in [Req -> Nat]
      <3>1. CASE UNCHANGED wrote
        BY <3>1 DEF TypeOK
      <3>2. CASE Updated(r)
        BY <2>1, <3>2, UpdatedRecords
      <3>3. QED
        BY <1>8, <3>1, <3>2 DEF Update
    <2>4. QED
      BY <1>8, <2>2, <2>3 DEF Update, NoRows, TypeOK
  <1>9. ASSUME Invalidate(r) PROVE TypeOK'
    BY <1>9, NoEntryType DEF StepInv, Invalidate, TypeOK
  <1>10. QED
    BY <1>1, <1>2, <1>3, <1>4, <1>5, <1>6, <1>7, <1>8, <1>9 DEF Serve

\* Every step keeps the types.
LEMMA NextType ==
    ASSUME TypeOK, \A r \in Req : StepInv(r), [Next]_vars
    PROVE  TypeOK'
  <1>1. ASSUME NEW r \in Req, NEW c \in Call, Arrive(r, c) PROVE TypeOK'
    <2>1. FirstStep[c.op] \in {"insert", "lookup", "upload"}
      BY FirstStepIsStep
    <2>2. Len(db[RowOf[c.id]]) \in Nat
      <3>1. RowOf[c.id] \in Row
        BY ConstantsAssumption DEF Call
      <3>2. db[RowOf[c.id]] \in Seq(Product)
        BY <3>1 DEF TypeOK
      <3>3. QED
        BY <3>2
    <2>3. QED
      BY <1>1, <2>1, <2>2 DEF Arrive, GoTo, stores, TypeOK
  <1>2. ASSUME NEW r \in Req, Refuse(r) PROVE TypeOK'
    BY <1>2 DEF Refuse, Answer, stores, locals, TypeOK
  <1>3. ASSUME NEW r \in Req, Serve(r) PROVE TypeOK'
    BY <1>3, ServeType
  <1>4. ASSUME NEW r \in Req, Return(r) PROVE TypeOK'
    BY <1>4 DEF Return, Forget, stores, TypeOK
  <1>5. ASSUME NEW p \in Pod, Restart(p) PROVE TypeOK'
    BY <1>5 DEF Restart, Forget, TypeOK
  <1>6. ASSUME Tick PROVE TypeOK'
    <2>1. \A p \in Pod, i \in Id : Older(cache[p][i]) \in Entry \cup {NoEntry}
      BY OlderType DEF TypeOK
    <2>2. QED
      BY <1>6, <2>1 DEF Tick, locals, TypeOK
  <1>7. CASE UNCHANGED vars
    BY <1>7 DEF vars, TypeOK
  <1>8. QED
    BY <1>1, <1>2, <1>3, <1>4, <1>5, <1>6, <1>7 DEF Next

-----------------------------------------------------------------------------
(***************************************************************************)
(* What a step leaves alone.                                               *)
(***************************************************************************)
\* A row is never removed, and its versions are never rewritten.
Grown ==
    \A k \in Row :
        /\ Len(db'[k]) >= Len(db[k])
        /\ \A n \in 1 .. Len(db[k]) : db'[k][n] = db[k][n]

Untouched(r) ==
    /\ pc'[r] = pc[r]
    /\ call'[r] = call[r]
    /\ low'[r] = low[r]
    /\ got'[r] = got[r]
    /\ wrote'[r] = wrote[r]
    /\ reply'[r] = reply[r]

\* A commit makes one row one version longer.
LEMMA CommitGrows ==
    ASSUME TypeOK, NEW k \in Row, NEW prod \in Product, Commit(k, prod)
    PROVE  /\ Grown
           /\ Len(db'[k]) = Len(db[k]) + 1
           /\ db'[k][Len(db[k]) + 1] = prod
           /\ \A j \in Row : j # k => db'[j] = db[j]
  <1>1. db[k] \in Seq(Product)
    BY DEF TypeOK
  <1>2. db'[k] = Append(db[k], prod) /\ \A j \in Row : j # k => db'[j] = db[j]
    BY DEF TypeOK, Commit
  <1>3. \A j \in Row : Len(db[j]) \in Nat
    BY HistoryLength
  <1>4. QED
    BY <1>1, <1>2, <1>3, AppendKeeps DEF Grown

\* No commit, no change.
LEMMA UnchangedGrows ==
    ASSUME TypeOK, UNCHANGED db
    PROVE  Grown
  <1>1. \A j \in Row : Len(db[j]) \in Nat
    BY HistoryLength
  <1>2. QED
    BY <1>1 DEF Grown

\* A copy that shows a version goes on showing it.
LEMMA ShowsKept ==
    ASSUME TypeOK, TypeOK', Grown, NEW copy \in Copy, NEW k \in Row, Shows(copy, k)
    PROVE  Shows(copy, k)'
  <1>1. Len(db[k]) \in Nat /\ copy.v \in 1 .. Len(db[k])
    BY HistoryLength DEF Shows
  <1>2. Len(db'[k]) \in Nat
    <2>1. db'[k] \in Seq(Product)
      BY DEF TypeOK
    <2>2. QED
      BY <2>1
  <1>3. /\ copy.v \in 1 .. Len(db'[k])
        /\ db'[k][copy.v] = db[k][copy.v]
    BY <1>1, <1>2 DEF Grown
  <1>4. QED
    BY <1>3 DEF Shows

\* What holds of a request goes on holding while others work.
LEMMA UntouchedKept ==
    ASSUME TypeOK, TypeOK', Grown, bucket \subseteq bucket',
           NEW r \in Req, Untouched(r), RequestInv(r)
    PROVE  RequestInv(r)'
  <1>1. StepInv(r)'
    BY DEF RequestInv, StepInv, Untouched
  <1>2. CASE call[r] = NoCall
    <2>1. got[r] = NoCopy /\ wrote[r] = 0 /\ ~Created(r) /\ pc[r] \notin {"update", "fill", "invalidate"}
                          /\ reply[r] # "ok"
      BY <1>2 DEF RequestInv, StepInv, Created
    <2>2. QED
      BY <1>1, <1>2, <2>1 DEF RequestInv, ReadInv, WriteInv, Created, Untouched
  <1>3. CASE call[r] # NoCall
    <2>1. RowFor(r) \in Row /\ RowFor(r)' = RowFor(r) /\ ImagePath(r)' = ImagePath(r)
                            /\ NewRow(r)' = NewRow(r)
      BY <1>3, CallFacts DEF Untouched, RowFor, ImagePath, NewRow
    <2>2. /\ Len(db[RowFor(r)]) \in Nat /\ Len(db'[RowFor(r)]) \in Nat
          /\ Len(db'[RowFor(r)]) >= Len(db[RowFor(r)])
          /\ \A n \in 1 .. Len(db[RowFor(r)]) : db'[RowFor(r)][n] = db[RowFor(r)][n]
      <3>1. db'[RowFor(r)] \in Seq(Product)
        BY <2>1 DEF TypeOK
      <3>2. Len(db'[RowFor(r)]) \in Nat
        BY <3>1
      <3>3. QED
        BY <2>1, <3>2, HistoryLength DEF Grown
    <2>3. ReadInv(r)'
      <3>1. got[r] # NoCopy => got[r] \in Copy
        BY DEF TypeOK
      <3>2. (got[r] # NoCopy => Shows(got[r], RowFor(r)))'
        <4>1. ASSUME got[r] # NoCopy PROVE Shows(got[r], RowFor(r))'
          <5>1. got[r] \in Copy /\ Shows(got[r], RowFor(r))
            BY <3>1, <4>1 DEF RequestInv, ReadInv
          <5>2. QED
            BY <2>1, <2>2, <5>1, ShowsKept DEF Shows, Untouched
        <4>2. QED
          BY <4>1 DEF Untouched
      <3>3. (call[r] # NoCall => low[r] <= Len(db[RowFor(r)]))'
        <4>1. low[r] \in Nat /\ low[r] <= Len(db[RowFor(r)])
          BY <1>3 DEF RequestInv, ReadInv, TypeOK
        <4>2. QED
          BY <2>1, <2>2, <4>1 DEF Untouched
      <3>4. (pc[r] = "fill" \/ (reply[r] = "ok" /\ call[r].op = "GET") => got[r].v >= low[r])'
        BY DEF RequestInv, ReadInv, Untouched
      <3>5. (pc[r] = "fill" => got[r].prod = db[RowFor(r)][got[r].v])'
        <4>1. ASSUME pc[r] = "fill"
              PROVE  /\ got[r].v \in 1 .. Len(db[RowFor(r)])
                     /\ got[r].prod = db[RowFor(r)][got[r].v]
          BY <4>1 DEF RequestInv, ReadInv, StepInv, Shows
        <4>2. QED
          BY <2>1, <2>2, <4>1 DEF Untouched
      <3>6. QED
        BY <3>2, <3>3, <3>4, <3>5 DEF ReadInv
    <2>4. WriteInv(r)'
      <3>1. (pc[r] = "update" => ImagePath(r) \in bucket)'
        BY <2>1 DEF RequestInv, WriteInv, Untouched
      <3>2. (Created(r) => Exists(RowFor(r)) /\ db[RowFor(r)][1] = NewRow(r))'
        BY <2>1, <2>2 DEF RequestInv, WriteInv, Untouched, Created, Exists
      <3>3. (wrote[r] # 0 => /\ wrote[r] \in low[r] + 1 .. Len(db[RowFor(r)])
                             /\ db[RowFor(r)][wrote[r]].img = ImagePath(r))'
        <4>1. low[r] \in Nat /\ wrote[r] \in Nat
          BY DEF TypeOK
        <4>2. QED
          BY <2>1, <2>2, <4>1 DEF RequestInv, WriteInv, Untouched
      <3>4. QED
        BY <3>1, <3>2, <3>3 DEF WriteInv
    <2>5. QED
      BY <1>1, <2>3, <2>4 DEF RequestInv
  <1>4. QED
    BY <1>2, <1>3

-----------------------------------------------------------------------------
(***************************************************************************)
(* Steps of a handler.                                                     *)
(***************************************************************************)
\* A handler's step concerns its own request only; it removes no object and
\* rewrites no version.
LEMMA ServeFrame ==
    ASSUME TypeOK, NEW r \in Req, StepInv(r), Serve(r)
    PROVE  /\ Grown
           /\ bucket \subseteq bucket'
           /\ call' = call
           /\ low' = low
           /\ (Update(r) /\ Updated(r)) \/ UNCHANGED wrote
           /\ \A s \in Req : s # r => Untouched(s)
  <1> USE DEF GoTo, Answer, stores, locals
  <1>1. Grown
    <2>1. CASE UNCHANGED db
      BY <2>1, UnchangedGrows
    <2>2. CASE Insert(r) /\ Inserted(r)
      BY <2>2, NewRowIsProduct, CommitGrows DEF Insert, Inserted, StepInv
    <2>3. CASE Update(r) /\ Updated(r)
      BY <2>3, UpdatedRowIsProduct, CommitGrows DEF Update, Updated, Changes, StepInv
    <2>4. QED
      BY <2>1, <2>2, <2>3
         DEF Serve, Insert, StoreCreated, Lookup, Evict, Query, Fill, Upload, Update, Invalidate
  <1>2. bucket \subseteq bucket' /\ call' = call /\ low' = low
    BY DEF Serve, Insert, StoreCreated, Lookup, Evict, Query, Fill, Upload, Update, Invalidate
  <1>3. \A s \in Req : s # r => /\ pc'[s] = pc[s] /\ got'[s] = got[s]
                                  /\ wrote'[s] = wrote[s] /\ reply'[s] = reply[s]
    BY DEF TypeOK, Serve, Insert, StoreCreated, Lookup, Evict, Query, SelectFails, Fill,
           Upload, PutFails, Update, Updated, NoRows, Invalidate
  <1>4. (Update(r) /\ Updated(r)) \/ UNCHANGED wrote
    BY DEF Serve, Insert, StoreCreated, Lookup, Evict, Query, Fill, Upload, Update, Invalidate
  <1>5. QED
    BY <1>1, <1>2, <1>3, <1>4 DEF Untouched

\* Each step of a handler leaves its own request where the next step expects it.
LEMMA ServeStepInv ==
    ASSUME TypeOK, NEW r \in Req, StepInv(r), Serve(r)
    PROVE  StepInv(r)'
  <1> USE DEF GoTo, Answer, stores, locals, StepInv
  <1>0. ASSUME call[r] # NoCall
        PROVE  /\ call[r].op = "POST" => CreatedCopy(r) # NoCopy
               /\ Exists(RowFor(r)) => SelectedCopy(r) # NoCopy
               /\ CachedFor(r) # NoEntry => CachedFor(r).copy # NoCopy
    BY <1>0, CopiesAreCopies, ConstantsAssumption
  <1>1. CASE Insert(r)
    BY <1>0, <1>1 DEF Insert, TypeOK
  <1>2. CASE StoreCreated(r)
    BY <1>2 DEF StoreCreated, TypeOK
  <1>3. CASE Lookup(r)
    BY <1>0, <1>3 DEF Lookup, TypeOK
  <1>4. CASE Evict(r)
    BY <1>4 DEF Evict, TypeOK
  <1>5. CASE Query(r)
    BY <1>0, <1>5 DEF Query, SelectFails, TypeOK
  <1>6. CASE Fill(r)
    BY <1>6 DEF Fill, TypeOK
  <1>7. CASE Upload(r)
    BY <1>7 DEF Upload, PutFails, TypeOK
  <1>8. CASE Update(r)
    <2>1. CASE Updated(r)
      <3>1. wrote'[r] # 0
        <4>1. call[r] # NoCall
          BY <1>8 DEF Update
        <4>2. QED
          BY <2>1, <4>1, UpdatedRecords
      <3>2. QED
        BY <1>8, <2>1, <3>1 DEF Update, NoRows, Changes, TypeOK
    <2>2. CASE UNCHANGED wrote /\ (NoRows(r) \/ Answer(r, "error"))
      BY <1>8, <2>2 DEF Update, NoRows, TypeOK
    <2>3. QED
      BY <1>8, <2>1, <2>2 DEF Update
  <1>9. CASE Invalidate(r)
    BY <1>9 DEF Invalidate, TypeOK
  <1>10. QED
    BY <1>1, <1>2, <1>3, <1>4, <1>5, <1>6, <1>7, <1>8, <1>9 DEF Serve

\* A row's history after a step.
LEMMA GrownFacts ==
    ASSUME TypeOK, TypeOK', Grown, NEW k \in Row
    PROVE  /\ Len(db[k]) \in Nat
           /\ Len(db'[k]) \in Nat
           /\ Len(db'[k]) >= Len(db[k])
           /\ \A n \in 1 .. Len(db[k]) : db'[k][n] = db[k][n]
  <1>1. db'[k] \in Seq(Product)
    BY DEF TypeOK
  <1>2. Len(db'[k]) \in Nat
    BY <1>1
  <1>3. QED
    BY <1>2, HistoryLength DEF Grown

\* A product just created, and a product just read, show what they should.
LEMMA CreatedCopyShows ==
    ASSUME TypeOK, NEW r \in Req, call[r] # NoCall, call[r].op = "POST", Inserted(r)
    PROVE  /\ Len(db'[RowFor(r)]) = 1
           /\ db'[RowFor(r)][1] = NewRow(r)
           /\ CreatedCopy(r).v = 1
           /\ CreatedCopy(r).prod.id = NewRow(r).id
           /\ CreatedCopy(r).prod.img = NewRow(r).img
           /\ Stored[CreatedCopy(r).prod.pay] = NewRow(r).pay
  <1>1. Len(db[RowFor(r)]) = 0
    BY CallFacts, HistoryLength DEF Inserted, Exists
  <1>2. Len(db'[RowFor(r)]) = 1 /\ db'[RowFor(r)][1] = NewRow(r)
    <2>1. RowFor(r) \in Row /\ NewRow(r) \in Product /\ Commit(RowFor(r), NewRow(r))
      BY NewRowIsProduct DEF Inserted
    <2>2. /\ Len(db'[RowFor(r)]) = Len(db[RowFor(r)]) + 1
          /\ db'[RowFor(r)][Len(db[RowFor(r)]) + 1] = NewRow(r)
      BY <2>1, CommitGrows
    <2>3. QED
      BY <1>1, <2>2
  <1>3. QED
    BY <1>2 DEF CreatedCopy, NewRow

\* What a SELECT returns is the current version of the row.
LEMMA SelectedCopyShows ==
    ASSUME TypeOK, NEW r \in Req, call[r] # NoCall, Exists(RowFor(r))
    PROVE  Shows(SelectedCopy(r), RowFor(r))
  <1>1. Len(db[RowFor(r)]) \in Nat /\ Len(db[RowFor(r)]) > 0
    BY CallFacts, HistoryLength DEF Exists
  <1>2. QED
    BY <1>1 DEF Shows, SelectedCopy, Current

\* The local p keeps showing a version of the row.
LEMMA ServeReadInv ==
    ASSUME TypeOK, TypeOK', CacheInv, NEW r \in Req, RequestInv(r), Serve(r)
    PROVE  ReadInv(r)'
  <1> USE DEF GoTo, Answer, stores, locals
  <1> StepInv(r) /\ ReadInv(r)
    BY DEF RequestInv
  <1>1. Grown /\ call' = call /\ low' = low
    BY ServeFrame
  <1>2. call[r] # NoCall
    BY DEF StepInv, Serve, Insert, StoreCreated, Lookup, Evict, Query, Fill, Upload,
           Update, Invalidate
  <1>3. RowFor(r) \in Row /\ RowFor(r)' = RowFor(r)
    BY <1>1, <1>2, CallFacts DEF RowFor
  <1>4. (call[r] # NoCall => low[r] <= Len(db[RowFor(r)]))'
    <2>1. low[r] \in Nat /\ low[r] <= Len(db[RowFor(r)])
      BY <1>2 DEF ReadInv, TypeOK
    <2>2. QED
      BY <1>1, <1>3, <2>1, GrownFacts
  <1>5. ASSUME NEW copy \in Copy, Shows(copy, RowFor(r))
        PROVE  Shows(copy, RowFor(r))'
    <2>1. Shows(copy, RowFor(r)) => /\ copy.v \in 1 .. Len(db'[RowFor(r)])
                                    /\ db'[RowFor(r)][copy.v] = db[RowFor(r)][copy.v]
      BY <1>1, <1>3, GrownFacts DEF Shows
    <2>2. QED
      BY <1>3, <1>5, <2>1 DEF Shows
  <1>6. (got[r] # NoCopy => Shows(got[r], RowFor(r)))'
    <2>1. CASE UNCHANGED got
      BY <1>5, <2>1 DEF ReadInv, TypeOK
    <2>2. CASE Insert(r) /\ Inserted(r) /\ got' = [got EXCEPT ![r] = CreatedCopy(r)]
      <3>1. got'[r] = CreatedCopy(r)
        BY <2>2 DEF TypeOK
      <3>2. QED
        BY <1>2, <1>3, <2>2, <3>1, CreatedCopyShows DEF StepInv, Insert, Shows
    <2>3. CASE Lookup(r) /\ CachedFor(r) # NoEntry /\ got' = [got EXCEPT ![r] = CachedFor(r).copy]
      <3>1. CachedFor(r).copy \in Copy /\ got'[r] = CachedFor(r).copy
        BY <1>2, <2>3, CopiesAreCopies DEF TypeOK
      <3>2. Shows(CachedFor(r).copy, RowFor(r))
        BY <1>2, <2>3, CallFacts DEF CacheInv, CachedFor, RowFor
      <3>3. QED
        BY <1>5, <3>1, <3>2
    <2>4. CASE Query(r) /\ Exists(RowFor(r)) /\ got' = [got EXCEPT ![r] = SelectedCopy(r)]
      <3>1. SelectedCopy(r) \in Copy /\ got'[r] = SelectedCopy(r)
        BY <1>2, <2>4, CopiesAreCopies DEF TypeOK
      <3>2. QED
        BY <1>2, <1>5, <2>4, <3>1, SelectedCopyShows
    <2>5. QED
      BY <2>1, <2>2, <2>3, <2>4
         DEF Serve, Insert, StoreCreated, Lookup, Evict, Query, Fill, Upload, Update, Invalidate
  <1>7. (pc[r] = "fill" \/ (reply[r] = "ok" /\ call[r].op = "GET") => got[r].v >= low[r])'
    <2>1. CASE Query(r)
      <3>1. CASE Exists(RowFor(r)) /\ got' = [got EXCEPT ![r] = SelectedCopy(r)]
        <4>1. got'[r].v = Len(db[RowFor(r)])
          BY <3>1 DEF TypeOK, SelectedCopy
        <4>2. low[r] \in Nat /\ low[r] <= Len(db[RowFor(r)])
          BY <1>2 DEF ReadInv, TypeOK
        <4>3. QED
          BY <1>1, <1>3, <4>1, <4>2, GrownFacts
      <3>2. CASE pc'[r] = "done" /\ reply'[r] # "ok"
        BY <3>2
      <3>3. QED
        BY <2>1, <3>1, <3>2 DEF Query, SelectFails, TypeOK
    <2>2. CASE Fill(r)
      BY <1>1, <2>2 DEF Fill, ReadInv
    <2>3. CASE Insert(r) \/ StoreCreated(r) \/ Lookup(r) \/ Evict(r) \/ Upload(r) \/ Update(r)
      BY <2>3 DEF Insert, StoreCreated, Lookup, Evict, Upload, PutFails, Update, NoRows,
                  StepInv, TypeOK
    <2>4. CASE Invalidate(r)
      BY <1>1, <2>4 DEF Invalidate, StepInv, TypeOK
    <2>5. QED
      BY <2>1, <2>2, <2>3, <2>4 DEF Serve
  <1>8. (pc[r] = "fill" => got[r].prod = db[RowFor(r)][got[r].v])'
    <2>1. CASE Query(r) /\ Exists(RowFor(r)) /\ got' = [got EXCEPT ![r] = SelectedCopy(r)]
      <3>1. got'[r] = SelectedCopy(r) /\ UNCHANGED db
        BY <2>1 DEF Query, TypeOK
      <3>2. QED
        BY <1>3, <3>1 DEF SelectedCopy, Current
    <2>2. CASE pc'[r] # "fill"
      BY <2>2
    <2>3. QED
      BY <2>1, <2>2
         DEF Serve, Insert, StoreCreated, Lookup, Evict, Query, SelectFails, Fill, Upload,
             PutFails, Update, NoRows, Invalidate, TypeOK
  <1>9. QED
    BY <1>4, <1>6, <1>7, <1>8 DEF ReadInv

\* What a write has done is still done, and what it claims was done.
LEMMA ServeWriteInv ==
    ASSUME TypeOK, TypeOK', NEW r \in Req, RequestInv(r), Serve(r)
    PROVE  WriteInv(r)'
  <1> USE DEF GoTo, Answer, stores, locals
  <1> StepInv(r) /\ WriteInv(r) /\ ReadInv(r)
    BY DEF RequestInv
  <1>1. Grown /\ call' = call /\ low' = low /\ bucket \subseteq bucket'
    BY ServeFrame
  <1>2. call[r] # NoCall
    BY DEF StepInv, Serve, Insert, StoreCreated, Lookup, Evict, Query, Fill, Upload,
           Update, Invalidate
  <1>3. /\ RowFor(r) \in Row /\ RowFor(r)' = RowFor(r)
        /\ ImagePath(r)' = ImagePath(r) /\ NewRow(r)' = NewRow(r)
    BY <1>1, <1>2, CallFacts DEF RowFor, ImagePath, NewRow
  <1>4. (pc[r] = "update" => ImagePath(r) \in bucket)'
    <2>1. CASE Upload(r)
      BY <1>3, <2>1 DEF Upload, PutFails, TypeOK
    <2>2. CASE ~Upload(r)
      BY <2>2 DEF Serve, Insert, StoreCreated, Lookup, Evict, Query, SelectFails, Fill,
                  Update, NoRows, Invalidate, TypeOK
    <2>3. QED
      BY <2>1, <2>2
  <1>5. (Created(r) => Exists(RowFor(r)) /\ db[RowFor(r)][1] = NewRow(r))'
    <2>1. CASE Insert(r) /\ Inserted(r)
      BY <1>2, <1>3, <2>1, CreatedCopyShows DEF StepInv, Insert, Exists
    <2>2. CASE Insert(r) /\ ~Inserted(r)
      BY <2>2 DEF Insert, Created, TypeOK
    <2>3. CASE ~Insert(r)
      <3>1. Created(r)' => Created(r)
        BY <1>1, <2>3 DEF Serve, StoreCreated, Lookup, Evict, Query, SelectFails, Fill,
                    Upload, PutFails, Update, NoRows, Invalidate, Created, TypeOK
      <3>2. Created(r) => Len(db[RowFor(r)]) > 0 /\ db[RowFor(r)][1] = NewRow(r)
        BY DEF WriteInv, Exists
      <3>3. QED
        BY <1>1, <1>3, <3>1, <3>2, GrownFacts DEF Exists
    <2>4. QED
      BY <2>1, <2>2, <2>3
  <1>6. (wrote[r] # 0 => /\ wrote[r] \in low[r] + 1 .. Len(db[RowFor(r)])
                         /\ db[RowFor(r)][wrote[r]].img = ImagePath(r))'
    <2> low[r] \in Nat /\ low[r] <= Len(db[RowFor(r)]) /\ wrote[r] \in Nat
      BY <1>2 DEF ReadInv, TypeOK
    <2>1. CASE Update(r) /\ Updated(r)
      <3>1. call[r].op = "PUT"
        BY <2>1 DEF Update, StepInv
      <3>2. /\ Len(db'[RowFor(r)]) = Len(db[RowFor(r)]) + 1
            /\ db'[RowFor(r)][Len(db[RowFor(r)]) + 1] = UpdatedRow(r)
        BY <1>2, <2>1, <3>1, UpdatedRowIsProduct, CommitGrows DEF Updated, Changes
      <3>3. UpdatedRow(r).img = ImagePath(r)
        <4>1. Current(RowFor(r)) \in Product
          BY <1>3, <2>1, CurrentIsProduct DEF Updated, Changes
        <4>2. QED
          BY <4>1 DEF UpdatedRow, Product
      <3>4. Len(db[RowFor(r)]) \in Nat /\ wrote'[r] = Len(db[RowFor(r)]) + 1
        BY <1>2, <2>1, UpdatedRecords
      <3>5. QED
        BY <1>1, <1>3, <3>2, <3>3, <3>4
    <2>2. CASE UNCHANGED wrote
      BY <1>1, <1>3, <2>2, GrownFacts DEF WriteInv
    <2>3. QED
      BY <2>1, <2>2, ServeFrame
  <1>7. QED
    BY <1>4, <1>5, <1>6 DEF WriteInv

\* Setting an entry sets that entry.
LEMMA SetEntrySets ==
    ASSUME TypeOK, NEW r \in Req, call[r] # NoCall, NEW e, SetEntry(r, e),
           NEW p \in Pod, NEW i \in Id
    PROVE  cache'[p][i] = IF p = call[r].pod /\ i = call[r].id THEN e ELSE cache[p][i]
  <1>1. call[r].pod \in Pod /\ call[r].id \in Id
    BY CallFacts
  <1>2. QED
    BY <1>1 DEF SetEntry, TypeOK

\* Only products that show a version of the id's row get into a cache.
LEMMA ServeCacheInv ==
    ASSUME TypeOK, TypeOK', CacheInv, NEW r \in Req, RequestInv(r), Serve(r)
    PROVE  CacheInv'
  <1> StepInv(r) /\ ReadInv(r)
    BY DEF RequestInv
  <1>1. Grown
    BY ServeFrame
  <1>2. call[r] # NoCall
    BY DEF StepInv, Serve, Insert, StoreCreated, Lookup, Evict, Query, Fill, Upload,
           Update, Invalidate
  <1>3. ASSUME NEW p \in Pod, NEW i \in Id, cache'[p][i] # NoEntry
        PROVE  Shows(cache[p][i].copy, RowOf[i])'
    <2>1. RowOf[i] \in Row
      BY ConstantsAssumption
    <2>2. ASSUME NEW copy \in Copy, Shows(copy, RowOf[i]), cache'[p][i].copy = copy
          PROVE  Shows(cache[p][i].copy, RowOf[i])'
      <3>1. Shows(copy, RowOf[i]) => /\ copy.v \in 1 .. Len(db'[RowOf[i]])
                                     /\ db'[RowOf[i]][copy.v] = db[RowOf[i]][copy.v]
        BY <1>1, <2>1, GrownFacts DEF Shows
      <3>2. QED
        BY <2>2, <3>1 DEF Shows
    <2>3. CASE cache'[p][i] = cache[p][i]
      <3>1. cache[p][i].copy \in Copy /\ Shows(cache[p][i].copy, RowOf[i])
        <4>1. cache[p][i] \in Entry \cup {NoEntry}
          BY DEF TypeOK
        <4>2. QED
          BY <1>3, <2>3, <4>1 DEF CacheInv, Entry
      <3>2. QED
        BY <2>2, <2>3, <3>1
    <2>4. CASE CachePut(r) /\ (StoreCreated(r) \/ Fill(r)) /\ p = call[r].pod /\ i = call[r].id
      <3>1. cache'[p][i].copy = got[r]
        BY <1>2, <2>4, SetEntrySets DEF CachePut
      <3>2. got[r] \in Copy /\ Shows(got[r], RowOf[i])
        BY <2>4 DEF StoreCreated, Fill, StepInv, ReadInv, RowFor, TypeOK
      <3>3. QED
        BY <2>2, <3>1, <3>2
    <2>5. \/ UNCHANGED cache
          \/ CachePut(r) /\ (StoreCreated(r) \/ Fill(r))
          \/ SetEntry(r, NoEntry)
      BY DEF Serve, Insert, StoreCreated, Lookup, Evict, Query, Fill, Upload, Update,
             Invalidate, stores
    <2>6. CASE ~(p = call[r].pod /\ i = call[r].id)
      BY <1>2, <2>3, <2>5, <2>6, SetEntrySets DEF CachePut
    <2>7. CASE p = call[r].pod /\ i = call[r].id /\ SetEntry(r, NoEntry)
      BY <1>2, <1>3, <2>7, SetEntrySets
    <2>8. QED
      BY <2>3, <2>4, <2>5, <2>6, <2>7
  <1>4. QED
    BY <1>3 DEF CacheInv

\* A path goes to the table only when its object is in the bucket.
LEMMA ServeNoDangling ==
    ASSUME TypeOK, NoDanglingImage, NEW r \in Req, RequestInv(r), Serve(r)
    PROVE  NoDanglingImage'
  <1> StepInv(r) /\ WriteInv(r)
    BY DEF RequestInv
  <1>1. bucket \subseteq bucket'
    BY ServeFrame
  <1>2. ASSUME NEW k \in Row, NEW prod \in Product, Commit(k, prod),
               prod.img # NoImage => prod.img \in bucket
        PROVE  NoDanglingImage'
    <2>1. SUFFICES ASSUME NEW j \in Row, NEW n \in DOMAIN db'[j], db'[j][n].img # NoImage
                   PROVE  db'[j][n].img \in bucket'
      BY DEF NoDanglingImage
    <2>2. db[j] \in Seq(Product) /\ Len(db[j]) \in Nat
      BY HistoryLength
    <2>3. CASE j # k
      BY <1>1, <1>2, <2>1, <2>3, CommitGrows DEF NoDanglingImage
    <2>4. CASE j = k
      <3>1. db'[k] = Append(db[k], prod)
        BY <1>2 DEF Commit, TypeOK
      <3>2. CASE n = Len(db[k]) + 1
        BY <1>1, <1>2, <2>1, <2>2, <2>4, <3>1, <3>2
      <3>3. CASE n # Len(db[k]) + 1
        BY <1>1, <2>1, <2>2, <2>4, <3>1, <3>3 DEF NoDanglingImage
      <3>4. QED
        BY <3>2, <3>3
    <2>5. QED
      BY <2>3, <2>4
  <1>3. CASE UNCHANGED db
    BY <1>1, <1>3 DEF NoDanglingImage
  <1>4. CASE Insert(r) /\ Inserted(r)
    <2>1. NewRow(r).img = NoImage
      BY DEF NewRow
    <2>2. QED
      BY <1>2, <1>4, <2>1, NewRowIsProduct DEF Insert, Inserted, StepInv
  <1>5. CASE Update(r) /\ Updated(r)
    <2>1. RowFor(r) \in Row /\ UpdatedRow(r) \in Product /\ Current(RowFor(r)) \in Product
      BY <1>5, UpdatedRowIsProduct, CurrentIsProduct DEF Update, Updated, Changes, StepInv
    <2>2. UpdatedRow(r).img \in bucket
      BY <1>5, <2>1 DEF UpdatedRow, Product, Update, WriteInv
    <2>3. QED
      BY <1>2, <1>5, <2>1, <2>2 DEF Updated
  <1>6. QED
    BY <1>3, <1>4, <1>5
       DEF Serve, Insert, StoreCreated, Lookup, Evict, Query, Fill, Upload, Update,
           Invalidate, stores

\* The primary key lets one INSERT through.
LEMMA ServeCreatorsDiffer ==
    ASSUME TypeOK, \A s \in Req : RequestInv(s), CreatorsDiffer, NEW r \in Req, Serve(r)
    PROVE  CreatorsDiffer'
  <1> USE DEF GoTo, Answer, stores, locals
  <1>1. call' = call /\ \A s \in Req : s # r => Untouched(s)
    BY ServeFrame DEF RequestInv
  <1>2. \A s \in Req : s # r => (Created(s)' <=> Created(s))
    BY <1>1 DEF Untouched, Created
  <1>3. \A s \in Req : RowFor(s)' = RowFor(s)
    BY <1>1 DEF RowFor
  <1>4. CASE Insert(r) /\ Inserted(r)
    <2>1. \A s \in Req : Created(s) => RowFor(s) # RowFor(r)
      BY <1>4 DEF RequestInv, WriteInv, Inserted
    <2>2. QED
      BY <1>2, <1>3, <2>1 DEF CreatorsDiffer
  <1>5. CASE ~(Insert(r) /\ Inserted(r))
    <2>1. Created(r)' => Created(r)
      BY <1>1, <1>5 DEF Serve, Insert, StoreCreated, Lookup, Evict, Query, SelectFails,
                        Fill, Upload, PutFails, Update, NoRows, Invalidate, Created, TypeOK
    <2>2. QED
      BY <1>2, <1>3, <2>1 DEF CreatorsDiffer
  <1>6. QED
    BY <1>4, <1>5

\* An UPDATE appends: its version is no other request's.
LEMMA ServeWritersDiffer ==
    ASSUME TypeOK, \A s \in Req : RequestInv(s), WritersDiffer, NEW r \in Req, Serve(r)
    PROVE  WritersDiffer'
  <1>1. call' = call /\ \A s \in Req : s # r => wrote'[s] = wrote[s]
    BY ServeFrame DEF RequestInv, Untouched
  <1>2. \A s \in Req : RowFor(s)' = RowFor(s)
    BY <1>1 DEF RowFor
  <1>3. CASE UNCHANGED wrote
    BY <1>2, <1>3 DEF WritersDiffer
  <1>4. CASE Update(r) /\ Updated(r)
    <2>1. call[r] # NoCall
      BY <1>4 DEF RequestInv, StepInv, Update
    <2>2. Len(db[RowFor(r)]) \in Nat /\ wrote'[r] = Len(db[RowFor(r)]) + 1
      BY <1>4, <2>1, UpdatedRecords
    <2>3. ASSUME NEW s \in Req, s # r, wrote[s] # 0, RowFor(s) = RowFor(r)
          PROVE  wrote'[s] # wrote'[r]
      <3>1. wrote[s] \in low[s] + 1 .. Len(db[RowFor(r)]) /\ low[s] \in Nat
        BY <2>3 DEF RequestInv, WriteInv, TypeOK
      <3>2. QED
        BY <1>1, <2>2, <2>3, <3>1
    <2>4. QED
      BY <1>1, <1>2, <2>3 DEF WritersDiffer
  <1>5. QED
    BY <1>3, <1>4, ServeFrame DEF RequestInv

\* A step of a handler keeps the invariant.
LEMMA ServeInv ==
    ASSUME IInv, NEW r \in Req, Serve(r)
    PROVE  IInv'
  <1> /\ TypeOK /\ CacheInv /\ NoDanglingImage /\ CreatorsDiffer /\ WritersDiffer
      /\ \A s \in Req : RequestInv(s)
    BY DEF IInv
  <1>1. TypeOK'
    BY ServeType DEF RequestInv
  <1>2. RequestInv(r)'
    BY <1>1, ServeStepInv, ServeReadInv, ServeWriteInv DEF RequestInv
  <1>3. ASSUME NEW s \in Req, s # r PROVE RequestInv(s)'
    BY <1>1, <1>3, ServeFrame, UntouchedKept DEF RequestInv
  <1>4. CacheInv' /\ NoDanglingImage' /\ CreatorsDiffer' /\ WritersDiffer'
    BY <1>1, ServeCacheInv, ServeNoDangling, ServeCreatorsDiffer, ServeWritersDiffer
  <1>5. QED
    BY <1>1, <1>2, <1>3, <1>4 DEF IInv

-----------------------------------------------------------------------------
(***************************************************************************)
(* Steps of clients, of time and of the cluster.                           *)
(***************************************************************************)
\* The stores stay as they are, and so does what the invariant says of them.
LEMMA StoresKept ==
    ASSUME TypeOK, TypeOK', UNCHANGED <<db, bucket>>
    PROVE  /\ Grown
           /\ NoDanglingImage => NoDanglingImage'
           /\ UNCHANGED cache /\ CacheInv => CacheInv'
  BY UnchangedGrows DEF NoDanglingImage, CacheInv, Shows

\* A request begins.
LEMMA ArriveInv ==
    ASSUME IInv, TypeOK', NEW r \in Req, NEW c \in Call, Arrive(r, c)
    PROVE  IInv'
  <1> /\ TypeOK /\ CacheInv /\ NoDanglingImage /\ CreatorsDiffer /\ WritersDiffer
      /\ \A s \in Req : RequestInv(s)
    BY DEF IInv
  <1> UNCHANGED <<db, bucket, cache, got, wrote, reply>> /\ pc[r] = "idle"
    BY DEF Arrive, stores, GoTo
  <1>1. Grown /\ NoDanglingImage' /\ CacheInv'
    BY StoresKept
  <1>2. ASSUME NEW s \in Req, s # r PROVE Untouched(s) /\ RequestInv(s)'
    <2>1. Untouched(s)
      BY <1>2 DEF Arrive, GoTo, TypeOK, Untouched
    <2>2. QED
      BY <1>1, <2>1, UntouchedKept
  <1>3. /\ call'[r] = c /\ low'[r] = Len(db[RowOf[c.id]]) /\ pc'[r] = FirstStep[c.op]
        /\ got'[r] = NoCopy /\ wrote[r] = 0 /\ reply'[r] = "none"
    BY DEF Arrive, GoTo, TypeOK, RequestInv, StepInv
  <1>4. RowOf[c.id] \in Row /\ Len(db[RowOf[c.id]]) \in Nat /\ c # NoCall
    BY HistoryLength, ConstantsAssumption DEF Call
  <1>5. RequestInv(r)'
    <2>1. StepInv(r)'
      BY <1>3, <1>4 DEF StepInv, Call, FirstStep
    <2>2. ReadInv(r)'
      BY <1>3, <1>4, FirstStepIsStep DEF ReadInv, RowFor
    <2>3. WriteInv(r)'
      BY <1>3, FirstStepIsStep DEF WriteInv, Created
    <2>4. QED
      BY <2>1, <2>2, <2>3 DEF RequestInv
  <1>6. CreatorsDiffer'
    <2>1. ~Created(r)'
      <3>1. pc'[r] # "store" /\ reply'[r] # "created"
        BY <1>3, FirstStepIsStep
      <3>2. QED
        BY <3>1 DEF Created
    <2>2. \A s \in Req : s # r => (Created(s)' <=> Created(s)) /\ RowFor(s)' = RowFor(s)
      BY <1>2 DEF Untouched, Created, RowFor
    <2>3. QED
      BY <2>1, <2>2 DEF CreatorsDiffer
  <1>7. WritersDiffer'
    <2>1. \A s \in Req : wrote[s] # 0 => RowFor(s)' = RowFor(s)
      BY <1>2, <1>3 DEF Untouched, RowFor
    <2>2. QED
      BY <2>1 DEF WritersDiffer
  <1>8. QED
    BY <1>1, <1>2, <1>5, <1>6, <1>7 DEF IInv

\* A request is refused before it did anything.
LEMMA RefuseInv ==
    ASSUME IInv, TypeOK', NEW r \in Req, Refuse(r)
    PROVE  IInv'
  <1> /\ TypeOK /\ CacheInv /\ NoDanglingImage /\ CreatorsDiffer /\ WritersDiffer
      /\ \A s \in Req : RequestInv(s)
    BY DEF IInv
  <1> UNCHANGED <<db, bucket, cache, call, low, got, wrote>> /\ pc[r] = "idle"
    BY DEF Refuse, stores, locals
  <1>1. Grown /\ NoDanglingImage' /\ CacheInv'
    BY StoresKept
  <1>2. ASSUME NEW s \in Req, s # r PROVE Untouched(s) /\ RequestInv(s)'
    <2>1. Untouched(s)
      BY <1>2 DEF Refuse, Answer, TypeOK, Untouched
    <2>2. QED
      BY <1>1, <2>1, UntouchedKept
  <1>3. /\ call[r] = NoCall /\ got[r] = NoCopy /\ wrote[r] = 0
        /\ pc'[r] = "done" /\ reply'[r] = "bad request"
    BY DEF Refuse, Answer, TypeOK, RequestInv, StepInv
  <1>4. RequestInv(r)'
    BY <1>3 DEF RequestInv, StepInv, ReadInv, WriteInv, Created
  <1>5. CreatorsDiffer'
    <2>1. ~Created(r)'
      BY <1>3 DEF Created
    <2>2. \A s \in Req : s # r => (Created(s)' <=> Created(s)) /\ RowFor(s)' = RowFor(s)
      BY <1>2 DEF Untouched, Created, RowFor
    <2>3. QED
      BY <2>1, <2>2 DEF CreatorsDiffer
  <1>6. WritersDiffer'
    BY DEF WritersDiffer, RowFor
  <1>7. QED
    BY <1>1, <1>2, <1>4, <1>5, <1>6 DEF IInv

\* Requests end, by an answer or by the death of their pod.
LEMMA ForgetInv ==
    ASSUME IInv, TypeOK', NEW R \in SUBSET Req, Forget(R), UNCHANGED <<db, bucket>>
    PROVE  /\ \A r \in Req : RequestInv(r)'
           /\ CreatorsDiffer'
           /\ WritersDiffer'
  <1> TypeOK /\ CreatorsDiffer /\ WritersDiffer /\ \A s \in Req : RequestInv(s)
    BY DEF IInv
  <1>1. Grown
    BY UnchangedGrows
  <1>2. ASSUME NEW r \in Req, r \notin R PROVE Untouched(r) /\ RequestInv(r)'
    <2>1. Untouched(r)
      BY <1>2 DEF Forget, Untouched
    <2>2. QED
      BY <1>1, <2>1, UntouchedKept
  <1>3. ASSUME NEW r \in Req, r \in R PROVE ~Created(r)' /\ wrote'[r] = 0 /\ RequestInv(r)'
    <2>1. /\ pc'[r] = "idle" /\ call'[r] = NoCall /\ low'[r] = 0
          /\ got'[r] = NoCopy /\ wrote'[r] = 0 /\ reply'[r] = "none"
      BY <1>3 DEF Forget
    <2>2. QED
      BY <2>1 DEF RequestInv, StepInv, ReadInv, WriteInv, Created
  <1>4. CreatorsDiffer'
    <2>1. \A s \in Req : Created(s)' => Created(s) /\ RowFor(s)' = RowFor(s)
      BY <1>2, <1>3 DEF Untouched, Created, RowFor
    <2>2. QED
      BY <2>1 DEF CreatorsDiffer
  <1>5. WritersDiffer'
    <2>1. \A s \in Req : wrote'[s] # 0 => wrote'[s] = wrote[s] /\ RowFor(s)' = RowFor(s)
      BY <1>2, <1>3 DEF Untouched, RowFor
    <2>2. QED
      BY <2>1 DEF WritersDiffer
  <1>6. QED
    BY <1>2, <1>3, <1>4, <1>5

\* A pod's replacement starts with nothing cached.
LEMMA RestartCacheInv ==
    ASSUME TypeOK, TypeOK', CacheInv, NEW p \in Pod, Restart(p)
    PROVE  CacheInv'
  <1>1. ASSUME NEW q \in Pod, NEW i \in Id, cache'[q][i] # NoEntry
        PROVE  Shows(cache[q][i].copy, RowOf[i])'
    <2>1. cache'[q][i] = cache[q][i] /\ UNCHANGED db
      BY <1>1 DEF Restart, TypeOK
    <2>2. QED
      BY <1>1, <2>1 DEF CacheInv, Shows
  <1>2. QED
    BY <1>1 DEF CacheInv

\* Time changes what is live, not what is cached.
LEMMA TickInv ==
    ASSUME IInv, TypeOK', Tick
    PROVE  IInv'
  <1> /\ TypeOK /\ CacheInv /\ NoDanglingImage /\ CreatorsDiffer /\ WritersDiffer
      /\ \A s \in Req : RequestInv(s)
    BY DEF IInv
  <1> UNCHANGED <<db, bucket, pc, call, low, got, wrote, reply>>
    BY DEF Tick, locals
  <1>1. Grown /\ NoDanglingImage'
    BY StoresKept
  <1>2. \A s \in Req : RequestInv(s)'
    BY <1>1, UntouchedKept DEF Untouched
  <1>3. CreatorsDiffer' /\ WritersDiffer'
    BY DEF CreatorsDiffer, WritersDiffer, Created, RowFor
  <1>4. ASSUME NEW p \in Pod, NEW i \in Id, cache'[p][i] # NoEntry
        PROVE  Shows(cache[p][i].copy, RowOf[i])'
    <2>1. cache[p][i] \in Entry \cup {NoEntry} /\ cache'[p][i] = Older(cache[p][i])
      BY DEF Tick, TypeOK
    <2>2. cache[p][i] # NoEntry /\ cache'[p][i].copy = cache[p][i].copy
      BY <1>4, <2>1 DEF Older, Live, Entry
    <2>3. QED
      BY <2>2 DEF CacheInv, Shows
  <1>5. QED
    BY <1>1, <1>2, <1>3, <1>4 DEF IInv, CacheInv

-----------------------------------------------------------------------------
(***************************************************************************)
(* The theorems.                                                           *)
(***************************************************************************)
LEMMA InitInv == Init => IInv
  <1> SUFFICES ASSUME Init PROVE IInv
    OBVIOUS
  <1>1. TypeOK
    BY DEF Init, TypeOK
  <1>2. \A r \in Req : RequestInv(r)
    BY DEF Init, RequestInv, StepInv, ReadInv, WriteInv, Created
  <1>3. CacheInv /\ NoDanglingImage /\ CreatorsDiffer /\ WritersDiffer
    BY DEF Init, CacheInv, NoDanglingImage, CreatorsDiffer, WritersDiffer, Created
  <1>4. QED
    BY <1>1, <1>2, <1>3 DEF IInv

\* Every step keeps the invariant.
LEMMA NextInv == IInv /\ [Next]_vars => IInv'
  <1> SUFFICES ASSUME IInv, [Next]_vars PROVE IInv'
    OBVIOUS
  <1>0. TypeOK /\ TypeOK'
    BY NextType DEF IInv, RequestInv
  <1>1. ASSUME NEW r \in Req, NEW c \in Call, Arrive(r, c) PROVE IInv'
    BY <1>0, <1>1, ArriveInv
  <1>2. ASSUME NEW r \in Req, Refuse(r) PROVE IInv'
    BY <1>0, <1>2, RefuseInv
  <1>3. ASSUME NEW r \in Req, Serve(r) PROVE IInv'
    BY <1>3, ServeInv
  <1>4. ASSUME NEW r \in Req, Return(r) PROVE IInv'
    <2>1. UNCHANGED <<db, bucket, cache>> /\ Forget({r}) /\ {r} \in SUBSET Req
      BY <1>4 DEF Return, stores
    <2>2. NoDanglingImage' /\ CacheInv'
      BY <1>0, <2>1, StoresKept DEF IInv
    <2>3. QED
      BY <1>0, <2>1, <2>2, ForgetInv DEF IInv
  <1>5. ASSUME NEW p \in Pod, Restart(p) PROVE IInv'
    <2>1. UNCHANGED <<db, bucket>> /\ Forget(ServedBy(p)) /\ ServedBy(p) \in SUBSET Req
      BY <1>5 DEF Restart, ServedBy
    <2>2. NoDanglingImage' /\ CacheInv'
      BY <1>0, <1>5, <2>1, StoresKept, RestartCacheInv DEF IInv
    <2>3. QED
      BY <1>0, <2>1, <2>2, ForgetInv DEF IInv
  <1>6. ASSUME Tick PROVE IInv'
    BY <1>0, <1>6, TickInv
  <1>7. CASE UNCHANGED vars
    <2>1. UNCHANGED <<db, bucket, cache, pc, call, low, got, wrote, reply>>
      BY <1>7 DEF vars
    <2>2. Grown /\ NoDanglingImage' /\ CacheInv'
      BY <1>0, <2>1, StoresKept DEF IInv
    <2>3. \A r \in Req : RequestInv(r)'
      BY <1>0, <2>1, <2>2, UntouchedKept DEF IInv, Untouched
    <2>4. CreatorsDiffer' /\ WritersDiffer'
      BY <2>1 DEF IInv, CreatorsDiffer, WritersDiffer, Created, RowFor
    <2>5. QED
      BY <1>0, <2>2, <2>3, <2>4 DEF IInv
  <1>8. QED
    BY <1>1, <1>2, <1>3, <1>4, <1>5, <1>6, <1>7 DEF Next

\* Every reachable state satisfies the inductive invariant.
THEOREM Invariance == Spec => []IInv
  BY InitInv, NextInv, PTL DEF Spec

\* The variables keep their types.
THEOREM TypeCorrect == Spec => []TypeOK
  <1>1. IInv => TypeOK
    BY DEF IInv
  <1>2. QED
    BY <1>1, Invariance, PTL

\* Caches and answers show committed versions of the right row.
THEOREM CopiesCorrect == Spec => []CopiesAreVersions
  <1>1. IInv => CopiesAreVersions
    BY IInvImplies
  <1>2. QED
    BY <1>1, Invariance, PTL

\* No committed image path lacks its object, whatever fails or dies.
THEOREM ImagesCorrect == Spec => []NoDanglingImage
  <1>1. IInv => NoDanglingImage
    BY IInvImplies
  <1>2. QED
    BY <1>1, Invariance, PTL

\* A GET answered from the table is as new as the row at its arrival.
THEOREM ReadsFresh == Spec => []FreshReads
  <1>1. IInv => FreshReads
    BY IInvImplies
  <1>2. QED
    BY <1>1, Invariance, PTL

\* At most one POST creates a row, and it creates what it says.
THEOREM CreatesOnce == Spec => []SoleCreator
  <1>1. IInv => SoleCreator
    BY IInvImplies
  <1>2. QED
    BY <1>1, Invariance, PTL

\* A PUT that answers 200 has itself committed its path, and no other PUT
\* answers 200 for the version it committed.
THEOREM AcksHonest == Spec => []AckedImageCommitted
  <1>1. IInv => AckedImageCommitted
    BY IInvImplies
  <1>2. QED
    BY <1>1, Invariance, PTL

-----------------------------------------------------------------------------
(***************************************************************************)
(* The product application implements the catalogue: its initial states    *)
(* are the catalogue's, and each of its steps is a step of the catalogue   *)
(* or leaves the catalogue as it is.  Only four kinds of step are seen:    *)
(* a read arrives, a write commits, a read is answered, a request ends.    *)
(***************************************************************************)
Silent(r) == Question(r)' = Question(r) /\ Told(r)' = Told(r)

\* What a client sees of a request depends on that request only.
LEMMA UntouchedSilent ==
    ASSUME NEW r \in Req, Untouched(r)
    PROVE  Silent(r)
  BY DEF Untouched, Silent, Question, Told, RowFor

\* A step that commits nothing and answers no read is none of the catalogue's.
LEMMA SilentStutters ==
    ASSUME UNCHANGED db, \A r \in Req : Silent(r)
    PROVE  UNCHANGED Promise!catalogueVars
  BY DEF Silent, Promise!catalogueVars

\* A step of a handler that commits nothing and leaves its reply alone.
LEMMA QuietStep ==
    ASSUME TypeOK, NEW r \in Req, StepInv(r), Serve(r), UNCHANGED db, Told(r)' = Told(r)
    PROVE  UNCHANGED Promise!catalogueVars
  <1>1. \A s \in Req : s # r => Silent(s)
    BY ServeFrame, UntouchedSilent
  <1>2. Silent(r)
    BY ServeFrame DEF Silent, Question, RowFor
  <1>3. QED
    BY <1>1, <1>2, SilentStutters

\* A read under way is an open question of the catalogue.
LEMMA ReadIsOpen ==
    ASSUME TypeOK, NEW r \in Req, StepInv(r), pc[r] \in {"lookup", "query", "fill"}
    PROVE  /\ call[r] # NoCall /\ call[r].op = "GET"
           /\ RowFor(r) \in Row /\ low[r] \in Nat
           /\ Question(r) = [row |-> RowFor(r), low |-> low[r]]
           /\ Promise!Open(r)
  <1>1. call[r] # NoCall /\ call[r].op = "GET" /\ reply[r] = "none"
    BY DEF StepInv, TypeOK
  <1>2. RowFor(r) \in Row /\ low[r] \in Nat
    BY <1>1, CallFacts DEF TypeOK
  <1>3. Question(r) = [row |-> RowFor(r), low |-> low[r]] /\ Question(r) # NoCall
    BY <1>1, <1>2, ConstantsAssumption DEF Question
  <1>4. Told(r) = NoCall
    BY <1>1 DEF Told
  <1>5. QED
    BY <1>1, <1>2, <1>3, <1>4 DEF Promise!Open

\* An answered read is an answer of the catalogue.
LEMMA AnswerIsTold ==
    ASSUME TypeOK, NEW r \in Req, StepInv(r), Serve(r), UNCHANGED db,
           NEW how, NEW prod, Told(r)' = [how |-> how, prod |-> prod]
    PROVE  Promise!Tell(r, how, prod)
  <1>1. \A s \in Req : s # r => Silent(s)
    BY ServeFrame, UntouchedSilent
  <1>2. Question(r)' = Question(r)
    BY ServeFrame DEF Question, RowFor
  <1>3. QED
    BY <1>1, <1>2 DEF Promise!Tell, Silent

-----------------------------------------------------------------------------
(***************************************************************************)
(* Writes.                                                                 *)
(***************************************************************************)
LEMMA InsertImplements ==
    ASSUME TypeOK, NEW r \in Req, StepInv(r), Insert(r)
    PROVE  [Promise!Next]_(Promise!catalogueVars)
  <1>1. Serve(r) /\ call[r] # NoCall /\ call[r].op = "POST"
    BY DEF Serve, Insert, StepInv
  <1>2. \A s \in Req : Silent(s)
    <2>1. \A s \in Req : s # r => Silent(s)
      BY <1>1, ServeFrame, UntouchedSilent
    <2>2. Question(r)' = Question(r) /\ Told(r)' = Told(r)
      BY <1>1, ServeFrame DEF Question, Told, RowFor
    <2>3. QED
      BY <2>1, <2>2 DEF Silent
  <1>3. CASE UNCHANGED db
    BY <1>2, <1>3, SilentStutters
  <1>4. CASE Inserted(r)
    <2>1. call[r] \in [op : {"POST"}, pod : Pod, id : Id, arg : Payload]
      BY <1>1 DEF TypeOK, Call
    <2>2. RowFor(r) \in Row /\ call[r].id \in Id /\ call[r].arg \in Payload
      BY <1>1, <2>1, CallFacts
    <2>3. Len(db[RowFor(r)]) = 0
      BY <1>4, <2>2, HistoryLength DEF Inserted, Exists
    <2>4. Promise!Create(RowFor(r), call[r].id, call[r].arg)
      BY <1>2, <1>4, <2>3 DEF Promise!Create, Silent, Inserted, Commit, NewRow, RowFor
    <2>5. QED
      BY <2>2, <2>4 DEF Promise!Next
  <1>5. QED
    BY <1>3, <1>4 DEF Insert

\* An UPDATE that commits sets an image; otherwise nothing is told.
LEMMA UpdateImplements ==
    ASSUME TypeOK, NEW r \in Req, StepInv(r), Update(r)
    PROVE  [Promise!Next]_(Promise!catalogueVars)
  <1>1. Serve(r) /\ call[r] # NoCall /\ call[r].op = "PUT"
    BY DEF Serve, Update, StepInv
  <1>2. \A s \in Req : Silent(s)
    <2>1. \A s \in Req : s # r => Silent(s)
      BY <1>1, ServeFrame, UntouchedSilent
    <2>2. Question(r)' = Question(r) /\ Told(r)' = Told(r)
      BY <1>1, ServeFrame DEF Question, Told, RowFor
    <2>3. QED
      BY <2>1, <2>2 DEF Silent
  <1>3. CASE UNCHANGED db
    BY <1>2, <1>3, SilentStutters
  <1>4. CASE Updated(r)
    <2>1. RowFor(r) \in Row /\ ImagePath(r) \in Key
      BY <1>1, UpdatedRowIsProduct
    <2>2. Promise!SetImage(RowFor(r), ImagePath(r))
      BY <1>2, <1>4
         DEF Promise!SetImage, Silent, Updated, Changes, Exists, Commit, UpdatedRow, Current
    <2>3. QED
      BY <2>1, <2>2 DEF Promise!Next
  <1>5. QED
    BY <1>3, <1>4 DEF Update

-----------------------------------------------------------------------------
(***************************************************************************)
(* Reads.                                                                  *)
(***************************************************************************)
\* What a copy shows is a version, but perhaps for the payload.
LEMMA ShownIsVersion ==
    ASSUME TypeOK, NEW copy \in Copy, NEW k \in Row, Shows(copy, k)
    PROVE  /\ copy.v \in 1 .. Len(db[k])
           /\ copy.prod.pay \in Payload
           /\ copy.prod = [db[k][copy.v] EXCEPT !.pay = copy.prod.pay]
  <1>1. copy.v \in 1 .. Len(db[k]) /\ db[k] \in Seq(Product)
    BY HistoryLength DEF Shows
  <1>2. db[k][copy.v] \in Product
    BY <1>1
  <1>3. copy.prod \in Product
    BY DEF Copy
  <1>4. QED
    BY <1>1, <1>2, <1>3 DEF Shows, Product

\* A hit tells a version that is remembered.
LEMMA LookupImplements ==
    ASSUME TypeOK, CacheInv, NEW r \in Req, StepInv(r), Lookup(r)
    PROVE  [Promise!Next]_(Promise!catalogueVars)
  <1>1. /\ Serve(r) /\ pc[r] = "lookup" /\ UNCHANGED db
        /\ call'[r] = call[r] /\ call[r] # NoCall /\ call[r].op = "GET" /\ reply[r] = "none"
    BY DEF Serve, Lookup, StepInv, stores, TypeOK
  <1>2. CASE UNCHANGED reply
    <2>1. Told(r)' = Told(r)
      BY <1>1, <1>2 DEF Told
    <2>2. QED
      BY <1>1, <2>1, QuietStep
  <1>3. CASE CachedFor(r) # NoEntry /\ got' = [got EXCEPT ![r] = CachedFor(r).copy]
                                   /\ Answer(r, "hit")
    <2> DEFINE k == RowFor(r)
               copy == CachedFor(r).copy
    <2>1. copy \in Copy /\ k \in Row /\ Shows(copy, k)
      BY <1>1, <1>3, CopiesAreCopies, CallFacts DEF CacheInv, CachedFor, RowFor
    <2>2. /\ copy.v \in 1 .. Len(db[k])
          /\ copy.prod.pay \in Payload
          /\ copy.prod = [db[k][copy.v] EXCEPT !.pay = copy.prod.pay]
      BY <2>1, ShownIsVersion
    <2>3. Told(r)' = [how |-> "hit", prod |-> copy.prod]
      BY <1>1, <1>3 DEF Told, Answer, TypeOK
    <2>4. Promise!Tell(r, "hit", [db[k][copy.v] EXCEPT !.pay = copy.prod.pay])
      BY <1>1, <2>2, <2>3, AnswerIsTold
    <2>5. Promise!Open(r) /\ Question(r) = [row |-> k, low |-> low[r]]
      BY <1>1, ReadIsOpen
    <2>6. copy.prod.pay = db[k][copy.v].pay
            \/ (copy.v = 1 /\ Stored[copy.prod.pay] = db[k][copy.v].pay)
      BY <2>1 DEF Shows
    <2> HIDE DEF k, copy
    <2>7. Promise!TellRemembered(r)
      BY <2>2, <2>4, <2>5, <2>6 DEF Promise!TellRemembered
    <2>8. QED
      BY <2>7 DEF Promise!Next
  <1>4. QED
    BY <1>2, <1>3 DEF Lookup, GoTo

\* A SELECT without a row tells that there was none.
LEMMA QueryImplements ==
    ASSUME TypeOK, NEW r \in Req, StepInv(r), ReadInv(r), Query(r)
    PROVE  [Promise!Next]_(Promise!catalogueVars)
  <1>1. /\ Serve(r) /\ pc[r] = "query" /\ UNCHANGED db
        /\ call'[r] = call[r] /\ call[r] # NoCall /\ call[r].op = "GET" /\ reply[r] = "none"
    BY DEF Serve, Query, StepInv, stores, TypeOK
  <1>2. CASE UNCHANGED reply \/ Answer(r, "error")
    <2>1. Told(r)' = Told(r)
      BY <1>1, <1>2 DEF Told, Answer, TypeOK
    <2>2. QED
      BY <1>1, <2>1, QuietStep
  <1>3. CASE ~Exists(RowFor(r)) /\ Answer(r, "not found")
    <2>1. Told(r)' = [how |-> "not found", prod |-> NoCopy]
      BY <1>1, <1>3 DEF Told, Answer, TypeOK
    <2>2. Promise!Tell(r, "not found", NoCopy)
      BY <1>1, <2>1, AnswerIsTold
    <2>3. /\ Promise!Open(r)
          /\ Question(r) = [row |-> RowFor(r), low |-> low[r]]
          /\ RowFor(r) \in Row
          /\ low[r] \in Nat
      BY <1>1, ReadIsOpen
    <2>4. low[r] = 0
      <3>1. low[r] <= Len(db[RowFor(r)])
        BY <1>1 DEF ReadInv
      <3>2. Len(db[RowFor(r)]) = 0
        <4>1. ~(Len(db[RowFor(r)]) > 0)
          BY <1>3 DEF Exists
        <4>2. Len(db[RowFor(r)]) \in Nat
          BY <2>3, HistoryLength
        <4>3. QED
          BY <4>1, <4>2
      <3>3. QED
        BY <2>3, <3>1, <3>2
    <2>5. Question(r).low = 0
      BY <2>3, <2>4
    <2>6. Promise!TellMissing(r)
      BY <2>2, <2>3, <2>5 DEF Promise!TellMissing
    <2>7. QED
      BY <2>6 DEF Promise!Next
  <1>4. QED
    BY <1>2, <1>3 DEF Query, SelectFails, GoTo

\* An answer from the table tells a version as new as the question.
LEMMA FillImplements ==
    ASSUME TypeOK, NEW r \in Req, StepInv(r), ReadInv(r), Fill(r)
    PROVE  [Promise!Next]_(Promise!catalogueVars)
  <1>1. /\ Serve(r) /\ pc[r] = "fill" /\ UNCHANGED db
        /\ call'[r] = call[r] /\ call[r] # NoCall /\ call[r].op = "GET" /\ got'[r] = got[r]
    BY DEF Serve, Fill, StepInv, locals
  <1>2. /\ got[r] # NoCopy /\ got[r].v \in 1 .. Len(db[RowFor(r)]) /\ got[r].v >= low[r]
        /\ got[r].prod = db[RowFor(r)][got[r].v]
    BY <1>1 DEF StepInv, ReadInv, Shows
  <1>3. Told(r)' = [how |-> "ok", prod |-> db[RowFor(r)][got[r].v]]
    BY <1>1, <1>2 DEF Fill, Told, Answer, TypeOK
  <1>4. Promise!Tell(r, "ok", db[RowFor(r)][got[r].v])
    BY <1>1, <1>3, AnswerIsTold
  <1>5. Promise!Open(r) /\ Question(r) = [row |-> RowFor(r), low |-> low[r]]
    BY <1>1, ReadIsOpen
  <1>6. Promise!TellFresh(r)
    BY <1>2, <1>4, <1>5 DEF Promise!TellFresh
  <1>7. QED
    BY <1>6 DEF Promise!Next

\* Every step of a handler is the catalogue's, or none of it.
LEMMA ServeImplements ==
    ASSUME TypeOK, CacheInv, NEW r \in Req, StepInv(r), ReadInv(r), Serve(r)
    PROVE  [Promise!Next]_(Promise!catalogueVars)
  <1>1. ASSUME StoreCreated(r) \/ Evict(r) \/ Upload(r) \/ Invalidate(r)
        PROVE  UNCHANGED Promise!catalogueVars
    <2>1. UNCHANGED db /\ call' = call
      BY <1>1 DEF StoreCreated, Evict, Upload, Invalidate, locals
    <2>2. Told(r)' = Told(r)
      <3>1. CASE Evict(r)
        BY <3>1, <2>1 DEF Evict, GoTo, locals, Told
      <3>2. CASE StoreCreated(r) \/ Upload(r) \/ Invalidate(r)
        <4>1. call[r].op # "GET"
          BY <3>2 DEF StoreCreated, Upload, Invalidate, StepInv
        <4>2. QED
          BY <2>1, <4>1 DEF Told
      <3>3. QED
        BY <1>1, <3>1, <3>2
    <2>3. QED
      BY <2>1, <2>2, QuietStep
  <1>2. QED
    BY <1>1, InsertImplements, UpdateImplements, LookupImplements, QueryImplements,
       FillImplements DEF Serve

-----------------------------------------------------------------------------
(***************************************************************************)
(* Requests come and go.                                                   *)
(***************************************************************************)
LEMMA ArriveImplements ==
    ASSUME TypeOK, NEW r \in Req, StepInv(r), NEW c \in Call, Arrive(r, c)
    PROVE  [Promise!Next]_(Promise!catalogueVars)
  <1>1. \A s \in Req : s # r => Silent(s)
    <2>1. \A s \in Req : s # r => Untouched(s)
      BY DEF Arrive, GoTo, TypeOK, Untouched
    <2>2. QED
      BY <2>1, UntouchedSilent
  <1>2. /\ UNCHANGED db /\ call[r] = NoCall /\ reply'[r] = "none"
        /\ call'[r] = c /\ low'[r] = Len(db[RowOf[c.id]])
    BY DEF Arrive, GoTo, TypeOK, StepInv, stores
  <1>3. RowOf[c.id] \in Row
    BY ConstantsAssumption DEF Call
  <1>4. Question(r) = NoCall /\ Told(r) = NoCall /\ Told(r)' = NoCall
    BY <1>2 DEF Question, Told
  <1>5. CASE c.op = "GET"
    <2>1. Question(r)' = [row |-> RowOf[c.id], low |-> Len(db[RowOf[c.id]])]
      BY <1>2, <1>5, ConstantsAssumption DEF Question, RowFor
    <2>2. Promise!Ask(r, RowOf[c.id])
      BY <1>1, <1>2, <1>4, <2>1 DEF Promise!Ask, Silent
    <2>3. QED
      BY <1>3, <2>2 DEF Promise!Next
  <1>6. CASE c.op # "GET"
    <2>1. Silent(r)
      BY <1>2, <1>4, <1>6 DEF Silent, Question
    <2>2. QED
      BY <1>1, <1>2, <2>1, SilentStutters
  <1>7. QED
    BY <1>5, <1>6

\* Requests that are forgotten leave.
LEMMA ForgetImplements ==
    ASSUME NEW R \in SUBSET Req, Forget(R), UNCHANGED db
    PROVE  Promise!Next
  <1>1. \A r \in Req : r \notin R => Silent(r)
    BY UntouchedSilent DEF Forget, Untouched
  <1>2. \A r \in R : Question(r)' = NoCall /\ Told(r)' = NoCall
    BY DEF Forget, Question, Told
  <1>3. Promise!Leave(R)
    BY <1>1, <1>2 DEF Promise!Leave, Silent
  <1>4. QED
    BY <1>3 DEF Promise!Next

-----------------------------------------------------------------------------
(***************************************************************************)
(* The refinement.                                                         *)
(***************************************************************************)
LEMMA InitImplements == Init => Promise!Init
  BY DEF Init, Promise!Init, Question, Told

\* Every step is one of the catalogue or none.
LEMMA NextImplements == IInv /\ [Next]_vars => [Promise!Next]_(Promise!catalogueVars)
  <1> SUFFICES ASSUME IInv, [Next]_vars
               PROVE  [Promise!Next]_(Promise!catalogueVars)
    OBVIOUS
  <1>0. TypeOK /\ CacheInv /\ \A r \in Req : StepInv(r) /\ ReadInv(r)
    BY DEF IInv, RequestInv
  <1>1. ASSUME NEW r \in Req, NEW c \in Call, Arrive(r, c)
        PROVE  [Promise!Next]_(Promise!catalogueVars)
    BY <1>0, <1>1, ArriveImplements
  <1>2. ASSUME NEW r \in Req, Refuse(r) PROVE UNCHANGED Promise!catalogueVars
    <2>1. \A s \in Req : s # r => Untouched(s)
      BY <1>0, <1>2 DEF Refuse, Answer, locals, TypeOK, Untouched
    <2>2. Silent(r)
      BY <1>0, <1>2 DEF Refuse, locals, StepInv, Silent, Question, Told
    <2>3. UNCHANGED db
      BY <1>2 DEF Refuse, stores
    <2>4. QED
      BY <2>1, <2>2, <2>3, UntouchedSilent, SilentStutters
  <1>3. ASSUME NEW r \in Req, Serve(r)
        PROVE  [Promise!Next]_(Promise!catalogueVars)
    BY <1>0, <1>3, ServeImplements
  <1>4. ASSUME NEW r \in Req, Return(r) PROVE Promise!Next
    BY <1>4, ForgetImplements DEF Return, stores
  <1>5. ASSUME NEW p \in Pod, Restart(p) PROVE Promise!Next
    BY <1>5, ForgetImplements DEF Restart, ServedBy
  <1>6. CASE Tick
    BY <1>6, UntouchedSilent, SilentStutters DEF Tick, locals, Untouched
  <1>7. CASE UNCHANGED vars
    BY <1>7, UntouchedSilent, SilentStutters DEF vars, Untouched
  <1>8. QED
    BY <1>1, <1>2, <1>3, <1>4, <1>5, <1>6, <1>7 DEF Next

\* The product application implements the catalogue.
THEOREM Refinement == Spec => ImplementsCatalogue
  <1>1. Spec => Promise!Init /\ [][Promise!Next]_(Promise!catalogueVars)
    BY InitImplements, NextImplements, Invariance, PTL DEF Spec
  <1>2. QED
    BY <1>1 DEF ImplementsCatalogue, Promise!Spec
=============================================================================
