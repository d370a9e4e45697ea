--------------------------- MODULE PracticeProofs ---------------------------
(***************************************************************************)
(* Proofs about the practice application for any processes, products,      *)
(* files, extensions and requests: a link works once it was shown, a PUT   *)
(* that nobody overlapped has its file served, and readers are told what   *)
(* the catalogue promises.                                                 *)
(***************************************************************************)
EXTENDS PracticeProduct, TLAPS

(***************************************************************************)
(* The inductive invariant.                                                *)
(***************************************************************************)
IsCall(r, op) == call[r] # NoCall /\ call[r].op = op

\* What a request's position says about it.
StepInv(r) ==
    /\ pc[r] = "idle" => call[r] = NoCall
    /\ pc[r] = "create" => IsCall(r, "POST")
    /\ pc[r] = "get" => IsCall(r, "GET")
    /\ pc[r] \in {"put", "update"} => IsCall(r, "PUT")
    /\ pc[r] = "image" => IsCall(r, "IMAGE")
    /\ pc[r] = "done" <=> reply[r] # "none"
    /\ pc[r] # "done" => got[r] = NoProduct
    /\ call[r] # NoCall => low[r] <= Len(db[RowFor(r)])

\* What is named as an image, by a row or by an answer, is there.
LinkInv ==
    /\ \A k \in Row : \A n \in 1 .. Len(db[k]) :
          db[k][n].img # NoImage => objects[db[k][n].img] # NoBody
    /\ \A key \in shown : objects[key] # NoBody

\* Between its two calls an upload has its object in place; and if no other
\* upload overlaps it, it is its own, from then on to the answer.
UploadInv(r) ==
    /\ pc[r] = "update" => objects[KeyFor(r)] # NoBody
    /\ r \in alone =>
         /\ IsCall(r, "PUT")
         /\ \A s \in Req \ {r} : IsCall(s, "PUT") => RowFor(s) # RowFor(r)
         /\ pc[r] = "update" => objects[KeyFor(r)] = call[r].arg
         /\ pc[r] = "done" /\ reply[r] = "ok" =>
              /\ Exists(RowFor(r)) /\ Current(RowFor(r)).img = KeyFor(r)
              /\ objects[KeyFor(r)] = call[r].arg

PracticeInv ==
    /\ TypeOK
    /\ LinkInv
    /\ \A r \in Req : StepInv(r) /\ UploadInv(r)

-----------------------------------------------------------------------------
(***************************************************************************)
(* Facts about the data.                                                   *)
(***************************************************************************)
LEMMA CallFacts ==
    ASSUME TypeOK, NEW r \in Req, call[r] # NoCall
    PROVE  /\ call[r] \in Call /\ call[r].pod \in Pod /\ call[r].id \in Id
           /\ RowFor(r) \in Row
           /\ db[RowFor(r)] \in Seq(Product) /\ Len(db[RowFor(r)]) \in Nat
  <1>1. call[r] \in Call /\ call[r].pod \in Pod /\ call[r].id \in Id
    BY DEF TypeOK, Call
  <1>2. RowFor(r) \in Row
    BY <1>1, PracticeAssumption DEF RowFor
  <1>3. db[RowFor(r)] \in Seq(Product)
    BY <1>2 DEF TypeOK
  <1>4. QED
    BY <1>1, <1>2, <1>3

\* A row has a history of products.
LEMMA RowFacts ==
    ASSUME TypeOK, NEW k \in Row
    PROVE  db[k] \in Seq(Product) /\ Len(db[k]) \in Nat
  <1>1. db[k] \in Seq(Product)
    BY DEF TypeOK
  <1>2. QED
    BY <1>1

\* An upload is of a file, for a key of its own id.
LEMMA UploadFacts ==
    ASSUME TypeOK, NEW r \in Req, IsCall(r, "PUT")
    PROVE  /\ call[r].arg \in File /\ call[r].arg # NoBody
           /\ KeyFor(r) \in Key /\ KeyFor(r) # NoImage /\ KeyFor(r)[1] = call[r].id
  <1>1. call[r] \in [op : {"PUT"}, pod : Pod, id : Id, arg : File]
    BY DEF TypeOK, Call, IsCall
  <1>2. KeyFor(r) \in Key /\ KeyFor(r)[1] = call[r].id
    BY <1>1 DEF KeyFor, Key, Ext
  <1>3. QED
    BY <1>1, <1>2, PracticeAssumption

\* What a POST inserts is a product.
LEMMA CreateFacts ==
    ASSUME TypeOK, NEW r \in Req, IsCall(r, "POST")
    PROVE  [id |-> call[r].id, pay |-> Stored[call[r].arg], img |-> NoImage] \in Product
  <1>1. call[r] \in [op : {"POST"}, pod : Pod, id : Id, arg : Payload]
    BY DEF TypeOK, Call, IsCall
  <1>2. QED
    BY <1>1, PracticeAssumption DEF Product

\* A download asks for a key.
LEMMA ImageFacts ==
    ASSUME TypeOK, NEW r \in Req, IsCall(r, "IMAGE")
    PROVE  /\ <<call[r].id, call[r].arg>> \in Key
           /\ objects[<<call[r].id, call[r].arg>>] \in File \cup {NoBody}
  <1>1. call[r] \in [op : {"IMAGE"}, pod : Pod, id : Id, arg : Ext]
    BY DEF TypeOK, Call, IsCall
  <1>2. <<call[r].id, call[r].arg>> \in Key
    BY <1>1 DEF Key
  <1>3. QED
    BY <1>2 DEF TypeOK

\* The current version of a row that exists.
LEMMA CurrentFacts ==
    ASSUME TypeOK, NEW k \in Row, Exists(k)
    PROVE  /\ Len(db[k]) \in Nat \ {0}
           /\ Len(db[k]) \in 1 .. Len(db[k])
           /\ Current(k) \in Product
           /\ Current(k) = db[k][Len(db[k])]
  <1>1. db[k] \in Seq(Product)
    BY DEF TypeOK
  <1>2. Len(db[k]) \in Nat \ {0}
    BY <1>1 DEF Exists
  <1>3. QED
    BY <1>1, <1>2 DEF Current

\* Uploads of one key are uploads for one row.
LEMMA SameKeySameRow ==
    ASSUME TypeOK, NEW r \in Req, NEW s \in Req, IsCall(r, "PUT"), IsCall(s, "PUT"),
           KeyFor(r) = KeyFor(s)
    PROVE  RowFor(r) = RowFor(s)
  BY UploadFacts DEF RowFor

-----------------------------------------------------------------------------
(***************************************************************************)
(* A step of one request.                                                  *)
(***************************************************************************)
Serve(r) == Create(r) \/ Get(r) \/ Put(r) \/ Update(r) \/ Download(r)

\* Nothing that is said of s changes.
Untouched(s) ==
    /\ pc'[s] = pc[s] /\ call'[s] = call[s] /\ low'[s] = low[s]
    /\ got'[s] = got[s] /\ reply'[s] = reply[s]

\* Rows only gain versions.
Grown ==
    \A k \in Row : /\ db'[k] \in Seq(Product) /\ Len(db'[k]) >= Len(db[k])
                   /\ \A n \in 1 .. Len(db[k]) : db'[k][n] = db[k][n]

\* Histories that do not change have grown.
LEMMA GrownRefl == ASSUME TypeOK, UNCHANGED db PROVE Grown
  <1>1. \A k \in Row : db[k] \in Seq(Product) /\ Len(db[k]) \in Nat
    BY RowFacts
  <1>2. QED
    BY <1>1 DEF Grown

\* A history that grows does not get shorter.
LEMMA GrownLength ==
    ASSUME TypeOK, Grown, NEW k \in Row
    PROVE  /\ Len(db[k]) \in Nat /\ Len(db'[k]) \in Nat
           /\ Len(db'[k]) >= Len(db[k])
  <1>1. db'[k] \in Seq(Product)
    BY DEF Grown
  <1>2. Len(db'[k]) \in Nat
    BY <1>1
  <1>3. QED
    BY <1>2, RowFacts DEF Grown

\* A handler moves its own request only.
LEMMA ServeFrame ==
    ASSUME TypeOK, NEW r \in Req, Serve(r)
    PROVE  /\ UNCHANGED <<up, call, low, alone>>
           /\ \A s \in Req \ {r} : Untouched(s)
           /\ pc[r] \notin {"idle", "done"}
  BY DEF Serve, Create, Insert, Get, GetFails, Put, PutFails, Update, SetImage, Download,
         Answer, Fails, request, stores, Untouched, TypeOK

\* An INSERT adds a first version, without an image, to one row.
LEMMA InsertGrows ==
    ASSUME TypeOK, NEW r \in Req, IsCall(r, "POST"), Insert(r)
    PROVE  /\ db' \in [Row -> Seq(Product)]
           /\ Grown
           /\ \A k \in Row : k # RowFor(r) => db'[k] = db[k]
           /\ \A n \in 1 .. Len(db'[RowFor(r)]) : db'[RowFor(r)][n].img = NoImage
  <1> DEFINE new == [id |-> call[r].id, pay |-> Stored[call[r].arg], img |-> NoImage]
  <1>1. new \in Product /\ RowFor(r) \in Row /\ Len(db[RowFor(r)]) \in Nat
    BY CreateFacts, CallFacts DEF IsCall
  <1>2. new.img = NoImage
    OBVIOUS
  <1>3. db' = [db EXCEPT ![RowFor(r)] = <<new>>] /\ Len(db[RowFor(r)]) = 0
    BY <1>1 DEF Insert, Exists
  <1> HIDE DEF new
  <1>4. <<new>> \in Seq(Product) /\ Len(<<new>>) = 1 /\ <<new>>[1] = new
    BY <1>1
  <1>5. db' \in [Row -> Seq(Product)]
    BY <1>3, <1>4 DEF TypeOK
  <1>6. db'[RowFor(r)] = <<new>> /\ \A k \in Row : k # RowFor(r) => db'[k] = db[k]
    BY <1>1, <1>3 DEF TypeOK
  <1>7. \A k \in Row : db[k] \in Seq(Product) /\ Len(db[k]) \in Nat
    BY RowFacts
  <1>8. Grown
    BY <1>3, <1>5, <1>6, <1>4, <1>7 DEF Grown
  <1>9. QED
    BY <1>2, <1>4, <1>5, <1>6, <1>8

\* An UPDATE adds one version, with the image of its upload, to one row.
LEMMA SetImageGrows ==
    ASSUME TypeOK, NEW r \in Req, IsCall(r, "PUT"), SetImage(r)
    PROVE  /\ db' \in [Row -> Seq(Product)]
           /\ Grown
           /\ \A k \in Row : k # RowFor(r) => db'[k] = db[k]
           /\ Len(db'[RowFor(r)]) = Len(db[RowFor(r)]) + 1
           /\ db'[RowFor(r)][Len(db[RowFor(r)]) + 1].img = KeyFor(r)
  <1> DEFINE k0 == RowFor(r)
             new == [Current(k0) EXCEPT !.img = KeyFor(r)]
  <1>1. k0 \in Row /\ db[k0] \in Seq(Product) /\ Len(db[k0]) \in Nat
    BY CallFacts DEF IsCall
  <1>2. Current(k0) \in Product /\ KeyFor(r) \in Key
    BY <1>1, CurrentFacts, UploadFacts DEF SetImage, Changes
  <1>3. new \in Product /\ new.img = KeyFor(r)
    BY <1>2 DEF Product
  <1>4. db' = [db EXCEPT ![k0] = Append(db[k0], new)]
    BY <1>1 DEF SetImage, TypeOK
  <1> HIDE DEF k0, new
  <1>5. /\ Append(db[k0], new) \in Seq(Product)
        /\ Len(Append(db[k0], new)) = Len(db[k0]) + 1
        /\ Append(db[k0], new)[Len(db[k0]) + 1] = new
        /\ \A n \in 1 .. Len(db[k0]) : Append(db[k0], new)[n] = db[k0][n]
    BY <1>1, <1>3
  <1>6. /\ db' \in [Row -> Seq(Product)] /\ db'[k0] = Append(db[k0], new)
        /\ \A k \in Row : k # k0 => db'[k] = db[k]
    BY <1>1, <1>4, <1>5 DEF TypeOK
  <1>7. \A k \in Row : db[k] \in Seq(Product) /\ Len(db[k]) \in Nat
    BY RowFacts
  <1>8. Grown
    BY <1>1, <1>5, <1>6, <1>7 DEF Grown
  <1>9. QED
    BY <1>3, <1>5, <1>6, <1>8 DEF k0

-----------------------------------------------------------------------------
(***************************************************************************)
(* Type correctness.                                                       *)
(***************************************************************************)
LEMMA ServeType ==
    ASSUME TypeOK, NEW r \in Req, StepInv(r), Serve(r)
    PROVE  TypeOK'
  <1>1. UNCHANGED <<up, call, low, alone>>
    BY ServeFrame
  <1>2. CASE Create(r)
    <2>1. IsCall(r, "POST") /\ UNCHANGED <<objects, got, shown>>
      BY <1>2 DEF Create, StepInv, Fails
    <2>2. db' \in [Row -> Seq(Product)]
      BY <1>2, <2>1, InsertGrows DEF Create, TypeOK
    <2>3. QED
      BY <1>1, <1>2, <2>1, <2>2 DEF TypeOK, Create, Answer, Fails
  <1>3. CASE Get(r)
    <2>1. RowFor(r) \in Row /\ UNCHANGED <<db, objects>>
      BY <1>3, CallFacts DEF Get, StepInv, IsCall, stores
    <2>2. Exists(RowFor(r)) => /\ Current(RowFor(r)) \in Product
                               /\ {Current(RowFor(r)).img} \ {NoImage} \subseteq Key
      BY <2>1, CurrentFacts DEF Product
    <2>3. got' \in [Req -> Product \cup File \cup {NoProduct}] /\ shown' \subseteq Key
      BY <1>3, <2>2 DEF TypeOK, Get, GetFails, Fails
    <2>4. QED
      BY <1>1, <1>3, <2>1, <2>3 DEF TypeOK, Get, GetFails, Answer, Fails
  <1>4. CASE Put(r)
    <2>1. IsCall(r, "PUT") /\ UNCHANGED <<db, got, shown>>
      BY <1>4 DEF Put, PutFails, Fails, StepInv
    <2>2. objects' \in [Key -> File \cup {NoBody}]
      BY <1>4, <2>1, UploadFacts DEF Put, Store, TypeOK
    <2>3. QED
      BY <1>1, <1>4, <2>1, <2>2 DEF TypeOK, Put, PutFails, Answer, Fails
  <1>5. CASE Update(r)
    <2>1. IsCall(r, "PUT") /\ UNCHANGED <<objects, got>>
      BY <1>5 DEF Update, Fails, StepInv
    <2>2. db' \in [Row -> Seq(Product)]
      BY <1>5, <2>1, SetImageGrows DEF Update, TypeOK
    <2>3. shown' \subseteq Key
      BY <1>5, <2>1, UploadFacts DEF Update, Fails, TypeOK
    <2>4. QED
      BY <1>1, <1>5, <2>1, <2>2, <2>3 DEF TypeOK, Update, Answer, Fails
  <1>6. CASE Download(r)
    <2>1. IsCall(r, "IMAGE") /\ UNCHANGED <<db, objects, shown>>
      BY <1>6 DEF Download, Fails, StepInv, stores
    <2>2. got' \in [Req -> Product \cup File \cup {NoProduct}]
      BY <1>6, <2>1, ImageFacts DEF TypeOK, Download, Fails
    <2>3. QED
      BY <1>1, <1>6, <2>1, <2>2 DEF TypeOK, Download, Answer, Fails
  <1>7. QED
    BY <1>2, <1>3, <1>4, <1>5, <1>6 DEF Serve

\* Types, when a request arrives.
LEMMA ArriveType ==
    ASSUME TypeOK, NEW r \in Req, NEW c \in Call, Arrive(r, c)
    PROVE  TypeOK'
  <1>1. c.op \in {"POST", "GET", "PUT", "IMAGE"} /\ RowOf[c.id] \in Row
    BY PracticeAssumption DEF Call
  <1>2. Len(db[RowOf[c.id]]) \in Nat
    BY <1>1, RowFacts
  <1>3. FirstStep[c.op] \in {"create", "get", "put", "image"}
    BY <1>1 DEF FirstStep
  <1>4. alone' \subseteq Req
    BY DEF Arrive, TypeOK
  <1>5. QED
    BY <1>2, <1>3, <1>4 DEF TypeOK, Arrive, stores

\* Types, when requests are forgotten.
LEMMA ForgetType ==
    ASSUME TypeOK, NEW R \in SUBSET Req, Forget(R), up' \subseteq Pod,
           UNCHANGED <<stores, shown>>
    PROVE  TypeOK'
  BY DEF TypeOK, Forget, stores

\* Types, when a request is refused.
LEMMA RefuseType ==
    ASSUME TypeOK, NEW r \in Req, Refuse(r)
    PROVE  TypeOK'
  BY DEF TypeOK, Refuse, Answer, stores, request

-----------------------------------------------------------------------------
(***************************************************************************)
(* What a step does to the stores: rows grow, objects are not removed, and *)
(* only uploads change what is there, each its own row and its own key.    *)
(***************************************************************************)
LEMMA ServeStores ==
    ASSUME TypeOK, NEW r \in Req, StepInv(r), Serve(r)
    PROVE  /\ Grown
           /\ \A key \in Key : objects[key] # NoBody => objects'[key] # NoBody
           /\ \A key \in Key : objects'[key] # objects[key] =>
                 IsCall(r, "PUT") /\ key = KeyFor(r)
           /\ \A k \in Row : Exists(k) /\ db'[k] # db[k] => IsCall(r, "PUT") /\ k = RowFor(r)
  <1>1. CASE Create(r)
    <2>1. IsCall(r, "POST") /\ UNCHANGED objects
      BY <1>1 DEF Create, StepInv
    <2>2. CASE UNCHANGED db
      BY <2>1, <2>2, GrownRefl
    <2>3. CASE Insert(r)
      BY <2>1, <2>3, InsertGrows DEF Insert
    <2>4. QED
      BY <1>1, <2>2, <2>3 DEF Create
  <1>2. CASE Update(r)
    <2>1. IsCall(r, "PUT") /\ UNCHANGED objects
      BY <1>2 DEF Update, StepInv
    <2>2. CASE UNCHANGED db
      BY <2>1, <2>2, GrownRefl
    <2>3. CASE SetImage(r)
      BY <2>1, <2>3, SetImageGrows
    <2>4. QED
      BY <1>2, <2>2, <2>3 DEF Update
  <1>3. CASE Put(r)
    <2>1. IsCall(r, "PUT") /\ UNCHANGED db
      BY <1>3 DEF Put, StepInv
    <2>2. Grown
      BY <2>1, GrownRefl
    <2>3. objects' = objects \/ objects' = [objects EXCEPT ![KeyFor(r)] = call[r].arg]
      BY <1>3 DEF Put, Store
    <2>4. QED
      BY <2>1, <2>2, <2>3, UploadFacts DEF TypeOK
  <1>4. CASE Get(r) \/ Download(r)
    <2>1. UNCHANGED <<db, objects>>
      BY <1>4 DEF Get, Download, stores
    <2>2. QED
      BY <2>1, GrownRefl
  <1>5. QED
    BY <1>1, <1>2, <1>3, <1>4 DEF Serve

\* A row that keeps its versions keeps its links, if objects stay.
LEMMA LinksKept ==
    ASSUME TypeOK, LinkInv, NEW k \in Row, db'[k] = db[k],
           \A key \in Key : objects[key] # NoBody => objects'[key] # NoBody
    PROVE  \A n \in 1 .. Len(db'[k]) :
              db'[k][n].img # NoImage => objects'[db'[k][n].img] # NoBody
  <1>1. db[k] \in Seq(Product)
    BY RowFacts
  <1>2. ASSUME NEW n \in 1 .. Len(db[k]), db[k][n].img # NoImage
        PROVE  objects'[db[k][n].img] # NoBody
    <2>1. db[k][n] \in Product
      BY <1>1
    <2>2. db[k][n].img \in Key
      BY <1>2, <2>1 DEF Product
    <2>3. QED
      BY <1>2, <2>2 DEF LinkInv
  <1>3. QED
    BY <1>2

\* What is named by rows and answers is there after a handler moved.
LEMMA ServeLinks ==
    ASSUME TypeOK, LinkInv, NEW r \in Req, StepInv(r), UploadInv(r), Serve(r)
    PROVE  LinkInv'
  <1>0. \A key \in Key : objects[key] # NoBody => objects'[key] # NoBody
    BY ServeStores
  <1>1. ASSUME shown' \subseteq shown \cup {key \in Key : objects'[key] # NoBody}
        PROVE  \A key \in shown' : objects'[key] # NoBody
    BY <1>0, <1>1 DEF LinkInv, TypeOK
  <1>2. CASE Create(r)
    <2>1. IsCall(r, "POST") /\ UNCHANGED shown
      BY <1>2 DEF Create, Fails, StepInv
    <2>2. CASE UNCHANGED db
      BY <1>0, <1>1, <2>1, <2>2, LinksKept DEF LinkInv
    <2>3. CASE Insert(r)
      <3>1. \A k \in Row : k # RowFor(r) => db'[k] = db[k]
        BY <2>1, <2>3, InsertGrows
      <3>2. \A n \in 1 .. Len(db'[RowFor(r)]) : db'[RowFor(r)][n].img = NoImage
        BY <2>1, <2>3, InsertGrows
      <3>3. ASSUME NEW k \in Row
            PROVE  \A n \in 1 .. Len(db'[k]) :
                      db'[k][n].img # NoImage => objects'[db'[k][n].img] # NoBody
        <4>1. CASE k = RowFor(r)
          BY <3>2, <4>1
        <4>2. CASE k # RowFor(r)
          BY <1>0, <3>1, <4>2, LinksKept
        <4>3. QED
          BY <4>1, <4>2
      <3>4. QED
        BY <1>1, <2>1, <3>3 DEF LinkInv
    <2>4. QED
      BY <1>2, <2>2, <2>3 DEF Create
  <1>3. CASE Get(r)
    <2>1. UNCHANGED <<db, objects>> /\ RowFor(r) \in Row
      BY <1>3, CallFacts DEF Get, stores, StepInv, IsCall
    <2>2. Exists(RowFor(r)) =>
            {Current(RowFor(r)).img} \ {NoImage} \subseteq {key \in Key : objects'[key] # NoBody}
      BY <2>1, CurrentFacts DEF LinkInv, Product
    <2>3. shown' \subseteq shown \cup {key \in Key : objects'[key] # NoBody}
      BY <1>3, <2>2 DEF Get, GetFails, Fails
    <2>4. QED
      BY <1>0, <1>1, <2>1, <2>3, LinksKept DEF LinkInv
  <1>4. CASE Put(r) \/ Download(r)
    <2>1. UNCHANGED <<db, shown>>
      BY <1>4 DEF Put, PutFails, Download, Fails, stores
    <2>2. QED
      BY <1>0, <1>1, <2>1, LinksKept DEF LinkInv
  <1>5. CASE Update(r)
    <2>1. /\ IsCall(r, "PUT") /\ UNCHANGED objects
          /\ KeyFor(r) \in Key /\ objects'[KeyFor(r)] # NoBody
      BY <1>5, UploadFacts DEF Update, StepInv, UploadInv
    <2>2. shown' \subseteq shown \cup {key \in Key : objects'[key] # NoBody}
      BY <1>5, <2>1 DEF Update, Fails
    <2>3. CASE UNCHANGED db
      BY <1>0, <1>1, <2>2, <2>3, LinksKept DEF LinkInv
    <2>4. CASE SetImage(r)
      <3> DEFINE k0 == RowFor(r)
                 last == Len(db[k0]) + 1
      <3>1. /\ k0 \in Row /\ Len(db[k0]) \in Nat /\ Len(db'[k0]) = last
            /\ db'[k0][last].img = KeyFor(r)
            /\ \A k \in Row : k # k0 => db'[k] = db[k]
            /\ \A n \in 1 .. Len(db[k0]) : db'[k0][n] = db[k0][n]
        BY <2>1, <2>4, SetImageGrows, CallFacts DEF Grown, IsCall
      <3>2. ASSUME NEW k \in Row, NEW n \in 1 .. Len(db'[k]), db'[k][n].img # NoImage
            PROVE  objects'[db'[k][n].img] # NoBody
        <4>1. CASE k # k0
          BY <1>0, <3>1, <3>2, <4>1, LinksKept
        <4>2. CASE k = k0 /\ n = last
          BY <2>1, <3>1, <4>2
        <4>3. CASE k = k0 /\ n # last
          <5>1. n \in 1 .. Len(db[k0]) /\ db'[k0][n] = db[k0][n]
            BY <3>1, <3>2, <4>3
          <5>2. objects[db[k0][n].img] # NoBody
            BY <3>1, <3>2, <4>3, <5>1 DEF LinkInv
          <5>3. QED
            BY <2>1, <4>3, <5>1, <5>2
        <4>4. QED
          BY <4>1, <4>2, <4>3
      <3>3. QED
        BY <1>1, <2>2, <3>2 DEF LinkInv
    <2>5. QED
      BY <1>5, <2>3, <2>4 DEF Update
  <1>6. QED
    BY <1>2, <1>3, <1>4, <1>5 DEF Serve

-----------------------------------------------------------------------------
(***************************************************************************)
(* What a step does to what is said of requests.                           *)
(***************************************************************************)
\* Of one that another request's step leaves alone.
LEMMA OtherKept ==
    ASSUME TypeOK, NEW r \in Req, StepInv(r), Serve(r),
           NEW s \in Req \ {r}, StepInv(s), UploadInv(s)
    PROVE  StepInv(s)' /\ UploadInv(s)'
  <1>1. /\ Untouched(s) /\ UNCHANGED <<call, alone>> /\ RowFor(s)' = RowFor(s)
        /\ KeyFor(s)' = KeyFor(s)
    BY ServeFrame DEF Untouched, RowFor, KeyFor
  <1>2. call[s] # NoCall => /\ low[s] \in Nat
                            /\ Len(db[RowFor(s)]) \in Nat /\ Len(db'[RowFor(s)]) \in Nat
                            /\ Len(db'[RowFor(s)]) >= Len(db[RowFor(s)])
    <2>1. low[s] \in Nat
      BY DEF TypeOK
    <2>2. QED
      BY <2>1, CallFacts, ServeStores, GrownLength
  <1>3. ASSUME IsCall(s, "PUT"), objects[KeyFor(s)] # NoBody
        PROVE  objects'[KeyFor(s)] # NoBody
    BY <1>3, ServeStores, UploadFacts
  <1>4. StepInv(s)'
    BY <1>1, <1>2 DEF StepInv, Untouched, IsCall
  <1>5. ASSUME s \in alone
        PROVE  /\ objects'[KeyFor(s)] = objects[KeyFor(s)]
               /\ Exists(RowFor(s)) => db'[RowFor(s)] = db[RowFor(s)]
    <2>1. IsCall(s, "PUT") /\ (IsCall(r, "PUT") => RowFor(r) # RowFor(s))
      BY <1>5 DEF UploadInv
    <2>2. KeyFor(s) \in Key /\ RowFor(s) \in Row
      BY <2>1, UploadFacts, CallFacts DEF IsCall
    <2>3. IsCall(r, "PUT") => KeyFor(r) # KeyFor(s)
      BY <2>1, SameKeySameRow
    <2>4. QED
      BY <2>1, <2>2, <2>3, ServeStores
  <1>6. UploadInv(s)'
    <2>1. pc[s] = "update" => objects'[KeyFor(s)] # NoBody
      BY <1>3 DEF UploadInv, StepInv
    <2>2. ASSUME s \in alone
          PROVE  /\ IsCall(s, "PUT")'
                 /\ \A t \in Req \ {s} : IsCall(t, "PUT")' => RowFor(t)' # RowFor(s)'
                 /\ pc[s] = "update" => objects'[KeyFor(s)] = call[s].arg
      BY <1>1, <1>5, <2>2 DEF UploadInv, IsCall, RowFor
    <2>3. ASSUME s \in alone, pc[s] = "done", reply[s] = "ok"
          PROVE  /\ Exists(RowFor(s))' /\ Current(RowFor(s))'.img = KeyFor(s)
                 /\ objects'[KeyFor(s)] = call[s].arg
      BY <1>1, <1>5, <2>3 DEF UploadInv, Exists, Current
    <2>4. QED
      BY <1>1, <2>1, <2>2, <2>3 DEF UploadInv, Untouched
  <1>7. QED
    BY <1>4, <1>6

\* Of the one that makes the step.
LEMMA SelfKept ==
    ASSUME TypeOK, NEW r \in Req, StepInv(r), UploadInv(r), Serve(r)
    PROVE  StepInv(r)' /\ UploadInv(r)'
  <1>1. /\ UNCHANGED <<call, low, alone>> /\ RowFor(r)' = RowFor(r) /\ KeyFor(r)' = KeyFor(r)
        /\ call[r] # NoCall /\ got[r] = NoProduct
    BY ServeFrame DEF RowFor, KeyFor, Serve, Create, Get, Put, Update, Download, StepInv, IsCall
  <1>2. low[r] <= Len(db'[RowFor(r)])
    <2>1. low[r] <= Len(db[RowFor(r)]) /\ RowFor(r) \in Row /\ low[r] \in Nat
      BY <1>1, CallFacts DEF StepInv, TypeOK
    <2>2. /\ Len(db[RowFor(r)]) \in Nat /\ Len(db'[RowFor(r)]) \in Nat
          /\ Len(db'[RowFor(r)]) >= Len(db[RowFor(r)])
      BY <2>1, ServeStores, GrownLength
    <2>3. QED
      BY <2>1, <2>2
  <1>3. \/ pc'[r] = "done" /\ reply'[r] # "none"
        \/ Put(r) /\ pc'[r] = "update" /\ UNCHANGED <<reply, got>>
    BY DEF Serve, Create, Get, GetFails, Put, PutFails, Update, Download, Fails, Answer, TypeOK
  <1>4. StepInv(r)'
    BY <1>1, <1>2, <1>3 DEF StepInv, IsCall, Put
  <1>5. IsCall(r, "PUT") => Put(r) \/ Update(r)
    BY DEF Serve, Create, Get, Download, StepInv, IsCall
  <1>6. ASSUME pc'[r] = "update"
        PROVE  objects'[KeyFor(r)] # NoBody /\ objects'[KeyFor(r)] = call[r].arg
    <2>1. IsCall(r, "PUT") /\ Put(r)
      BY <1>3, <1>6 DEF Put, StepInv
    <2>2. Store(r)
      BY <1>6, <2>1 DEF Put, PutFails, Fails, Answer, TypeOK
    <2>3. QED
      BY <2>1, <2>2, UploadFacts DEF Store, TypeOK
  <1>7. ASSUME r \in alone, pc'[r] = "done", reply'[r] = "ok"
        PROVE  /\ Exists(RowFor(r))' /\ Current(RowFor(r))'.img = KeyFor(r)
               /\ objects'[KeyFor(r)] = call[r].arg
    <2>1. IsCall(r, "PUT") /\ Update(r)
      BY <1>5, <1>7 DEF UploadInv, Put, PutFails, Fails, Answer, TypeOK
    <2>2. SetImage(r) /\ UNCHANGED objects
      BY <1>7, <2>1 DEF Update, Fails, Answer, TypeOK
    <2>3. /\ Len(db[RowFor(r)]) \in Nat
          /\ Len(db'[RowFor(r)]) = Len(db[RowFor(r)]) + 1
          /\ db'[RowFor(r)][Len(db[RowFor(r)]) + 1].img = KeyFor(r)
      BY <1>1, <2>1, <2>2, SetImageGrows, CallFacts
    <2>4. objects[KeyFor(r)] = call[r].arg
      BY <1>7, <2>1 DEF UploadInv, Update
    <2>5. QED
      BY <1>1, <2>2, <2>3, <2>4 DEF Exists, Current
  <1>8. UploadInv(r)'
    <2>1. ASSUME r \in alone
          PROVE  /\ IsCall(r, "PUT")'
                 /\ \A s \in Req \ {r} : IsCall(s, "PUT")' => RowFor(s)' # RowFor(r)'
      BY <1>1, <2>1 DEF UploadInv, IsCall, RowFor
    <2>2. QED
      BY <1>1, <1>6, <1>7, <2>1 DEF UploadInv
  <1>9. QED
    BY <1>4, <1>8

\* A handler that moves keeps the invariant.
LEMMA ServeKeeps ==
    ASSUME PracticeInv, NEW r \in Req, Serve(r)
    PROVE  PracticeInv'
  <1>1. TypeOK' /\ LinkInv'
    BY ServeType, ServeLinks DEF PracticeInv
  <1>2. \A s \in Req : StepInv(s)' /\ UploadInv(s)'
    BY OtherKept, SelfKept DEF PracticeInv
  <1>3. QED
    BY <1>1, <1>2 DEF PracticeInv

-----------------------------------------------------------------------------
(***************************************************************************)
(* Requests come and go, with their process or alone.                      *)
(***************************************************************************)
\* What is said of a request depends on the stores and on itself, unless no other
\* upload overlaps it.
LEMMA UntouchedKept ==
    ASSUME NEW s \in Req, StepInv(s), UploadInv(s), Untouched(s), UNCHANGED stores,
           s \in alone' => s \in alone,
           s \in alone' => \A t \in Req \ {s} : IsCall(t, "PUT")' => RowFor(t)' # RowFor(s)
    PROVE  StepInv(s)' /\ UploadInv(s)'
  <1>1. RowFor(s)' = RowFor(s) /\ KeyFor(s)' = KeyFor(s) /\ UNCHANGED <<db, objects>>
    BY DEF Untouched, RowFor, KeyFor, stores
  <1>2. StepInv(s)'
    BY <1>1 DEF StepInv, Untouched, IsCall
  <1>3. UploadInv(s)'
    BY <1>1 DEF UploadInv, Untouched, IsCall, Exists, Current
  <1>4. QED
    BY <1>2, <1>3

\* Links work as before when neither stores nor answers change.
LEMMA LinksStay == ASSUME LinkInv, UNCHANGED <<stores, shown>> PROVE LinkInv'
  BY DEF LinkInv, stores

\* A request that arrives overlaps with all for its row.
LEMMA ArriveKeeps ==
    ASSUME PracticeInv, NEW r \in Req, NEW c \in Call, Arrive(r, c)
    PROVE  PracticeInv'
  <1>1. TypeOK' /\ LinkInv'
    BY ArriveType, LinksStay DEF PracticeInv, Arrive
  <1>2. /\ c # NoCall /\ c.op \in {"POST", "GET", "PUT", "IMAGE"} /\ RowOf[c.id] \in Row
        /\ pc[r] = "idle" /\ call[r] = NoCall /\ r \notin alone /\ reply[r] = "none"
        /\ got[r] = NoProduct
    BY PracticeAssumption DEF Call, PracticeInv, StepInv, UploadInv, Arrive, IsCall, TypeOK
  <1>3. /\ call'[r] = c /\ RowFor(r)' = RowOf[c.id] /\ low'[r] = Len(db[RowOf[c.id]])
        /\ pc'[r] = FirstStep[c.op] /\ reply'[r] = "none" /\ got'[r] = NoProduct
        /\ UNCHANGED stores
        /\ \A s \in Req \ {r} : Untouched(s)
    BY <1>2 DEF PracticeInv, TypeOK, Arrive, RowFor, Untouched
  <1>4. ASSUME NEW s \in Req \ {r} PROVE StepInv(s)' /\ UploadInv(s)'
    <2>1. s \in alone' => s \in alone
      BY DEF Arrive
    <2>2. ASSUME s \in alone', NEW t \in Req \ {s}, IsCall(t, "PUT")'
          PROVE  RowFor(t)' # RowFor(s)
      <3>1. IsCall(s, "PUT")
        BY <2>1, <2>2 DEF PracticeInv, UploadInv
      <3>2. CASE t # r
        BY <1>3, <2>1, <2>2, <3>2 DEF PracticeInv, UploadInv, Untouched, IsCall, RowFor
      <3>3. CASE t = r
        <4>1. c.op = "PUT"
          BY <1>3, <2>2, <3>3 DEF IsCall
        <4>2. s \notin Puts(RowOf[c.id])
          BY <2>2, <4>1 DEF Arrive
        <4>3. QED
          BY <1>3, <3>1, <3>3, <4>2 DEF Puts, IsCall
      <3>4. QED
        BY <3>2, <3>3
    <2>3. QED
      BY <1>3, <2>1, <2>2, UntouchedKept DEF PracticeInv
  <1>5. StepInv(r)'
    <2>1. db'[RowOf[c.id]] = db[RowOf[c.id]] /\ Len(db[RowOf[c.id]]) \in Nat
      BY <1>2, <1>3, RowFacts DEF PracticeInv, stores
    <2>2. QED
      BY <1>2, <1>3, <2>1 DEF StepInv, IsCall, FirstStep
  <1>6. UploadInv(r)'
    <2>1. pc'[r] \notin {"update", "done"}
      BY <1>2, <1>3 DEF FirstStep
    <2>2. ASSUME r \in alone'
          PROVE  /\ IsCall(r, "PUT")'
                 /\ \A s \in Req \ {r} : IsCall(s, "PUT")' => RowFor(s)' # RowFor(r)'
      <3>1. c.op = "PUT" /\ Puts(RowOf[c.id]) = {}
        BY <1>2, <2>2 DEF Arrive
      <3>2. QED
        BY <1>2, <1>3, <3>1 DEF Puts, IsCall, Untouched, RowFor
    <2>3. QED
      BY <2>1, <2>2 DEF UploadInv
  <1>7. QED
    BY <1>1, <1>4, <1>5, <1>6 DEF PracticeInv

\* Requests that end or die leave the others as they were.
LEMMA ForgetKeeps ==
    ASSUME PracticeInv, NEW R \in SUBSET Req, Forget(R), up' \subseteq Pod,
           UNCHANGED <<stores, shown>>
    PROVE  PracticeInv'
  <1>1. TypeOK' /\ LinkInv'
    BY ForgetType, LinksStay DEF PracticeInv
  <1>2. ASSUME NEW s \in R PROVE StepInv(s)' /\ UploadInv(s)'
    BY DEF Forget, StepInv, UploadInv, IsCall
  <1>3. ASSUME NEW s \in Req, s \notin R PROVE StepInv(s)' /\ UploadInv(s)'
    <2>1. Untouched(s) /\ (s \in alone' => s \in alone)
      BY <1>3 DEF Forget, Untouched
    <2>2. \A t \in Req : IsCall(t, "PUT")' => IsCall(t, "PUT") /\ RowFor(t)' = RowFor(t)
      BY DEF Forget, IsCall, RowFor
    <2>3. QED
      BY <2>1, <2>2, UntouchedKept DEF PracticeInv, UploadInv
  <1>4. QED
    BY <1>1, <1>2, <1>3 DEF PracticeInv

\* A request refused has touched nothing.
LEMMA RefuseKeeps ==
    ASSUME PracticeInv, NEW r \in Req, Refuse(r)
    PROVE  PracticeInv'
  <1>1. TypeOK' /\ LinkInv'
    BY RefuseType, LinksStay DEF PracticeInv, Refuse
  <1>2. ASSUME NEW s \in Req \ {r} PROVE StepInv(s)' /\ UploadInv(s)'
    <2>1. Untouched(s) /\ UNCHANGED <<call, alone, stores>>
      BY DEF PracticeInv, TypeOK, Refuse, Answer, request, Untouched
    <2>2. QED
      BY <2>1, UntouchedKept DEF PracticeInv, UploadInv, IsCall, RowFor
  <1>3. StepInv(r)' /\ UploadInv(r)'
    BY DEF PracticeInv, TypeOK, StepInv, UploadInv, IsCall, Refuse, Answer, request
  <1>4. QED
    BY <1>1, <1>2, <1>3 DEF PracticeInv

-----------------------------------------------------------------------------
(***************************************************************************)
(* The theorems about its state.                                           *)
(***************************************************************************)
LEMMA PracticeInit == Init => PracticeInv
  <1> SUFFICES ASSUME Init PROVE PracticeInv
    OBVIOUS
  <1>1. TypeOK
    BY DEF Init, TypeOK
  <1>2. LinkInv /\ \A r \in Req : StepInv(r) /\ UploadInv(r)
    BY DEF Init, LinkInv, StepInv, UploadInv, IsCall
  <1>3. QED
    BY <1>1, <1>2 DEF PracticeInv

\* Every step keeps the invariant.
LEMMA PracticeNext == PracticeInv /\ [Next]_vars => PracticeInv'
  <1> SUFFICES ASSUME PracticeInv, [Next]_vars PROVE PracticeInv'
    OBVIOUS
  <1>1. ASSUME NEW p \in Pod, Listen(p) PROVE PracticeInv'
    <2>1. TypeOK' /\ LinkInv'
      BY <1>1, LinksStay DEF PracticeInv, TypeOK, Listen, stores, request
    <2>2. \A s \in Req : StepInv(s)' /\ UploadInv(s)'
      BY <1>1, UntouchedKept
         DEF PracticeInv, Listen, request, Untouched, UploadInv, IsCall, RowFor
    <2>3. QED
      BY <2>1, <2>2 DEF PracticeInv
  <1>2. ASSUME NEW p \in Pod, Stop(p) PROVE PracticeInv'
    <2>1. up' \subseteq Pod
      BY <1>2 DEF PracticeInv, TypeOK, Stop
    <2>2. QED
      BY <1>2, <2>1, ForgetKeeps DEF Stop
  <1>3. ASSUME NEW r \in Req, NEW c \in Call, Arrive(r, c) PROVE PracticeInv'
    BY <1>3, ArriveKeeps
  <1>4. ASSUME NEW r \in Req, Refuse(r) PROVE PracticeInv'
    BY <1>4, RefuseKeeps
  <1>5. ASSUME NEW r \in Req, Return(r) PROVE PracticeInv'
    <2>1. up' \subseteq Pod
      BY <1>5 DEF PracticeInv, TypeOK, Return
    <2>2. QED
      BY <1>5, <2>1, ForgetKeeps DEF Return
  <1>6. ASSUME NEW r \in Req, Serve(r) PROVE PracticeInv'
    BY <1>6, ServeKeeps
  <1>7. CASE UNCHANGED vars
    <2>1. UNCHANGED <<up, db, objects, pc, call, low, got, reply, alone, shown>>
      BY <1>7 DEF vars
    <2>2. TypeOK' /\ LinkInv'
      BY <2>1, LinksStay DEF PracticeInv, TypeOK, stores
    <2>3. \A s \in Req : StepInv(s)' /\ UploadInv(s)'
      BY <2>1, UntouchedKept DEF PracticeInv, stores, Untouched, UploadInv, IsCall, RowFor
    <2>4. QED
      BY <2>2, <2>3 DEF PracticeInv
  <1>8. QED
    BY <1>1, <1>2, <1>3, <1>4, <1>5, <1>6, <1>7 DEF Next, Serve

\* Every reachable state satisfies the inductive invariant.
THEOREM PracticeInvariance == Spec => []PracticeInv
  BY PracticeInit, PracticeNext, PTL DEF Spec

\* The variables keep their types.
THEOREM PracticeTypes == Spec => []TypeOK
  <1>1. PracticeInv => TypeOK
    BY DEF PracticeInv
  <1>2. QED
    BY <1>1, PracticeInvariance, PTL

\* A PUT that was told 200 and that no other PUT overlapped has its own file behind
\* the product's link, whatever other uploads used the same key before.
THEOREM FileServed == Spec => []AckedFileServed
  <1>1. PracticeInv => AckedFileServed
    BY DEF PracticeInv, TypeOK, UploadInv, AckedFileServed
  <1>2. QED
    BY <1>1, PracticeInvariance, PTL

\* A step that answers 404 to a download is about a link never shown.
LEMMA LinksWork ==
    PracticeInv /\ [Next]_vars =>
        \A r \in Req : reply[r] = "none" /\ reply'[r] = "not found" /\ call[r].op = "IMAGE"
                          => <<call[r].id, call[r].arg>> \notin shown
  <1> SUFFICES ASSUME PracticeInv, [Next]_vars,
                      NEW r \in Req, reply[r] = "none", reply'[r] = "not found",
                      call[r].op = "IMAGE"
               PROVE  <<call[r].id, call[r].arg>> \notin shown
    OBVIOUS
  <1>1. Serve(r)
    <2>1. ASSUME NEW s \in Req, Serve(s) PROVE s = r
      BY <2>1, ServeFrame DEF PracticeInv, Untouched
    <2>2. ~ \E p \in Pod : Listen(p) \/ Stop(p)
      BY DEF Listen, Stop, Forget
    <2>3. ~ \E s \in Req : Refuse(s) \/ Return(s) \/ \E c \in Call : Arrive(s, c)
      BY DEF Refuse, Return, Arrive, Forget, Answer, PracticeInv, TypeOK
    <2>4. reply' # reply
      OBVIOUS
    <2>5. QED
      BY <2>1, <2>2, <2>3, <2>4 DEF Next, Serve, vars
  <1>2. Download(r)
    BY <1>1 DEF Serve, Create, Get, Put, Update, PracticeInv, StepInv, IsCall
  <1>3. objects[<<call[r].id, call[r].arg>>] = NoBody
    BY <1>2 DEF Download, Fails, Answer, PracticeInv, TypeOK
  <1>4. QED
    BY <1>3 DEF PracticeInv, LinkInv

\* A link that a client was once given is never answered 404.
THEOREM LinksAlwaysWork == Spec => ShownLinksWork
  BY LinksWork, PracticeInvariance, PTL DEF Spec, ShownLinksWork

-----------------------------------------------------------------------------
(***************************************************************************)
(* It implements the catalogue: arrivals of reads, commits, answers to     *)
(* reads and ends of requests are seen, all other steps stutter.           *)
(***************************************************************************)
Silent(r) == Question(r)' = Question(r) /\ Told(r)' = Told(r)

\* A request that is not touched is asked and told nothing.
LEMMA UntouchedSilent == ASSUME NEW r \in Req, Untouched(r) PROVE Silent(r)
  BY DEF Untouched, Silent, Question, Told, RowFor

\* If nobody is told anything and no row changes, the catalogue stutters.
LEMMA SilentStutters ==
    ASSUME UNCHANGED db, \A r \in Req : Silent(r)
    PROVE  UNCHANGED Promise!catalogueVars
  BY DEF Silent, Promise!catalogueVars

\* A handler that moves tells nothing to other requests.
LEMMA OthersSilent ==
    ASSUME TypeOK, NEW r \in Req, Serve(r)
    PROVE  (\A s \in Req \ {r} : Silent(s)) /\ Question(r)' = Question(r)
  BY ServeFrame, UntouchedSilent DEF Question, RowFor

\* A step for a request that is no read tells nobody anything.
LEMMA WriteSilent ==
    ASSUME TypeOK, NEW r \in Req, Serve(r), ~IsCall(r, "GET")
    PROVE  \A s \in Req : Silent(s)
  <1>1. Told(r) = NoCall /\ Told(r)' = NoCall
    BY ServeFrame DEF Told, IsCall
  <1>2. QED
    BY <1>1, OthersSilent DEF Silent

\* An INSERT that commits creates a row of the catalogue.
LEMMA CreateImplements ==
    ASSUME TypeOK, NEW r \in Req, StepInv(r), Create(r)
    PROVE  [Promise!Next]_(Promise!catalogueVars)
  <1>1. IsCall(r, "POST") /\ \A s \in Req : Silent(s)
    BY WriteSilent DEF Create, StepInv, Serve, IsCall
  <1>2. CASE UNCHANGED db
    BY <1>1, <1>2, SilentStutters
  <1>3. CASE Insert(r)
    <2>1. call[r] \in [op : {"POST"}, pod : Pod, id : Id, arg : Payload]
      BY <1>1 DEF TypeOK, Call, IsCall
    <2>2. /\ RowFor(r) \in Row /\ call[r].id \in Id /\ call[r].arg \in Payload
          /\ db[RowFor(r)] \in Seq(Product) /\ Len(db[RowFor(r)]) = 0
      BY <1>1, <1>3, <2>1, CallFacts DEF IsCall, Insert, Exists
    <2>3. db[RowFor(r)] = <<>>
      BY <2>2
    <2>4. Append(db[RowFor(r)], [id |-> call[r].id, pay |-> Stored[call[r].arg], img |-> NoImage])
            = <<[id |-> call[r].id, pay |-> Stored[call[r].arg], img |-> NoImage]>>
      BY <2>3
    <2>5. Promise!Create(RowFor(r), call[r].id, call[r].arg)
      BY <1>1, <1>3, <2>2, <2>4 DEF Promise!Create, Silent, Insert, RowFor
    <2>6. QED
      BY <2>2, <2>5 DEF Promise!Next
  <1>4. QED
    BY <1>2, <1>3 DEF Create

\* An UPDATE that commits sets an image of the catalogue.
LEMMA UpdateImplements ==
    ASSUME TypeOK, NEW r \in Req, StepInv(r), Update(r)
    PROVE  [Promise!Next]_(Promise!catalogueVars)
  <1>1. IsCall(r, "PUT") /\ \A s \in Req : Silent(s)
    BY WriteSilent DEF Update, StepInv, Serve, IsCall
  <1>2. CASE UNCHANGED db
    BY <1>1, <1>2, SilentStutters
  <1>3. CASE SetImage(r)
    <2>1. RowFor(r) \in Row /\ KeyFor(r) \in Key
      BY <1>1, CallFacts, UploadFacts DEF IsCall
    <2>2. Promise!SetImage(RowFor(r), KeyFor(r))
      BY <1>1, <1>3 DEF Promise!SetImage, Silent, SetImage, Changes, Exists, Current
    <2>3. QED
      BY <2>1, <2>2 DEF Promise!Next
  <1>4. QED
    BY <1>2, <1>3 DEF Update

\* A GET is told the current version, or that there is none.
LEMMA GetImplements ==
    ASSUME TypeOK, NEW r \in Req, StepInv(r), Get(r)
    PROVE  [Promise!Next]_(Promise!catalogueVars)
  <1> DEFINE k == RowFor(r)
  <1>1. /\ IsCall(r, "GET") /\ call[r] # NoCall /\ got[r] = NoProduct /\ reply[r] = "none"
        /\ Serve(r) /\ UNCHANGED <<db, call>>
    BY DEF Get, StepInv, Serve, IsCall, stores, request, TypeOK
  <1>2. /\ k \in Row /\ low[r] \in Nat /\ Len(db[k]) \in Nat /\ low[r] <= Len(db[k])
    BY <1>1, CallFacts DEF TypeOK, StepInv
  <1>3. /\ Question(r) = [row |-> k, low |-> low[r]] /\ Question(r) # NoCall
        /\ Told(r) = NoCall
    BY <1>1, <1>2, PracticeAssumption DEF Question, Told, IsCall
  <1>4. Promise!Open(r)
    BY <1>3 DEF Promise!Open
  <1>5. ASSUME NEW how, NEW prod, Told(r)' = [how |-> how, prod |-> prod]
        PROVE  Promise!Tell(r, how, prod)
    BY <1>1, <1>5, OthersSilent DEF Promise!Tell, Silent
  <1>6. CASE /\ Exists(k) /\ got' = [got EXCEPT ![r] = Current(k)] /\ Answer(r, "ok")
    <2>1. Told(r)' = [how |-> "ok", prod |-> db[k][Len(db[k])]]
      BY <1>1, <1>6 DEF Told, Answer, TypeOK, Current, IsCall
    <2>2. Len(db[k]) \in 1 .. Len(db[k])
      BY <1>2, <1>6 DEF Exists
    <2>3. Promise!Tell(r, "ok", db[k][Len(db[k])])
      BY <1>5, <2>1
    <2>4. Len(db[k]) \in 1 .. Len(db[Question(r).row]) /\ Len(db[k]) >= Question(r).low
      BY <1>2, <1>3, <2>2
    <2>5. Question(r).row = k
      BY <1>3
    <2> HIDE DEF k
    <2>6. Promise!TellFresh(r)
      BY <1>4, <2>3, <2>4, <2>5 DEF Promise!TellFresh
    <2>7. QED
      BY <2>6 DEF Promise!Next
  <1>7. CASE ~Exists(k) /\ Answer(r, "not found") /\ UNCHANGED got
    <2>1. Told(r)' = [how |-> "not found", prod |-> NoProduct]
      BY <1>1, <1>7 DEF Told, Answer, TypeOK, IsCall
    <2>2. Question(r).low = 0
      <3>1. ~(Len(db[k]) > 0)
        BY <1>7 DEF Exists
      <3>2. low[r] = 0
        <4> HIDE DEF k
        <4>1. QED
          BY <1>2, <3>1
      <3>3. QED
        BY <1>3, <3>2
    <2>3. Promise!TellMissing(r)
      BY <1>4, <1>5, <2>1, <2>2 DEF Promise!TellMissing
    <2>4. QED
      BY <2>3 DEF Promise!Next
  <1>8. CASE Fails(r)
    <2>1. Told(r)' = NoCall
      BY <1>1, <1>8 DEF Told, Fails, Answer, TypeOK
    <2>2. QED
      BY <1>1, <1>3, <2>1, OthersSilent, SilentStutters DEF Silent
  <1>9. QED
    BY <1>6, <1>7, <1>8 DEF Get, GetFails

\* A GET that arrives is a question.
LEMMA ArriveImplements ==
    ASSUME PracticeInv, NEW r \in Req, NEW c \in Call, Arrive(r, c)
    PROVE  [Promise!Next]_(Promise!catalogueVars)
  <1>1. /\ c # NoCall /\ RowOf[c.id] \in Row /\ call[r] = NoCall /\ reply[r] = "none"
        /\ call'[r] = c /\ low'[r] = Len(db[RowOf[c.id]]) /\ reply'[r] = "none"
        /\ UNCHANGED db
        /\ \A s \in Req \ {r} : Untouched(s)
    BY PracticeAssumption DEF Call, PracticeInv, StepInv, TypeOK, Arrive, Untouched, stores
  <1>2. Question(r) = NoCall /\ Told(r) = NoCall /\ Told(r)' = NoCall
    BY <1>1 DEF Question, Told
  <1>3. CASE c.op = "GET"
    <2>1. Question(r)' = [row |-> RowOf[c.id], low |-> Len(db[RowOf[c.id]])]
      BY <1>1, <1>3 DEF Question, RowFor
    <2>2. Promise!Ask(r, RowOf[c.id])
      BY <1>1, <1>2, <2>1, UntouchedSilent DEF Promise!Ask, Silent
    <2>3. QED
      BY <1>1, <2>2 DEF Promise!Next
  <1>4. CASE c.op # "GET"
    <2>1. Silent(r)
      BY <1>1, <1>2, <1>4 DEF Silent, Question
    <2>2. QED
      BY <1>1, <2>1, UntouchedSilent, SilentStutters
  <1>5. QED
    BY <1>3, <1>4

\* Requests that are forgotten leave.
LEMMA ForgetImplements ==
    ASSUME NEW R \in SUBSET Req, Forget(R), UNCHANGED db
    PROVE  Promise!Next
  <1>1. \A r \in Req : r \notin R => Silent(r)
    BY UntouchedSilent DEF Forget, Untouched
  <1>2. \A r \in R : Question(r)' = NoCall /\ Told(r)' = NoCall
    BY DEF Forget, Question, Told
  <1>3. Promise!Leave(R)
    BY <1>1, <1>2 DEF Promise!Leave, Silent
  <1>4. QED
    BY <1>3 DEF Promise!Next

\* The catalogue starts empty.
LEMMA PromiseInit == Init => Promise!Init
  BY DEF Init, Promise!Init, Question, Told

\* Every step is one of the catalogue or none.
LEMMA PromiseNext == PracticeInv /\ [Next]_vars => [Promise!Next]_(Promise!catalogueVars)
  <1> SUFFICES ASSUME PracticeInv, [Next]_vars
               PROVE  [Promise!Next]_(Promise!catalogueVars)
    OBVIOUS
  <1>0. TypeOK /\ \A r \in Req : StepInv(r)
    BY DEF PracticeInv
  <1>1. ASSUME NEW r \in Req, NEW c \in Call, Arrive(r, c)
        PROVE  [Promise!Next]_(Promise!catalogueVars)
    BY <1>1, ArriveImplements
  <1>2. ASSUME NEW r \in Req, Create(r) \/ Get(r) \/ Update(r)
        PROVE  [Promise!Next]_(Promise!catalogueVars)
    BY <1>0, <1>2, CreateImplements, GetImplements, UpdateImplements
  <1>3. ASSUME NEW r \in Req, Put(r) \/ Download(r)
        PROVE  UNCHANGED Promise!catalogueVars
    <2>1. UNCHANGED db /\ Serve(r) /\ ~IsCall(r, "GET")
      BY <1>0, <1>3 DEF Put, Download, stores, Serve, StepInv, IsCall
    <2>2. QED
      BY <1>0, <2>1, WriteSilent, SilentStutters
  <1>4. ASSUME NEW r \in Req, Return(r) PROVE Promise!Next
    BY <1>4, ForgetImplements DEF Return, stores
  <1>5. ASSUME NEW p \in Pod, Stop(p) PROVE Promise!Next
    <2>1. {r \in Req : call[r] # NoCall /\ call[r].pod = p} \in SUBSET Req
      OBVIOUS
    <2>2. QED
      BY <1>5, <2>1, ForgetImplements DEF Stop, stores
  <1>6. ASSUME NEW p \in Pod, Listen(p) PROVE UNCHANGED Promise!catalogueVars
    BY <1>6, UntouchedSilent, SilentStutters DEF Listen, stores, request, Untouched
  <1>7. ASSUME NEW r \in Req, Refuse(r) PROVE UNCHANGED Promise!catalogueVars
    <2>1. UNCHANGED db /\ \A s \in Req \ {r} : Untouched(s)
      BY <1>0, <1>7 DEF Refuse, Answer, stores, request, TypeOK, Untouched
    <2>2. Silent(r)
      BY <1>0, <1>7 DEF Refuse, request, StepInv, Silent, Question, Told
    <2>3. QED
      BY <2>1, <2>2, UntouchedSilent, SilentStutters
  <1>8. CASE UNCHANGED vars
    BY <1>8, UntouchedSilent, SilentStutters DEF vars, Untouched
  <1>9. QED
    BY <1>1, <1>2, <1>3, <1>4, <1>5, <1>6, <1>7, <1>8 DEF Next

\* The practice application implements the catalogue: reads show committed versions,
\* none older than when they were asked, and "not found" only what was missing then.
THEOREM PracticeRefinement == Spec => ImplementsCatalogue
  <1>1. Spec => Promise!Init /\ [][Promise!Next]_(Promise!catalogueVars)
    BY PromiseInit, PromiseNext, PracticeInvariance, PTL DEF Spec
  <1>2. QED
    BY <1>1 DEF ImplementsCatalogue, Promise!Spec

=============================================================================
