-------------------------- MODULE PracticeProduct --------------------------
(***************************************************************************)
(* The practice product application (application/pjm/practice-app):        *)
(* POST, GET and PUT /v1/product and GET /images/<key>, over a MySQL table *)
(* and an object store, with no cache.  An object's key is the product's   *)
(* id and the extension of the uploaded file, so uploads may replace each  *)
(* other's objects; bodies are modelled, a body being the file it was.     *)
(*                                                                         *)
(* Each call of Repo and Storage is one step; the storage package is not   *)
(* in the repository and is modelled from the handlers' use of it.         *)
(***************************************************************************)
EXTENDS Integers, Sequences, FiniteSets

CONSTANTS
    Pod,          \* processes that serve
    Id,           \* ids as clients spell them
    Row,          \* primary keys
    RowOf,        \* the row of a spelling under the column's collation
    File,         \* uploaded files
    Extension,    \* strings.ToLower(path.Ext(name)) of a file; may be NoExt
    Jpg,          \* ".jpg"
    Payload,      \* (name, price) pairs
    Stored,       \* what FLOAT(8) keeps of them
    Req,          \* requests in flight
    MaxVersions,  \* bound: a row changes at most this often
    NoExt, NoImage, NoArg, NoCall, NoProduct, NoBody

Ext == ({Extension[f] : f \in File} \ {NoExt}) \cup {Jpg}
Key == Id \X Ext
Product == [id : Id, pay : Payload, img : Key \cup {NoImage}]

Call ==
    [op : {"POST"}, pod : Pod, id : Id, arg : Payload] \cup
    [op : {"GET"}, pod : Pod, id : Id, arg : {NoArg}] \cup
    [op : {"PUT"}, pod : Pod, id : Id, arg : File] \cup
    [op : {"IMAGE"}, pod : Pod, id : Id, arg : Ext]

ASSUME PracticeAssumption ==
    /\ IsFiniteSet(Req)
    /\ RowOf \in [Id -> Row]
    /\ Stored \in [Payload -> Payload]
    /\ MaxVersions \in Nat
    /\ NoImage \notin Key
    /\ NoCall \notin Call
    /\ NoCall \notin [row : Row, low : Nat]
    /\ NoProduct \notin Product
    /\ NoBody \notin File

VARIABLES
    up,       \* pods whose main has reached the database and listens
    db,       \* db[k]: the versions of row k; the last is the row
    objects,  \* objects[key]: the body stored under a key, or NoBody
    pc,       \* a request's next step
    call,     \* the request
    low,      \* the number of versions its row had when it arrived
    got,      \* the product or the body it was answered with
    reply,    \* the status it was answered with
    alone,    \* PUTs whose row has seen no other PUT since they arrived
    shown     \* keys that some answer has named as an image

vars == <<up, db, objects, pc, call, low, got, reply, alone, shown>>
stores == <<db, objects>>
request == <<call, low, alone>>

TypeOK ==
    /\ up \subseteq Pod
    /\ db \in [Row -> Seq(Product)]
    /\ objects \in [Key -> File \cup {NoBody}]
    /\ pc \in [Req -> {"idle", "create", "get", "put", "update", "image", "done"}]
    /\ call \in [Req -> Call \cup {NoCall}]
    /\ low \in [Req -> Nat]
    /\ got \in [Req -> Product \cup File \cup {NoProduct}]
    /\ reply \in [Req -> {"none", "bad request", "created", "ok", "not found", "error"}]
    /\ alone \subseteq Req
    /\ shown \subseteq Key

Init ==
    /\ up = {}
    /\ db = [k \in Row |-> <<>>]
    /\ objects = [key \in Key |-> NoBody]
    /\ pc = [r \in Req |-> "idle"]
    /\ call = [r \in Req |-> NoCall]
    /\ low = [r \in Req |-> 0]
    /\ got = [r \in Req |-> NoProduct]
    /\ reply = [r \in Req |-> "none"]
    /\ alone = {}
    /\ shown = {}

-----------------------------------------------------------------------------
RowFor(r) == RowOf[call[r].id]
Exists(k) == Len(db[k]) > 0
Current(k) == db[k][Len(db[k])]

\* Variant: no default extension.
KeyUndefaulted(r) == <<call[r].id, Extension[call[r].arg]>>

KeyFor(r) ==
    <<call[r].id, IF Extension[call[r].arg] = NoExt THEN Jpg ELSE Extension[call[r].arg]>>

Puts(k) == {r \in Req : call[r] # NoCall /\ call[r].op = "PUT" /\ RowFor(r) = k}

PendingWrites(k) == {r \in Req : pc[r] \in {"create", "put", "update"} /\ RowFor(r) = k}

Answer(r, status) ==
    /\ pc' = [pc EXCEPT ![r] = "done"]
    /\ reply' = [reply EXCEPT ![r] = status]

Fails(r) == Answer(r, "error") /\ UNCHANGED <<got, shown>>

-----------------------------------------------------------------------------
(***************************************************************************)
(* main: the process listens once the database has answered a ping, and    *)
(* ends on a signal without waiting for the requests it serves.            *)
(***************************************************************************)
Listen(p) ==
    /\ p \notin up
    /\ up' = up \cup {p}
    /\ UNCHANGED <<stores, request, pc, got, reply, shown>>

Forget(R) ==
    /\ pc' = [r \in Req |-> IF r \in R THEN "idle" ELSE pc[r]]
    /\ call' = [r \in Req |-> IF r \in R THEN NoCall ELSE call[r]]
    /\ low' = [r \in Req |-> IF r \in R THEN 0 ELSE low[r]]
    /\ got' = [r \in Req |-> IF r \in R THEN NoProduct ELSE got[r]]
    /\ reply' = [r \in Req |-> IF r \in R THEN "none" ELSE reply[r]]
    /\ alone' = alone \ R

Stop(p) ==
    /\ p \in up
    /\ up' = up \ {p}
    /\ Forget({r \in Req : call[r] # NoCall /\ call[r].pod = p})
    /\ UNCHANGED <<stores, shown>>

-----------------------------------------------------------------------------
FirstStep == [POST |-> "create", GET |-> "get", PUT |-> "put", IMAGE |-> "image"]

Arrive(r, c) ==
    /\ c.pod \in up
    /\ pc[r] = "idle"
    /\ c.op \in {"POST", "PUT"} =>
         Len(db[RowOf[c.id]]) + Cardinality(PendingWrites(RowOf[c.id])) < MaxVersions
    /\ call' = [call EXCEPT ![r] = c]
    /\ low' = [low EXCEPT ![r] = Len(db[RowOf[c.id]])]
    /\ alone' = IF c.op # "PUT" THEN alone
                ELSE IF Puts(RowOf[c.id]) = {} THEN alone \cup {r}
                ELSE alone \ Puts(RowOf[c.id])
    /\ pc' = [pc EXCEPT ![r] = FirstStep[c.op]]
    /\ UNCHANGED <<up, stores, got, reply, shown>>

\* A request without a requestid, uuid, id, name, positive price, image or key.
Refuse(r) ==
    /\ pc[r] = "idle"
    /\ Answer(r, "bad request")
    /\ UNCHANGED <<up, stores, request, got, shown>>

\* create, Repo.Create: a statement that fails may have committed.
Insert(r) ==
    /\ ~Exists(RowFor(r))
    /\ db' = [db EXCEPT ![RowFor(r)] =
                <<[id |-> call[r].id, pay |-> Stored[call[r].arg], img |-> NoImage]>>]

Create(r) ==
    /\ pc[r] = "create"
    /\ \/ Insert(r) /\ Answer(r, "created") /\ UNCHANGED <<got, shown>>
       \/ Insert(r) /\ Fails(r)
       \/ Fails(r) /\ UNCHANGED db
    /\ UNCHANGED <<up, objects, request>>

\* Variant: any error is taken for ErrNotFound.
GetFailsAsMissing(r) == Answer(r, "not found") /\ UNCHANGED <<got, shown>>

GetFails(r) == Fails(r)

Get(r) ==
    /\ pc[r] = "get"
    /\ \/ /\ Exists(RowFor(r))
          /\ got' = [got EXCEPT ![r] = Current(RowFor(r))]
          /\ shown' = shown \cup ({Current(RowFor(r)).img} \ {NoImage})
          /\ Answer(r, "ok")
       \/ ~Exists(RowFor(r)) /\ Answer(r, "not found") /\ UNCHANGED <<got, shown>>
       \/ GetFails(r)
    /\ UNCHANGED <<up, stores, request>>

\* Variants: an object that exists is not written again; the error is ignored.
StoreOnce(r) ==
    objects' = IF objects[KeyFor(r)] = NoBody
               THEN [objects EXCEPT ![KeyFor(r)] = call[r].arg] ELSE objects

PutFailsUnnoticed(r) == pc' = [pc EXCEPT ![r] = "update"] /\ UNCHANGED <<got, reply, shown>>

\* Storage.Put.
Store(r) == objects' = [objects EXCEPT ![KeyFor(r)] = call[r].arg]

PutFails(r) == Fails(r)

Put(r) ==
    /\ pc[r] = "put"
    /\ \/ /\ Store(r)
          /\ pc' = [pc EXCEPT ![r] = "update"]
          /\ UNCHANGED <<got, reply, shown>>
       \/ Store(r) /\ PutFails(r)
       \/ PutFails(r) /\ UNCHANGED objects
    /\ UNCHANGED <<up, db, request>>

\* Repo.UpdateImagePath: RowsAffected counts changed rows, and zero of them is
\* ErrNotFound, which updateImage answers with 500 like any other error.
Changes(r) == Exists(RowFor(r)) /\ Current(RowFor(r)).img # KeyFor(r)

SetImage(r) ==
    /\ Changes(r)
    /\ db' = [db EXCEPT ![RowFor(r)] =
                Append(@, [Current(RowFor(r)) EXCEPT !.img = KeyFor(r)])]

Update(r) ==
    /\ pc[r] = "update"
    /\ \/ /\ SetImage(r)
          /\ shown' = shown \cup {KeyFor(r)}
          /\ Answer(r, "ok")
          /\ UNCHANGED got
       \/ SetImage(r) /\ Fails(r)
       \/ Fails(r) /\ UNCHANGED db
    /\ UNCHANGED <<up, objects, request>>

\* downloadImage.
Download(r) ==
    /\ pc[r] = "image"
    /\ LET body == objects[<<call[r].id, call[r].arg>>]
       IN  \/ /\ body # NoBody
              /\ got' = [got EXCEPT ![r] = body]
              /\ Answer(r, "ok")
              /\ UNCHANGED shown
           \/ body = NoBody /\ Answer(r, "not found") /\ UNCHANGED <<got, shown>>
           \/ Fails(r)
    /\ UNCHANGED <<up, stores, request>>

Return(r) ==
    /\ pc[r] = "done"
    /\ Forget({r})
    /\ UNCHANGED <<up, stores, shown>>

-----------------------------------------------------------------------------
Next ==
    \/ \E p \in Pod : Listen(p) \/ Stop(p)
    \/ \E r \in Req, c \in Call : Arrive(r, c)
    \/ \E r \in Req : \/ Refuse(r) \/ Return(r)
                      \/ Create(r) \/ Get(r) \/ Put(r) \/ Update(r) \/ Download(r)

Spec == Init /\ [][Next]_vars

-----------------------------------------------------------------------------
\* A link that any client was ever given works: a download under that key is
\* never answered 404, whatever uploads failed or died half-way before.
ShownLinksWork ==
    [][\A r \in Req : reply[r] = "none" /\ reply'[r] = "not found" /\ call[r].op = "IMAGE"
                        => <<call[r].id, call[r].arg>> \notin shown]_vars

\* A PUT that is answered 200, and that no other PUT for its product overlapped,
\* leaves the product with a link to the very file that was sent, though earlier
\* uploads, also failed ones, used the same key.
AckedFileServed ==
    \A r \in alone :
        pc[r] = "done" /\ reply[r] = "ok" =>
            /\ Current(RowFor(r)).img = KeyFor(r)
            /\ objects[KeyFor(r)] = call[r].arg

-----------------------------------------------------------------------------
(***************************************************************************)
(* Without a cache it keeps the product application's promise as well.     *)
(***************************************************************************)
Question(r) ==
    IF call[r] # NoCall /\ call[r].op = "GET"
    THEN [row |-> RowFor(r), low |-> low[r]]
    ELSE NoCall

Told(r) ==
    IF call[r] # NoCall /\ call[r].op = "GET" /\ reply[r] \in {"ok", "not found"}
    THEN [how |-> reply[r], prod |-> got[r]]
    ELSE NoCall

Promise == INSTANCE Catalogue WITH
    Image <- Key,
    NoQuestion <- NoCall,
    NoAnswer <- NoCall,
    hist <- db,
    asked <- [r \in Req |-> Question(r)],
    told <- [r \in Req |-> Told(r)]

\* Reads show committed versions, none older than the row was when they were
\* asked, and "not found" only for a product that was missing then.
ImplementsCatalogue == Promise!Spec

=============================================================================
