----------------------------- MODULE Catalogue -----------------------------
(***************************************************************************)
(* What the product application promises a client that reads, whatever its *)
(* pods cache and whichever of them die: rows are created once, keep what  *)
(* they were created with, and change only in their image; a read that     *)
(* says "ok" shows a version no older than the row was when the read was   *)
(* asked, a read that says "hit" shows some version the row had, and a     *)
(* read that says "not found" was asked before the row was there.          *)
(***************************************************************************)
EXTENDS Integers, Sequences

CONSTANTS Id, Row, RowOf, Payload, Stored, Image, NoImage, Req,
          NoQuestion, NoAnswer, NoProduct

VARIABLES
    hist,   \* hist[k]: the versions of row k, oldest first
    asked,  \* asked[r]: the row a read asks for, and its versions by then
    told    \* told[r]: the answer

catalogueVars == <<hist, asked, told>>

Init ==
    /\ hist = [k \in Row |-> <<>>]
    /\ asked = [r \in Req |-> NoQuestion]
    /\ told = [r \in Req |-> NoAnswer]

Create(k, i, y) ==
    /\ Len(hist[k]) = 0
    /\ RowOf[i] = k
    /\ hist' = [hist EXCEPT ![k] =
           Append(@, [id |-> i, pay |-> Stored[y], img |-> NoImage])]
    /\ UNCHANGED <<asked, told>>

SetImage(k, image) ==
    /\ Len(hist[k]) > 0
    /\ LET newest == hist[k][Len(hist[k])]
       IN  /\ newest.img # image
           /\ hist' = [hist EXCEPT ![k] = Append(@, [newest EXCEPT !.img = image])]
    /\ UNCHANGED <<asked, told>>

Ask(r, k) ==
    /\ asked[r] = NoQuestion
    /\ asked' = [asked EXCEPT ![r] = [row |-> k, low |-> Len(hist[k])]]
    /\ UNCHANGED <<hist, told>>

Open(r) == asked[r] # NoQuestion /\ told[r] = NoAnswer

Tell(r, how, prod) ==
    /\ told' = [told EXCEPT ![r] = [how |-> how, prod |-> prod]]
    /\ UNCHANGED <<hist, asked>>

TellFresh(r) ==
    /\ Open(r)
    /\ \E n \in 1 .. Len(hist[asked[r].row]) :
         /\ n >= asked[r].low
         /\ Tell(r, "ok", hist[asked[r].row][n])

\* A remembered answer may still show the payload as its creator sent it.
TellRemembered(r) ==
    /\ Open(r)
    /\ \E n \in 1 .. Len(hist[asked[r].row]), y \in Payload :
         LET version == hist[asked[r].row][n]
         IN  /\ y = version.pay \/ (n = 1 /\ Stored[y] = version.pay)
             /\ Tell(r, "hit", [version EXCEPT !.pay = y])

TellMissing(r) ==
    /\ Open(r)
    /\ asked[r].low = 0
    /\ Tell(r, "not found", NoProduct)

Leave(R) ==
    /\ asked' = [r \in Req |-> IF r \in R THEN NoQuestion ELSE asked[r]]
    /\ told' = [r \in Req |-> IF r \in R THEN NoAnswer ELSE told[r]]
    /\ UNCHANGED hist

Next ==
    \/ \E k \in Row, i \in Id, y \in Payload : Create(k, i, y)
    \/ \E k \in Row, image \in Image : SetImage(k, image)
    \/ \E r \in Req, k \in Row : Ask(r, k)
    \/ \E r \in Req : TellFresh(r) \/ TellRemembered(r) \/ TellMissing(r)
    \/ \E R \in SUBSET Req : Leave(R)

Spec == Init /\ [][Next]_catalogueVars

=============================================================================
