--------------------------- MODULE ApprovalsProofs ---------------------------
(***************************************************************************)
(* Proofs about what is asked for by one call and decided by another: the  *)
(* stock documents, expenses, requests for stores and restaurant orders,   *)
(* for any number of them, of calls and of users.                          *)
(*                                                                         *)
(* In each, a handler reads, and writes later what followed from its read; *)
(* the invariants say what of its read is still so by then, because a row  *)
(* is held, because nothing rewrites it, or because it only grows.         *)
(***************************************************************************)
EXTENDS StockDocuments, Expenses, StoreRequests, KitchenOrders, DataLemmas

(***************************************************************************)
(* Stock documents.  A request that has claimed a document holds its row,  *)
(* so what the claim saw of it is still so when the request commits.       *)
(***************************************************************************)
\* The lines of a transfer begin with a source.
SourceFirst(lines) == lines # <<>> => lines[1].qty < 0

Claiming(r) == req[r].pc \in {"take", "commit"}

\* Where a request is, by its kind, the kind of its document and its lines.
InStep(r) ==
    /\ req[r].doc \in Doc => Mine(r).status # "none"
    /\ InFlight(r) => req[r].doc \in Doc
    /\ req[r].pc \in {"items", "claim", "take"} /\ Mine(r).kind = "transfer" =>
          SourceFirst(req[r].lines)
    /\ req[r].pc = "claim" => req[r].i = 1 /\ req[r].moved = Zero
    /\ req[r].pc = "take" => req[r].i \in 1 .. Len(req[r].lines)
    /\ req[r].pc \in {"claim", "take", "commit"} =>
          \/ req[r].kind = "approve" /\ Mine(r).kind # "order" /\ req[r].status = "COMPLETED"
          \/ req[r].kind = "status" /\ Mine(r).kind = "order" /\ req[r].status \in POStatuses
    /\ req[r].pc = "write" => Mine(r).kind # "order"
    /\ req[r].pc = "erase" => Mine(r).kind = "order"
    /\ Claiming(r) =>
          /\ docLock[req[r].doc] = r
          /\ Claimable(r)
          /\ MovesStock(r) \/ (req[r].pc = "commit" /\ req[r].moved = Zero)

\* No request will move the stock of d again.
Closed(d) ==
    IF doc[d].kind = "order" THEN doc[d].status \in {"RECEIVED", "deleted"}
                             ELSE doc[d].status \notin {"none", "PENDING"}

MovedIsClosed(d) == applied[d] = 0 \/ SetBack(d) \/ Closed(d)

DocumentsInv ==
    /\ TypeOK
    /\ \A r \in Request : InStep(r)
    /\ \A d \in Doc : doc[d].kind = "transfer" => SourceFirst(doc[d].lines)
    /\ \A d \in Doc : MovedIsClosed(d)
    /\ MovedOnce

DocRow == [kind : DocKinds, status : Statuses, lines : Seq(Line)]
ReqRow == [kind : RouteKinds \cup {"none"}, pc : PCs, doc : Doc \cup {Nobody}, status : Statuses,
           lines : Seq(Line), i : Nat \ {0}, moved : [Row -> Int]]
-----------------------------------------------------------------------------
\* The types, a table at a time.
LEMMA DocumentRows ==
    ASSUME TypeOK
    PROVE  /\ qty \in [Row -> Int] /\ lock \in [Row -> Request \cup {Nobody}]
           /\ doc \in [Doc -> DocRow] /\ docLock \in [Doc -> Request \cup {Nobody}]
           /\ posted \in [Doc -> [Row -> Int]] /\ applied \in [Doc -> Nat]
           /\ req \in [Request -> ReqRow]
BY DEF TypeOK, DocRow, ReqRow

\* What choices say of the documents made from them.
LEMMA CreatedIsDocument ==
    ASSUME NEW c \in Choices
    PROVE  /\ Created(c) \in DocRow /\ Created(c).lines = c.lines /\ Created(c).kind = c.kind
           /\ Created(c).status \notin {"none", "RECEIVED"}
           /\ [Created(c) EXCEPT !.lines = <<>>] \in DocRow
           /\ c.kind = "transfer" => SourceFirst(c.lines)
<1>1. c.kind \in DocKinds /\ c.lines \in Seq(Line) /\ c.lines # <<>>
  BY ChoiceAssumption
<1>2. c.kind = "transfer" => SourceFirst(c.lines)
  <2>1. 1 \in DOMAIN c.lines /\ 1 % 2 = 1
    BY <1>1
  <2> QED BY <2>1, ChoiceAssumption DEF SourceFirst
<1> DEFINE status == InitialStatus(c.kind)
<1>3. status \in Statuses /\ status \notin {"none", "RECEIVED"}
  BY DEF InitialStatus, Statuses, POStatuses
<1>4. Created(c) = [kind |-> c.kind, status |-> status, lines |-> c.lines]
  BY DEF Created
<1> HIDE DEF status
<1>5. Created(c) \in DocRow
  BY <1>1, <1>3, <1>4 DEF DocRow
<1>6. [Created(c) EXCEPT !.lines = <<>>] \in DocRow
  <2>1. [Created(c) EXCEPT !.lines = <<>>] = [kind |-> c.kind, status |-> status, lines |-> <<>>]
    BY <1>4
  <2>2. <<>> \in Seq(Line)
    OBVIOUS
  <2> QED BY <1>1, <1>3, <2>1, <2>2 DEF DocRow
<1> QED BY <1>2, <1>3, <1>4, <1>5, <1>6

\* A request arrives and no other is touched.
Arrived(r, kind, pc, d, status, lines) ==
    /\ req \in [Request -> ReqRow] /\ req[r].pc = "idle"
    /\ req' \in [Request -> ReqRow]
    /\ \A s \in Request \ {r} : req'[s] = req[s]
    /\ req'[r].kind = kind /\ req'[r].pc = pc /\ req'[r].doc = d /\ req'[r].status = status
    /\ req'[r].lines = lines /\ req'[r].i = 1 /\ req'[r].moved = Zero

LEMMA ArriveFacts ==
    ASSUME TypeOK, NEW r \in Request, NEW kind, NEW pc \in PCs, NEW d \in Doc \cup {Nobody},
           NEW status \in Statuses, NEW lines \in Seq(Line), Arrive(r, kind, pc, d, status, lines)
    PROVE  Arrived(r, kind, pc, d, status, lines)
<1> DEFINE row == [kind |-> kind, pc |-> pc, doc |-> d, status |-> status,
                   lines |-> lines, i |-> 1, moved |-> Zero]
<1>1. Zero \in [Row -> Int]
  BY DEF Zero
<1>2. row \in ReqRow
  BY <1>1, KindsAssumption DEF Arrive, ReqRow
<1>3. req' = [req EXCEPT ![r] = row] /\ req[r].pc = "idle"
  BY DEF Arrive, At
<1>4. req \in [Request -> ReqRow]
  BY DocumentRows
<1>5. row.kind = kind /\ row.pc = pc /\ row.doc = d /\ row.status = status
      /\ row.lines = lines /\ row.i = 1 /\ row.moved = Zero
  OBVIOUS
<1> HIDE DEF row
<1> QED BY <1>2, <1>3, <1>4, <1>5 DEF Arrived

\* A request goes on to pc and no other is touched.
WentOn(r, pc) ==
    /\ req \in [Request -> ReqRow] /\ req' \in [Request -> ReqRow]
    /\ \A s \in Request \ {r} : req'[s] = req[s]
    /\ req'[r].pc = pc
    /\ req'[r].kind = req[r].kind /\ req'[r].doc = req[r].doc /\ req'[r].status = req[r].status

LEMMA FinishFacts ==
    ASSUME TypeOK, NEW r \in Request, NEW pc \in PCs, Finish(r, pc)
    PROVE  /\ WentOn(r, pc)
           /\ req'[r].lines = req[r].lines /\ req'[r].i = req[r].i /\ req'[r].moved = req[r].moved
<1>1. req \in [Request -> ReqRow] /\ req' = [req EXCEPT ![r].pc = pc]
  BY DocumentRows DEF Finish
<1> QED BY <1>1 DEF WentOn, ReqRow

\* Requests keep in step with a document whose kind stays, and whose status
\* stays while they hold its row.
LEMMA StayInStep ==
    ASSUME NEW r \in Request, InStep(r), req'[r] = req[r],
           req[r].doc \in Doc =>
              /\ doc'[req[r].doc].kind = Mine(r).kind
              /\ doc'[req[r].doc].status # "none"
              /\ docLock[req[r].doc] = r => /\ docLock'[req[r].doc] = r
                                            /\ doc'[req[r].doc].status = Mine(r).status
    PROVE  InStep(r)'
<1>1. CASE req[r].doc \in Doc
  BY <1>1 DEF InStep, InFlight, Claiming, Claimable, MovesStock, Mine
<1>2. CASE req[r].doc \notin Doc
  BY <1>2 DEF InStep, InFlight, Claiming, Claimable, MovesStock, Mine
<1> QED BY <1>1, <1>2

\* What has been set back stays so, and what is closed with it.
LEMMA SetBackStays ==
    ASSUME NEW r \in Request, req[r].pc # "done", NEW d \in Doc, SetBack(d),
           \A s \in Request \ {r} : req'[s] = req[s]
    PROVE  SetBack(d)'
BY DEF SetBack

LEMMA ClosedStays ==
    ASSUME NEW r \in Request, req[r].pc # "done", NEW d \in Doc, MovedIsClosed(d),
           \A s \in Request \ {r} : req'[s] = req[s],
           applied'[d] = applied[d], Closed(d) => Closed(d)' \/ SetBack(d)'
    PROVE  MovedIsClosed(d)'
<1>1. SetBack(d) => SetBack(d)'
  BY SetBackStays
<1> QED BY <1>1 DEF MovedIsClosed

LEMMA OnceStays ==
    ASSUME NEW r \in Request, req[r].pc # "done", MovedOnce,
           \A s \in Request \ {r} : req'[s] = req[s], applied' = applied
    PROVE  MovedOnce'
<1>1. \A d \in Doc : SetBack(d) => SetBack(d)'
  BY SetBackStays
<1> QED BY <1>1 DEF MovedOnce
-----------------------------------------------------------------------------
LEMMA DocumentsInvInit == Init => DocumentsInv
<1> SUFFICES ASSUME Init PROVE DocumentsInv
  OBVIOUS
<1>1. Fresh \in ReqRow /\ Zero \in [Row -> Int] /\ NoDoc \in DocRow /\ SourceFirst(NoDoc.lines)
  BY DEF Fresh, Zero, NoDoc, ReqRow, DocRow, Statuses, POStatuses, PCs, DocKinds, SourceFirst
<1>2. \A d \in Doc : doc[d] \in DocRow /\ (doc[d].kind = "transfer" => SourceFirst(doc[d].lines))
  <2> SUFFICES ASSUME NEW d \in Doc
               PROVE  doc[d] \in DocRow /\ (doc[d].kind = "transfer" => SourceFirst(doc[d].lines))
    OBVIOUS
  <2>1. CASE doc[d] = NoDoc
    BY <1>1, <2>1
  <2>2. ASSUME NEW c \in Existing, doc[d] = Created(c)
        PROVE  doc[d] \in DocRow /\ (doc[d].kind = "transfer" => SourceFirst(doc[d].lines))
    <3>1. c \in Choices
      BY ExistAssumption
    <3>2. /\ Created(c) \in DocRow
          /\ Created(c).kind = "transfer" => SourceFirst(Created(c).lines)
      BY <3>1, CreatedIsDocument
    <3> QED BY <2>2, <3>2
  <2> QED BY <2>1, <2>2 DEF Init
<1>3. TypeOK
  <2>1. doc \in [Doc -> DocRow]
    BY <1>2 DEF Init
  <2> QED BY <1>1, <2>1, StockAssumption DEF Init, TypeOK, DocRow, ReqRow
<1>4. \A r \in Request : InStep(r)
  BY NobodyAssumption DEF Init, Fresh, InStep, InFlight, Claiming
<1>5. \A d \in Doc : MovedIsClosed(d)
  BY DEF Init, MovedIsClosed
<1>6. MovedOnce
  BY DEF Init, MovedOnce
<1> QED BY <1>2, <1>3, <1>4, <1>5, <1>6 DEF DocumentsInv

\* An arrival that leaves the documents alone.
LEMMA ArrivalStep ==
    ASSUME DocumentsInv, NEW r \in Request, NEW kind, NEW pc \in PCs \ {"items", "take", "commit"},
           NEW d \in Doc \cup {Nobody}, NEW status \in Statuses, NEW lines \in Seq(Line),
           Arrive(r, kind, pc, d, status, lines),
           UNCHANGED <<lock, doc, docLock, posted, applied>>, qty' \in [Row -> Int],
           InStep(r)'
    PROVE  DocumentsInv'
<1>1. Arrived(r, kind, pc, d, status, lines)
  BY ArriveFacts DEF DocumentsInv
<1>2. TypeOK'
  BY <1>1 DEF Arrived, DocumentsInv, TypeOK, ReqRow
<1>3. \A s \in Request \ {r} : InStep(s)'
  <2> SUFFICES ASSUME NEW s \in Request \ {r} PROVE InStep(s)'
    OBVIOUS
  <2> QED BY <1>1, StayInStep DEF Arrived, DocumentsInv, InStep, Mine
<1>4. \A e \in Doc : MovedIsClosed(e)'
  <2> SUFFICES ASSUME NEW e \in Doc PROVE MovedIsClosed(e)'
    OBVIOUS
  <2>1. Closed(e) => Closed(e)'
    BY DEF Closed
  <2> QED BY <1>1, <2>1, ClosedStays DEF Arrived, DocumentsInv
<1>5. MovedOnce'
  BY <1>1, OnceStays DEF Arrived, DocumentsInv
<1> QED BY <1>2, <1>3, <1>4, <1>5 DEF DocumentsInv

LEMMA CreateStep ==
    ASSUME DocumentsInv, NEW r \in Request, Create(r)
    PROVE  DocumentsInv'
<1>1. PICK d \in Doc, c \in Choices :
        /\ doc[d].status = "none"
        /\ Arrive(r, "create", "items", d, "none", c.lines)
        /\ doc' = [doc EXCEPT ![d] = [Created(c) EXCEPT !.lines = <<>>]]
        /\ UNCHANGED <<qty, lock, docLock, posted, applied>>
  BY DEF Create
<1>2. c.lines \in Seq(Line) /\ "items" \in PCs /\ "none" \in Statuses
  BY ChoiceAssumption DEF PCs, Statuses
<1>3. Arrived(r, "create", "items", d, "none", c.lines)
  BY <1>1, <1>2, ArriveFacts DEF DocumentsInv
<1>4. /\ doc \in [Doc -> DocRow] /\ doc' \in [Doc -> DocRow]
      /\ \A e \in Doc \ {d} : doc'[e] = doc[e]
      /\ doc'[d].status # "none" /\ doc'[d].lines = <<>>
      /\ doc'[d].kind = "transfer" => SourceFirst(c.lines)
  <2>1. /\ [Created(c) EXCEPT !.lines = <<>>] \in DocRow /\ Created(c) \in DocRow
        /\ Created(c).status # "none" /\ (Created(c).kind = "transfer" => SourceFirst(c.lines))
    BY CreatedIsDocument
  <2>2. doc \in [Doc -> DocRow]
    BY DocumentRows DEF DocumentsInv
  <2> DEFINE row == [Created(c) EXCEPT !.lines = <<>>]
  <2>3. row.status # "none" /\ row.lines = <<>> /\ (row.kind = "transfer" => SourceFirst(c.lines))
    BY <2>1 DEF DocRow
  <2>4. row \in DocRow /\ doc' = [doc EXCEPT ![d] = row]
    BY <1>1, <2>1
  <2> HIDE DEF row
  <2> QED BY <2>2, <2>3, <2>4
<1>5. TypeOK'
  BY <1>1, <1>3, <1>4 DEF Arrived, DocumentsInv, TypeOK, ReqRow, DocRow
<1>6. InStep(r)'
  BY <1>3, <1>4, NobodyAssumption DEF Arrived, InStep, InFlight, Mine, Claiming
<1>7. \A s \in Request \ {r} : InStep(s)'
  <2> SUFFICES ASSUME NEW s \in Request \ {r} PROVE InStep(s)'
    OBVIOUS
  <2>1. req[s].doc # d
    BY <1>1 DEF DocumentsInv, InStep, Mine
  <2> QED BY <1>1, <1>3, <1>4, <2>1, StayInStep DEF Arrived, DocumentsInv, InStep, Mine
<1>8. \A e \in Doc : doc'[e].kind = "transfer" => SourceFirst(doc'[e].lines)
  BY <1>4 DEF DocumentsInv, SourceFirst
<1>9. \A e \in Doc : MovedIsClosed(e)'
  <2> SUFFICES ASSUME NEW e \in Doc PROVE MovedIsClosed(e)'
    OBVIOUS
  <2>1. CASE e = d
    <3>1. ~SetBack(d)
      BY <1>1 DEF SetBack, DocumentsInv, InStep, Mine
    <3>2. applied[d] = 0 \/ Closed(d)
      BY <3>1 DEF DocumentsInv, MovedIsClosed
    <3>3. applied[d] = 0 \/ doc[d].kind = "order"
      BY <1>1, <3>2 DEF Closed
    <3> QED BY <1>1, <2>1, <3>2, <3>3 DEF Closed, MovedIsClosed
  <2>2. CASE e # d
    <3>1. Closed(e) => Closed(e)'
      BY <1>4, <2>2 DEF Closed
    <3> QED BY <1>1, <1>3, <3>1, ClosedStays DEF Arrived, DocumentsInv
  <2> QED BY <2>1, <2>2
<1>10. MovedOnce'
  BY <1>1, <1>3, OnceStays DEF Arrived, DocumentsInv
<1> QED BY <1>5, <1>6, <1>7, <1>8, <1>9, <1>10 DEF DocumentsInv

LEMMA ApproveArriveStep ==
    ASSUME DocumentsInv, NEW r \in Request, ApproveArrive(r)
    PROVE  DocumentsInv'
<1>1. PICK d \in Doc :
        /\ doc[d].kind \in {"transfer", "count"} /\ doc[d].status \notin {"none", "deleted"}
        /\ Arrive(r, "approve", "claim", d, "COMPLETED", doc[d].lines)
        /\ UNCHANGED <<qty, lock, doc, docLock, posted, applied>>
  BY DEF ApproveArrive
<1>2. PICK lines \in Seq(Line) : lines = doc[d].lines
  BY DocumentRows DEF DocumentsInv, DocRow
<1>3. Arrive(r, "approve", "claim", d, "COMPLETED", lines)
  BY <1>1, <1>2
<1>4. "claim" \in PCs \ {"items", "take", "commit"} /\ "COMPLETED" \in Statuses /\ qty' \in [Row -> Int]
  BY <1>1, DocumentRows DEF PCs, Statuses, DocumentsInv
<1>5. Arrived(r, "approve", "claim", d, "COMPLETED", lines)
  BY <1>3, <1>4, ArriveFacts DEF DocumentsInv
<1>6. InStep(r)'
  BY <1>1, <1>2, <1>5 DEF Arrived, InStep, InFlight, Claiming, Mine, DocumentsInv
<1> QED BY <1>1, <1>3, <1>4, <1>6, ArrivalStep

LEMMA StatusArriveStep ==
    ASSUME DocumentsInv, NEW r \in Request, StatusArrive(r)
    PROVE  DocumentsInv'
<1>1. PICK d \in Doc, status \in OrderStatuses :
        /\ doc[d].kind = "order" /\ doc[d].status \notin {"none", "deleted"}
        /\ Arrive(r, "status", "claim", d, status, <<>>)
        /\ UNCHANGED <<qty, lock, doc, docLock, posted, applied>>
  BY DEF StatusArrive
<1>2. /\ "claim" \in PCs \ {"items", "take", "commit"} /\ qty' \in [Row -> Int]
      /\ status \in POStatuses /\ status \in Statuses /\ <<>> \in Seq(Line)
  BY <1>1, DocumentRows, StatusAssumption DEF PCs, Statuses, DocumentsInv
<1>3. Arrived(r, "status", "claim", d, status, <<>>)
  BY <1>1, <1>2, ArriveFacts DEF DocumentsInv
<1>4. InStep(r)'
  BY <1>1, <1>2, <1>3 DEF Arrived, InStep, InFlight, Claiming, Mine, SourceFirst
<1> QED BY <1>1, <1>2, <1>4, ArrivalStep

LEMMA RejectArriveStep ==
    ASSUME DocumentsInv, NEW r \in Request, RejectArrive(r)
    PROVE  DocumentsInv'
<1>1. PICK d \in Doc :
        /\ doc[d].kind \in {"transfer", "count"} /\ doc[d].status = "PENDING"
        /\ Arrive(r, "reject", "write", d, "REJECTED", <<>>)
        /\ UNCHANGED <<qty, lock, doc, docLock, posted, applied>>
  BY DEF RejectArrive
<1>2. /\ "write" \in PCs \ {"items", "take", "commit"} /\ "REJECTED" \in Statuses
      /\ qty' \in [Row -> Int] /\ <<>> \in Seq(Line)
  BY <1>1, DocumentRows DEF PCs, Statuses, DocumentsInv
<1>3. Arrived(r, "reject", "write", d, "REJECTED", <<>>)
  BY <1>1, <1>2, ArriveFacts DEF DocumentsInv
<1>4. InStep(r)'
  BY <1>1, <1>3 DEF Arrived, InStep, InFlight, Claiming, Mine
<1> QED BY <1>1, <1>2, <1>4, ArrivalStep

LEMMA SellStep ==
    ASSUME DocumentsInv, NEW r \in Request, Sell(r)
    PROVE  DocumentsInv'
<1>1. /\ Arrive(r, "sell", "done", Nobody, "none", <<>>)
      /\ UNCHANGED <<lock, doc, docLock, posted, applied>>
  BY DEF Sell
<1>2. /\ "done" \in PCs \ {"items", "take", "commit"} /\ "none" \in Statuses /\ <<>> \in Seq(Line)
      /\ qty' \in [Row -> Int]
  BY DocumentRows DEF PCs, Statuses, DocumentsInv, Sell
<1>3. Arrived(r, "sell", "done", Nobody, "none", <<>>)
  BY <1>1, <1>2, ArriveFacts DEF DocumentsInv
<1>4. InStep(r)'
  BY <1>3, NobodyAssumption DEF Arrived, InStep, InFlight, Claiming
<1> QED BY <1>1, <1>2, <1>4, ArrivalStep

\* A statement of r, on document d, of which r holds the row or nobody does.
LEMMA StatementStep ==
    ASSUME DocumentsInv, NEW r \in Request, NEW d \in Doc, doc[d].status # "none",
           req[r].pc # "done", req' \in [Request -> ReqRow],
           \A s \in Request \ {r} : req'[s] = req[s],
           doc' \in [Doc -> DocRow], \A e \in Doc \ {d} : doc'[e] = doc[e],
           doc'[d].kind = doc[d].kind,
           doc'[d].kind = "transfer" => SourceFirst(doc'[d].lines),
           doc'[d].status # "none",
           doc'[d].status = doc[d].status \/ docLock[d] \in {Nobody, r},
           docLock' \in [Doc -> Request \cup {Nobody}],
           \A e \in Doc, s \in Request \ {r} : docLock[e] = s => docLock'[e] = s,
           qty' \in [Row -> Int], lock' \in [Row -> Request \cup {Nobody}],
           posted' \in [Doc -> [Row -> Int]], applied' \in [Doc -> Nat],
           InStep(r)', MovedIsClosed(d)', applied'[d] <= 1 \/ SetBack(d)',
           \A e \in Doc \ {d} : applied'[e] = applied[e]
    PROVE  DocumentsInv'
<1>1. TypeOK'
  BY DEF TypeOK, ReqRow, DocRow
<1>2. \A s \in Request \ {r} : InStep(s)'
  <2> SUFFICES ASSUME NEW s \in Request \ {r} PROVE InStep(s)'
    OBVIOUS
  <2>0. InStep(s) /\ (req[s].doc \in Doc => Mine(s).status # "none")
    BY DEF DocumentsInv, InStep
  <2>1. CASE req[s].doc \in Doc \ {d}
    <3>1. doc'[req[s].doc] = Mine(s) /\ (docLock[req[s].doc] = s => docLock'[req[s].doc] = s)
      BY <2>1 DEF Mine
    <3> QED BY <2>0, <2>1, <3>1, StayInStep
  <2>2. CASE req[s].doc = d
    <3>1. /\ doc'[d].kind = Mine(s).kind /\ doc'[d].status # "none"
          /\ docLock[d] = s => docLock'[d] = s /\ doc'[d].status = Mine(s).status
      BY <2>2, NobodyAssumption DEF Mine
    <3> QED BY <2>0, <2>2, <3>1, StayInStep
  <2>3. CASE req[s].doc \notin Doc
    BY <2>0, <2>3, StayInStep
  <2> QED BY <2>1, <2>2, <2>3
<1>3. \A e \in Doc \ {d} : MovedIsClosed(e)'
  <2> SUFFICES ASSUME NEW e \in Doc \ {d} PROVE MovedIsClosed(e)'
    OBVIOUS
  <2>1. Closed(e) => Closed(e)'
    BY DEF Closed
  <2> QED BY <2>1, ClosedStays DEF DocumentsInv
<1>4. MovedOnce'
  <2>1. \A e \in Doc : SetBack(e) => SetBack(e)'
    BY SetBackStays
  <2> QED BY <2>1 DEF DocumentsInv, MovedOnce
<1> QED BY <1>1, <1>2, <1>3, <1>4 DEF DocumentsInv

LEMMA FreedLocks ==
    ASSUME TypeOK, NEW r \in Request, FreeLocks(r)
    PROVE  /\ lock' \in [Row -> Request \cup {Nobody}] /\ docLock' \in [Doc -> Request \cup {Nobody}]
           /\ \A e \in Doc, s \in Request \ {r} : docLock[e] = s => docLock'[e] = s
BY DocumentRows DEF FreeLocks

LEMMA FailStep ==
    ASSUME DocumentsInv, NEW r \in Request, InFlight(r), Fail(r)
    PROVE  DocumentsInv'
<1>1. "failed" \in PCs /\ Finish(r, "failed")
  BY DEF PCs, Fail
<1>2. WentOn(r, "failed")
  BY <1>1, FinishFacts DEF DocumentsInv
<1>3. UNCHANGED <<qty, doc, posted, applied>> /\ FreeLocks(r)
  BY DEF Fail
<1>4. PICK d \in Doc : d = req[r].doc
  BY DEF DocumentsInv, InStep
<1>5. doc[d].status # "none" /\ req[r].pc # "done"
  BY <1>4 DEF DocumentsInv, InStep, Mine, InFlight
<1>6. InStep(r)'
  BY <1>2, <1>3, <1>4, <1>5 DEF WentOn, InStep, InFlight, Claiming, Mine
<1>7. MovedIsClosed(d)'
  <2>1. Closed(d) => Closed(d)'
    BY <1>3 DEF Closed
  <2> QED BY <1>2, <1>3, <1>5, <2>1, ClosedStays DEF WentOn, DocumentsInv
<1>8. applied'[d] <= 1 \/ SetBack(d)'
  <2>1. SetBack(d) => SetBack(d)'
    BY <1>2, <1>5, SetBackStays DEF WentOn
  <2> QED BY <1>3, <2>1 DEF DocumentsInv, MovedOnce
<1> QED BY <1>2, <1>3, <1>5, <1>6, <1>7, <1>8, DocumentRows, FreedLocks, StatementStep DEF WentOn, DocumentsInv

LEMMA DeadlockVictimStep ==
    ASSUME DocumentsInv, NEW r \in Request, DeadlockVictim(r)
    PROVE  DocumentsInv'
<1>1. Fail(r) /\ BlockedBy(r) \in Request
  BY DEF DeadlockVictim
<1>2. InFlight(r)
  BY <1>1, NobodyAssumption DEF BlockedBy, InFlight, At
<1> QED BY <1>1, <1>2, FailStep

LEMMA CreateItemsStep ==
    ASSUME DocumentsInv, NEW r \in Request, CreateItems(r)
    PROVE  DocumentsInv'
<1>1. "done" \in PCs /\ Finish(r, "done") /\ req[r].pc = "items" /\ UNCHANGED <<qty, lock, docLock, posted, applied>>
  BY DEF PCs, CreateItems, At
<1>2. WentOn(r, "done")
  BY <1>1, FinishFacts DEF DocumentsInv
<1>3. PICK d \in Doc : d = req[r].doc
  BY <1>1 DEF DocumentsInv, InStep, InFlight
<1>4. /\ doc[d].status # "none" /\ (doc[d].kind = "transfer" => SourceFirst(req[r].lines))
      /\ req[r].lines \in Seq(Line) /\ doc \in [Doc -> DocRow]
      /\ doc[d].kind = "transfer" => SourceFirst(doc[d].lines)
  BY <1>1, <1>2, <1>3, DocumentRows DEF DocumentsInv, InStep, Mine, WentOn, ReqRow
<1>5. /\ doc' \in [Doc -> DocRow] /\ \A e \in Doc \ {d} : doc'[e] = doc[e]
      /\ doc'[d].kind = doc[d].kind /\ doc'[d].status = doc[d].status
      /\ doc'[d].kind = "transfer" => SourceFirst(doc'[d].lines)
  <2>1. CASE doc' = doc
    BY <1>4, <2>1
  <2>2. CASE doc' = [doc EXCEPT ![d].lines = req[r].lines]
    BY <1>4, <2>2 DEF DocRow
  <2> QED BY <1>3, <2>1, <2>2 DEF CreateItems
<1>6. InStep(r)'
  BY <1>2, <1>3, <1>4, <1>5 DEF WentOn, InStep, InFlight, Claiming, Mine
<1>7. MovedIsClosed(d)'
  <2>1. Closed(d) => Closed(d)'
    BY <1>5 DEF Closed
  <2> QED BY <1>1, <1>2, <2>1, ClosedStays DEF WentOn, DocumentsInv
<1>8. applied'[d] <= 1 \/ SetBack(d)'
  <2>1. SetBack(d) => SetBack(d)'
    BY <1>1, <1>2, SetBackStays DEF WentOn
  <2> QED BY <1>1, <2>1 DEF DocumentsInv, MovedOnce
<1> QED BY <1>1, <1>2, <1>4, <1>5, <1>6, <1>7, <1>8, DocumentRows, StatementStep DEF WentOn, DocumentsInv

\* A statement outside a transaction that writes the status of a document
\* whose row is free, and ends the request.
LEMMA RejectWriteStep ==
    ASSUME DocumentsInv, NEW r \in Request, RejectWrite(r)
    PROVE  DocumentsInv'
<1>1. /\ "done" \in PCs /\ Finish(r, "done") /\ req[r].pc = "write" /\ docLock[req[r].doc] = Nobody
      /\ doc' = [doc EXCEPT ![req[r].doc].status = "REJECTED"]
      /\ UNCHANGED <<qty, lock, docLock, posted, applied>>
  BY DEF PCs, RejectWrite, At
<1>2. WentOn(r, "done")
  BY <1>1, FinishFacts DEF DocumentsInv
<1>3. PICK d \in Doc : d = req[r].doc
  BY <1>1 DEF DocumentsInv, InStep, InFlight
<1>4. /\ doc[d].status # "none" /\ doc[d].kind # "order" /\ doc \in [Doc -> DocRow]
      /\ doc[d].kind = "transfer" => SourceFirst(doc[d].lines)
  BY <1>1, <1>3, DocumentRows DEF DocumentsInv, InStep, Mine
<1>5. /\ doc' \in [Doc -> DocRow] /\ \A e \in Doc \ {d} : doc'[e] = doc[e]
      /\ doc'[d].kind = doc[d].kind /\ doc'[d].status = "REJECTED" /\ doc'[d].lines = doc[d].lines
  BY <1>1, <1>3, <1>4 DEF DocRow, Statuses
<1>6. InStep(r)'
  BY <1>2, <1>3, <1>5 DEF WentOn, InStep, InFlight, Claiming, Mine
<1>7. MovedIsClosed(d)'
  BY <1>4, <1>5 DEF Closed, MovedIsClosed
<1>8. applied'[d] <= 1 \/ SetBack(d)'
  <2>1. SetBack(d) => SetBack(d)'
    BY <1>1, <1>2, SetBackStays DEF WentOn
  <2> QED BY <1>1, <2>1 DEF DocumentsInv, MovedOnce
<1> QED BY <1>1, <1>2, <1>3, <1>4, <1>5, <1>6, <1>7, <1>8, DocumentRows, StatementStep, ZenonT(30) DEF WentOn, DocumentsInv

LEMMA DeleteOrderStep ==
    ASSUME DocumentsInv, NEW r \in Request, DeleteOrder(r)
    PROVE  DocumentsInv'
<1>1. /\ "done" \in PCs /\ Finish(r, "done") /\ req[r].pc = "erase" /\ docLock[req[r].doc] = Nobody
      /\ doc' = [doc EXCEPT ![req[r].doc].status = "deleted"]
      /\ UNCHANGED <<qty, lock, docLock, posted, applied>>
  BY DEF PCs, DeleteOrder, At
<1>2. WentOn(r, "done")
  BY <1>1, FinishFacts DEF DocumentsInv
<1>3. PICK d \in Doc : d = req[r].doc
  BY <1>1 DEF DocumentsInv, InStep, InFlight
<1>4. /\ doc[d].status # "none" /\ doc[d].kind = "order" /\ doc \in [Doc -> DocRow]
  BY <1>1, <1>3, DocumentRows DEF DocumentsInv, InStep, Mine
<1>5. /\ doc' \in [Doc -> DocRow] /\ \A e \in Doc \ {d} : doc'[e] = doc[e]
      /\ doc'[d].kind = doc[d].kind /\ doc'[d].status = "deleted"
  BY <1>1, <1>3, <1>4 DEF DocRow, Statuses
<1>6. InStep(r)'
  BY <1>2, <1>3, <1>5 DEF WentOn, InStep, InFlight, Claiming, Mine
<1>7. MovedIsClosed(d)'
  BY <1>4, <1>5 DEF Closed, MovedIsClosed
<1>8. applied'[d] <= 1 \/ SetBack(d)'
  <2>1. SetBack(d) => SetBack(d)'
    BY <1>1, <1>2, SetBackStays DEF WentOn
  <2> QED BY <1>1, <2>1 DEF DocumentsInv, MovedOnce
<1> QED BY <1>1, <1>2, <1>3, <1>4, <1>5, <1>6, <1>7, <1>8, DocumentRows, StatementStep DEF WentOn, DocumentsInv

LEMMA DeleteArriveStep ==
    ASSUME DocumentsInv, NEW r \in Request, DeleteArrive(r)
    PROVE  DocumentsInv'
<1>1. PICK d \in Doc :
        /\ doc[d].kind = "order" /\ doc[d].status = "DRAFT"
        /\ Arrive(r, "delete", "erase", d, "none", <<>>)
        /\ doc' = [doc EXCEPT ![d].lines = <<>>]
        /\ UNCHANGED <<qty, lock, docLock, posted, applied>>
  BY DEF DeleteArrive
<1>2. "erase" \in PCs /\ "none" \in Statuses /\ <<>> \in Seq(Line) /\ doc \in [Doc -> DocRow]
  BY DocumentRows DEF PCs, Statuses, DocumentsInv
<1>3. Arrived(r, "delete", "erase", d, "none", <<>>)
  BY <1>1, <1>2, ArriveFacts DEF DocumentsInv
<1>4. /\ doc' \in [Doc -> DocRow] /\ \A e \in Doc \ {d} : doc'[e] = doc[e]
      /\ doc'[d].kind = "order" /\ doc'[d].status = doc[d].status
  BY <1>1, <1>2 DEF DocRow
<1>5. InStep(r)'
  BY <1>1, <1>3, <1>4 DEF Arrived, InStep, InFlight, Claiming, Mine
<1>6. MovedIsClosed(d)'
  <2>1. Closed(d) => Closed(d)'
    BY <1>1, <1>4 DEF Closed
  <2> QED BY <1>1, <1>3, <2>1, ClosedStays DEF Arrived, DocumentsInv
<1>7. applied'[d] <= 1 \/ SetBack(d)'
  <2>1. SetBack(d) => SetBack(d)'
    BY <1>3, SetBackStays DEF Arrived
  <2> QED BY <1>1, <2>1 DEF DocumentsInv, MovedOnce
<1> QED BY <1>1, <1>3, <1>4, <1>5, <1>6, <1>7, DocumentRows, StatementStep DEF Arrived, DocumentsInv

LEMMA EditOrderStep ==
    ASSUME DocumentsInv, NEW r \in Request, EditOrder(r)
    PROVE  DocumentsInv'
<1>1. PICK d \in Doc, status \in OrderStatuses :
        /\ doc[d].kind = "order" /\ doc[d].status \notin {"none", "deleted"} /\ docLock[d] = Nobody
        /\ Arrive(r, "edit", "done", d, status, <<>>)
        /\ doc' = [doc EXCEPT ![d].status = status]
        /\ UNCHANGED <<qty, lock, docLock, posted, applied>>
  BY DEF EditOrder
<1>2. /\ "done" \in PCs /\ <<>> \in Seq(Line) /\ doc \in [Doc -> DocRow]
      /\ status \in Statuses /\ status # "none"
  BY DocumentRows, StatusAssumption DEF PCs, Statuses, POStatuses, DocumentsInv
<1>3. Arrived(r, "edit", "done", d, status, <<>>)
  BY <1>1, <1>2, ArriveFacts DEF DocumentsInv
<1>4. /\ doc' \in [Doc -> DocRow] /\ \A e \in Doc \ {d} : doc'[e] = doc[e]
      /\ doc'[d].kind = "order" /\ doc'[d].status = status
  BY <1>1, <1>2 DEF DocRow
<1>5. InStep(r)'
  BY <1>1, <1>2, <1>3, <1>4 DEF Arrived, InStep, InFlight, Claiming, Mine
<1>6. MovedIsClosed(d)'
  <2>1. Closed(d)' \/ SetBack(d)'
    BY <1>3, <1>4 DEF Closed, SetBack, Arrived
  <2> QED BY <2>1 DEF MovedIsClosed
<1>7. applied'[d] <= 1 \/ SetBack(d)'
  <2>1. SetBack(d) => SetBack(d)'
    BY <1>3, SetBackStays DEF Arrived
  <2> QED BY <1>1, <2>1 DEF DocumentsInv, MovedOnce
<1> QED BY <1>1, <1>2, <1>3, <1>4, <1>5, <1>6, <1>7, DocumentRows, StatementStep DEF Arrived, DocumentsInv

\* A request goes on with its lines.
LEMMA GoOnFacts ==
    ASSUME TypeOK, NEW r \in Request, NEW lines \in Seq(Line), NEW pc \in PCs,
           req' = [req EXCEPT ![r].lines = lines, ![r].pc = pc]
    PROVE  WentOn(r, pc) /\ req'[r].lines = lines /\ req'[r].i = req[r].i /\ req'[r].moved = req[r].moved
<1> DEFINE f == [req EXCEPT ![r].lines = lines]
<1>1. req \in [Request -> ReqRow]
  BY DocumentRows
<1>2. /\ f \in [Request -> ReqRow] /\ f[r].lines = lines /\ \A s \in Request \ {r} : f[s] = req[s]
      /\ f[r].kind = req[r].kind /\ f[r].doc = req[r].doc /\ f[r].status = req[r].status
      /\ f[r].i = req[r].i /\ f[r].moved = req[r].moved
  BY <1>1 DEF ReqRow
<1>3. req' = [f EXCEPT ![r].pc = pc]
  OBVIOUS
<1> HIDE DEF f
<1>4. req' \in [Request -> ReqRow]
  <2>1. f[r] \in ReqRow /\ f \in [Request -> ReqRow]
    BY <1>2
  <2>2. [f[r] EXCEPT !.pc = pc] \in ReqRow
    BY <2>1 DEF ReqRow
  <2> QED BY <1>3, <2>1, <2>2
<1>5. /\ req'[r].pc = pc /\ req'[r].lines = f[r].lines /\ req'[r].i = f[r].i /\ req'[r].moved = f[r].moved
      /\ req'[r].kind = f[r].kind /\ req'[r].doc = f[r].doc /\ req'[r].status = f[r].status
      /\ \A s \in Request \ {r} : req'[s] = f[s]
  BY <1>2, <1>3 DEF ReqRow
<1> QED BY <1>1, <1>2, <1>4, <1>5 DEF WentOn

LEMMA NextLineFacts ==
    ASSUME TypeOK, NEW r \in Request, NEW moved \in [Row -> Int], NEW i \in Nat \ {0}, NEW pc \in PCs,
           req' = [req EXCEPT ![r].moved = moved, ![r].i = i, ![r].pc = pc]
    PROVE  WentOn(r, pc) /\ req'[r].lines = req[r].lines /\ req'[r].i = i /\ req'[r].moved = moved
<1> DEFINE f == [req EXCEPT ![r].moved = moved]
           g == [f EXCEPT ![r].i = i]
<1>1. req \in [Request -> ReqRow]
  BY DocumentRows
<1>2. req' = [g EXCEPT ![r].pc = pc]
  OBVIOUS
<1>3. /\ f \in [Request -> ReqRow] /\ \A s \in Request \ {r} : f[s] = req[s]
      /\ f[r].kind = req[r].kind /\ f[r].doc = req[r].doc /\ f[r].status = req[r].status
      /\ f[r].lines = req[r].lines /\ f[r].moved = moved
  BY <1>1 DEF ReqRow
<1> HIDE DEF f
<1>4. /\ g \in [Request -> ReqRow] /\ \A s \in Request \ {r} : g[s] = req[s]
      /\ g[r].kind = req[r].kind /\ g[r].doc = req[r].doc /\ g[r].status = req[r].status
      /\ g[r].lines = req[r].lines /\ g[r].i = i /\ g[r].moved = moved
  BY <1>3 DEF ReqRow
<1> HIDE DEF g
<1>5. req' \in [Request -> ReqRow]
  <2>1. g[r] \in ReqRow /\ g \in [Request -> ReqRow]
    BY <1>4
  <2>2. [g[r] EXCEPT !.pc = pc] \in ReqRow
    BY <2>1 DEF ReqRow
  <2> QED BY <1>2, <2>1, <2>2
<1>6. /\ req'[r].pc = pc /\ req'[r].lines = g[r].lines /\ req'[r].i = g[r].i /\ req'[r].moved = g[r].moved
      /\ req'[r].kind = g[r].kind /\ req'[r].doc = g[r].doc /\ req'[r].status = g[r].status
      /\ \A s \in Request \ {r} : req'[s] = g[s]
  BY <1>2, <1>4 DEF ReqRow
<1> QED BY <1>1, <1>4, <1>5, <1>6 DEF WentOn

LEMMA ClaimStep ==
    ASSUME DocumentsInv, NEW r \in Request, Claim(r)
    PROVE  DocumentsInv'
<1>1. req[r].pc = "claim" /\ docLock[req[r].doc] = Nobody
  BY DEF Claim, At
<1>2. CASE ~Claimable(r) /\ Fail(r)
  BY <1>1, <1>2, FailStep DEF InFlight
<1>3. CASE /\ Claimable(r)
           /\ docLock' = [docLock EXCEPT ![req[r].doc] = r]
           /\ req' = [req EXCEPT ![r].lines = ClaimedLines(r),
                                 ![r].pc = IF ClaimedLines(r) = <<>> THEN "commit" ELSE "take"]
           /\ UNCHANGED <<qty, lock, doc, posted, applied>>
  <2>1. PICK d \in Doc : d = req[r].doc
    BY <1>1 DEF DocumentsInv, InStep, InFlight
  <2>2. /\ doc[d].status # "none" /\ doc \in [Doc -> DocRow] /\ req[r] \in ReqRow
        /\ doc[d].kind = "transfer" => SourceFirst(doc[d].lines) /\ SourceFirst(req[r].lines)
        /\ req[r].i = 1 /\ req[r].moved = Zero
    BY <1>1, <2>1, DocumentRows DEF DocumentsInv, InStep, Mine
  <2>3. PICK lines \in Seq(Line) :
          /\ lines = ClaimedLines(r) /\ (lines # <<>> => MovesStock(r))
          /\ doc[d].kind = "transfer" => SourceFirst(lines)
    <3>1. CASE ~MovesStock(r)
      <4>1. ClaimedLines(r) = <<>> /\ <<>> \in Seq(Line) /\ SourceFirst(<<>>)
        BY <3>1 DEF ClaimedLines, SourceFirst
      <4> QED BY <4>1
    <3>2. CASE MovesStock(r) /\ doc[d].kind = "transfer"
      BY <2>1, <2>2, <3>2 DEF ClaimedLines, Mine, ReqRow
    <3>3. CASE MovesStock(r) /\ doc[d].kind # "transfer"
      BY <2>1, <2>2, <3>3 DEF ClaimedLines, Mine, DocRow
    <3> QED BY <3>1, <3>2, <3>3
  <2>4. PICK pc \in PCs : pc = IF lines = <<>> THEN "commit" ELSE "take"
    BY DEF PCs
  <2>5. WentOn(r, pc) /\ req'[r].lines = lines /\ req'[r].i = 1 /\ req'[r].moved = Zero
    BY <1>3, <2>2, <2>3, <2>4, GoOnFacts DEF DocumentsInv
  <2>6. /\ docLock' \in [Doc -> Request \cup {Nobody}] /\ docLock'[d] = r
        /\ \A e \in Doc, s \in Request \ {r} : docLock[e] = s => docLock'[e] = s
    BY <1>1, <1>3, <2>1, DocumentRows, NobodyAssumption DEF DocumentsInv
  <2>7. InStep(r)'
    <3>1. lines # <<>> => 1 \in 1 .. Len(lines)
      OBVIOUS
    <3>2. Claimable(r)' /\ (MovesStock(r) => MovesStock(r)')
      BY <1>3, <2>1, <2>5 DEF Claimable, MovesStock, Mine, WentOn
    <3>3. \/ req[r].kind = "approve" /\ Mine(r).kind # "order" /\ req[r].status = "COMPLETED"
          \/ req[r].kind = "status" /\ Mine(r).kind = "order" /\ req[r].status \in POStatuses
      BY <1>1 DEF DocumentsInv, InStep
    <3> HIDE DEF DocumentsInv
    <3> QED BY <1>3, <2>1, <2>2, <2>3, <2>4, <2>5, <2>6, <3>1, <3>2, <3>3
            DEF WentOn, InStep, InFlight, Claiming, Mine
  <2>8. MovedIsClosed(d)'
    <3>1. Closed(d) => Closed(d)'
      BY <1>3 DEF Closed
    <3> QED BY <1>1, <1>3, <2>5, <3>1, ClosedStays DEF WentOn, DocumentsInv
  <2>9. applied'[d] <= 1 \/ SetBack(d)'
    <3>1. SetBack(d) => SetBack(d)'
      BY <1>1, <2>5, SetBackStays DEF WentOn
    <3> QED BY <1>3, <3>1 DEF DocumentsInv, MovedOnce
  <2> QED BY <1>1, <1>3, <2>2, <2>5, <2>6, <2>7, <2>8, <2>9, DocumentRows, StatementStep DEF WentOn, DocumentsInv
<1> QED BY <1>2, <1>3 DEF Claim

\* What a request has moved once a line is done is a quantity per row: the
\* destination of a transfer's item has its source before it.
LEMMA MovedIsTyped ==
    ASSUME DocumentsInv, NEW r \in Request, req[r].pc = "take"
    PROVE  Current(r) \in Line /\ MovedNow(r) \in [Row -> Int]
<1>1. /\ req[r] \in ReqRow /\ qty \in [Row -> Int] /\ req[r].i \in 1 .. Len(req[r].lines)
      /\ Mine(r).kind = "transfer" => SourceFirst(req[r].lines)
  BY DocumentRows DEF DocumentsInv, InStep
<1>2. PICK lines \in Seq(Line), i \in Nat, m \in [Row -> Int] :
        lines = req[r].lines /\ i = req[r].i /\ m = req[r].moved /\ i \in 1 .. Len(lines)
  <2>1. req[r].lines \in Seq(Line) /\ req[r].i \in Nat /\ req[r].moved \in [Row -> Int]
    BY <1>1 DEF ReqRow
  <2> QED BY <1>1, <2>1
<1>3. lines[i] \in Line /\ Current(r) = lines[i]
  BY <1>2 DEF Current
<1>4. CASE Source(r)
  <2>1. ~Incoming(r)
    BY <1>3, <1>4 DEF Source, Incoming, Line
  <2> QED BY <1>2, <1>3, <1>4, <2>1 DEF MovedNow
<1>5. CASE Incoming(r)
  <2>1. lines[1].qty < 0 /\ lines[i].qty > 0
    BY <1>1, <1>2, <1>3, <1>5 DEF Incoming, SourceFirst
  <2>2. i # 1
    BY <1>3, <2>1 DEF Line
  <2>3. lines[i - 1] \in Line /\ SourceLine(r) = lines[i - 1]
    BY <1>2, <2>2 DEF SourceLine
  <2>4. PICK x \in Row, y \in Row, n \in Int, k \in Int :
          x = SourceLine(r).row /\ n = SourceLine(r).qty /\ y = Current(r).row /\ k = Current(r).qty
    BY <1>3, <2>3 DEF Line
  <2>5. ~Source(r)
    BY <1>3, <2>1 DEF Source, Line
  <2>6. MovedNow(r) = [m EXCEPT ![x] = @ + n, ![y] = m[y] + k]
    BY <1>2, <1>5, <2>4, <2>5 DEF MovedNow
  <2> DEFINE f == [m EXCEPT ![x] = @ + n]
  <2>7. f \in [Row -> Int]
    OBVIOUS
  <2>8. MovedNow(r) = [f EXCEPT ![y] = m[y] + k]
    BY <2>6
  <2> HIDE DEF f
  <2> QED BY <1>3, <2>7, <2>8
<1>6. CASE ~Source(r) /\ ~Incoming(r)
  <2>1. PICK y \in Row, k \in Int : y = Current(r).row /\ k = Current(r).qty
    BY <1>3 DEF Line
  <2>2. Delta(r, Current(r)) \in Int
    BY <1>1, <1>2, <2>1 DEF Delta, Sees
  <2>3. MovedNow(r) = [m EXCEPT ![y] = @ + Delta(r, Current(r))]
    BY <1>2, <1>6, <2>1 DEF MovedNow
  <2> QED BY <1>3, <2>2, <2>3
<1> QED BY <1>3, <1>4, <1>5, <1>6

LEMMA TakeRowStep ==
    ASSUME DocumentsInv, NEW r \in Request, TakeRow(r)
    PROVE  DocumentsInv'
<1>1. /\ req[r].pc = "take" /\ UNCHANGED <<qty, doc, docLock, posted, applied>>
      /\ lock' = [lock EXCEPT ![Current(r).row] = r]
  BY DEF TakeRow, At, lockInventoryRow
<1>2. /\ req[r] \in ReqRow /\ req[r].i \in 1 .. Len(req[r].lines) /\ req[r].lines \in Seq(Line)
      /\ Mine(r).kind = "transfer" => SourceFirst(req[r].lines)
  BY <1>1, DocumentRows DEF DocumentsInv, InStep, ReqRow
<1>3. PICK d \in Doc : d = req[r].doc
  BY <1>1 DEF DocumentsInv, InStep, InFlight
<1>4. Current(r) \in Line /\ MovedNow(r) \in [Row -> Int]
  BY <1>1, MovedIsTyped
<1>5. lock' \in [Row -> Request \cup {Nobody}]
  BY <1>1, <1>4, DocumentRows DEF DocumentsInv, Line
<1>6. PICK pc \in {"take", "commit"} :
        /\ WentOn(r, pc) /\ req'[r].lines = req[r].lines
        /\ pc = "take" => req'[r].i \in 1 .. Len(req[r].lines)
  <2>1. CASE Short(r)
    <3>1. Finish(r, "commit") /\ "commit" \in PCs
      BY <2>1 DEF TakeRow, PCs
    <3> QED BY <3>1, FinishFacts DEF DocumentsInv
  <2>2. CASE ~Short(r)
    <3>1. PICK i \in Nat \ {0}, pc \in PCs :
            /\ i = IF req[r].i = Len(req[r].lines) THEN 1 ELSE req[r].i + 1
            /\ pc = IF req[r].i = Len(req[r].lines) THEN "commit" ELSE "take"
      BY <1>2 DEF PCs
    <3>2. PICK moved \in [Row -> Int] : moved = MovedNow(r)
      BY <1>4
    <3>3. req' = [req EXCEPT ![r].moved = moved, ![r].i = i, ![r].pc = pc] /\ TypeOK
      BY <2>2, <3>1, <3>2 DEF TakeRow, NextLine, DocumentsInv
    <3>4. WentOn(r, pc) /\ req'[r].lines = req[r].lines /\ req'[r].i = i /\ req'[r].moved = moved
      BY <3>3, NextLineFacts
    <3> QED BY <1>2, <3>1, <3>4
  <2> QED BY <2>1, <2>2
<1>7. InStep(r) /\ InStep(r)'
  <2>1. Claimable(r) /\ Claimable(r)' /\ MovesStock(r) /\ MovesStock(r)'
    BY <1>1, <1>3, <1>6 DEF DocumentsInv, InStep, Claiming, Claimable, MovesStock, Mine, WentOn
  <2>2. InStep(r)
    BY DEF DocumentsInv
  <2> HIDE DEF DocumentsInv
  <2> QED BY <1>1, <1>3, <1>6, <2>1, <2>2 DEF WentOn, InStep, InFlight, Claiming, Mine
<1>8. MovedIsClosed(d)'
  <2>1. Closed(d) => Closed(d)'
    BY <1>1 DEF Closed
  <2> QED BY <1>1, <1>6, <2>1, ClosedStays DEF WentOn, DocumentsInv
<1>9. applied'[d] <= 1 \/ SetBack(d)'
  <2>1. SetBack(d) => SetBack(d)'
    BY <1>1, <1>6, SetBackStays DEF WentOn
  <2> QED BY <1>1, <2>1 DEF DocumentsInv, MovedOnce
<1>10. doc[d].status # "none"
  BY <1>3 DEF DocumentsInv, InStep, Mine
<1> QED BY <1>1, <1>3, <1>5, <1>6, <1>7, <1>8, <1>9, <1>10, DocumentRows, StatementStep DEF WentOn, DocumentsInv

\* The commit moves the stock of a document that nobody has closed, or sets
\* back the order whose status it writes.
LEMMA CommitStep ==
    ASSUME DocumentsInv, NEW r \in Request, Commit(r)
    PROVE  DocumentsInv'
<1>1. /\ "done" \in PCs /\ Finish(r, "done") /\ req[r].pc = "commit" /\ FreeLocks(r)
      /\ doc' = [doc EXCEPT ![req[r].doc].status = req[r].status]
      /\ qty' = [x \in Row |-> qty[x] + req[r].moved[x]]
      /\ posted' = [posted EXCEPT ![req[r].doc] = [x \in Row |-> @[x] + req[r].moved[x]]]
      /\ applied' = [applied EXCEPT ![req[r].doc] = IF req[r].moved = Zero THEN @ ELSE @ + 1]
  BY DEF PCs, Commit, At
<1>2. WentOn(r, "done")
  BY <1>1, FinishFacts DEF DocumentsInv
<1>3. PICK d \in Doc : d = req[r].doc
  BY <1>1 DEF DocumentsInv, InStep, InFlight
<1>4. /\ doc[d].status # "none" /\ docLock[d] = r /\ Claimable(r)
      /\ MovesStock(r) \/ req[r].moved = Zero
      /\ \/ req[r].kind = "approve" /\ doc[d].kind # "order" /\ req[r].status = "COMPLETED"
         \/ req[r].kind = "status" /\ doc[d].kind = "order" /\ req[r].status \in POStatuses
  BY <1>1, <1>3 DEF DocumentsInv, InStep, Claiming, Mine
<1>5. /\ doc \in [Doc -> DocRow] /\ qty \in [Row -> Int] /\ posted \in [Doc -> [Row -> Int]]
      /\ applied \in [Doc -> Nat] /\ req[r].moved \in [Row -> Int] /\ req[r].status \in Statuses
  BY DocumentRows DEF DocumentsInv, ReqRow
<1>6. /\ doc' \in [Doc -> DocRow] /\ \A e \in Doc \ {d} : doc'[e] = doc[e]
      /\ doc'[d].kind = doc[d].kind /\ doc'[d].status = req[r].status /\ doc'[d].lines = doc[d].lines
  BY <1>1, <1>3, <1>5 DEF DocRow
<1>7. req[r].status # "none"
  BY <1>4 DEF POStatuses
<1>8. qty' \in [Row -> Int] /\ posted' \in [Doc -> [Row -> Int]]
  BY <1>1, <1>3, <1>5
<1>9. /\ applied' \in [Doc -> Nat] /\ \A e \in Doc \ {d} : applied'[e] = applied[e]
      /\ applied'[d] = IF req[r].moved = Zero THEN applied[d] ELSE applied[d] + 1
  BY <1>1, <1>3, <1>5
<1>10. InStep(r)'
  BY <1>2, <1>3, <1>6, <1>7 DEF WentOn, InStep, InFlight, Claiming, Mine
<1>11. SetBack(d) => SetBack(d)'
  BY <1>1, <1>2, SetBackStays DEF WentOn
<1>12. MovesStock(r) => Closed(d)' /\ (applied[d] = 0 \/ SetBack(d))
  <2>1. MovesStock(r) => Closed(d)'
    BY <1>4, <1>6 DEF MovesStock, Closed
  <2>2. MovesStock(r) => ~Closed(d)
    BY <1>3, <1>4 DEF MovesStock, Claimable, Closed, Mine
  <2> QED BY <2>1, <2>2 DEF DocumentsInv, MovedIsClosed
<1>13. ~MovesStock(r) => SetBack(d)'
  BY <1>2, <1>3, <1>4 DEF MovesStock, SetBack, WentOn
<1>14. MovedIsClosed(d)'
  BY <1>12, <1>13 DEF MovedIsClosed
<1>15. applied'[d] <= 1 \/ SetBack(d)'
  BY <1>5, <1>9, <1>11, <1>12, <1>13
<1>16. doc'[d].kind = "transfer" => SourceFirst(doc'[d].lines)
  BY <1>6 DEF DocumentsInv
<1> QED BY <1>1, <1>2, <1>4, <1>6, <1>7, <1>8, <1>9, <1>10, <1>14, <1>15, <1>16,
           DocumentRows, FreedLocks, StatementStep DEF WentOn, DocumentsInv

LEMMA DocumentsInvStep == DocumentsInv /\ [Next]_vars => DocumentsInv'
<1> SUFFICES ASSUME DocumentsInv, [Next]_vars PROVE DocumentsInv'
  OBVIOUS
<1>1. ASSUME NEW r \in Request, Arrival(r) PROVE DocumentsInv'
  BY <1>1, CreateStep, ApproveArriveStep, StatusArriveStep, RejectArriveStep, EditOrderStep,
     DeleteArriveStep, SellStep DEF Arrival
<1>2. ASSUME NEW r \in Request, Step(r) PROVE DocumentsInv'
  BY <1>2, CreateItemsStep, ClaimStep, TakeRowStep, CommitStep, RejectWriteStep, DeleteOrderStep,
     DeadlockVictimStep DEF Step
<1>3. ASSUME NEW r \in Request, Crash(r) PROVE DocumentsInv'
  BY <1>3, FailStep DEF Crash
<1>4. CASE UNCHANGED vars
  BY <1>4 DEF vars, DocumentsInv, TypeOK, InStep, InFlight, Claiming, Claimable, MovesStock, Mine,
              MovedIsClosed, SetBack, Closed, MovedOnce
<1> QED BY <1>1, <1>2, <1>3, <1>4 DEF Next

\* The documents and the requests at work on them are as DocumentsInv says.
THEOREM DocumentsInvariantHolds == Spec => []DocumentsInv
BY DocumentsInvInit, DocumentsInvStep, PTL DEF Spec

\* MovedOnce: approving or receiving a document moves its stock at most once,
\* unless an order has been set to another status in between.
THEOREM DocumentsMoveOnce == Spec => []MovedOnce
<1>1. DocumentsInv => MovedOnce
  BY DEF DocumentsInv
<1> QED BY <1>1, DocumentsInvariantHolds, PTL

(***************************************************************************)
(* Transfers.  TransferBalanced is about sums over the rows, so it needs   *)
(* what each request has moved to sum to zero whenever it may commit: both *)
(* rows of an item are written in one step, at its destination, and the    *)
(* lines are those of the document, whose items nobody writes twice.       *)
(***************************************************************************)
\* Each source is followed by the destination of the same quantity.
Paired(lines) ==
    /\ Len(lines) % 2 = 0
    /\ \A k \in DOMAIN lines : k % 2 = 1 =>
          lines[k].qty < 0 /\ lines[k + 1].qty = -lines[k].qty

Even(d) ==
    /\ doc[d].status = "none" => doc[d].lines = <<>> /\ SumOver(posted[d], Row) = 0
    /\ doc[d].kind = "transfer" =>
          Paired(doc[d].lines) /\ (~ToItself(doc[d].lines) => SumOver(posted[d], Row) = 0)

\* The items of the document of r are still to be inserted, by r alone.
Inserting(r) ==
    /\ Mine(r).lines = <<>> /\ Paired(req[r].lines)
    /\ \A q \in Request : At(q, "items") /\ req[q].doc = req[r].doc => q = r

\* What r moves it takes from one row and gives to another.
Transferring(r) ==
    /\ req[r].lines \in {<<>>, Mine(r).lines}
    /\ ~ToItself(req[r].lines) => SumOver(req[r].moved, Row) = 0

InPairs(r) ==
    Mine(r).kind = "transfer" =>
        /\ At(r, "items") => Inserting(r)
        /\ req[r].pc \in {"claim", "take", "commit"} => Transferring(r)

BalanceInv == (\A d \in Doc : Even(d)) /\ (\A r \in Request : InPairs(r))

LEMMA NothingMoved == SumOver(Zero, Row) = 0
<1>1. \A x \in Row : Zero[x] = 0
  BY DEF Zero
<1> QED BY <1>1, RowAssumption, SumOfZeros

LEMMA CreatedIsPaired ==
    ASSUME NEW c \in Choices, c.kind = "transfer"
    PROVE  Paired(c.lines)
BY ChoiceAssumption DEF Paired

LEMMA NoLines == Paired(<<>>) /\ ~ToItself(<<>>)
BY DEF Paired, ToItself

LEMMA BalanceInvInit == Init => BalanceInv
<1> SUFFICES ASSUME Init PROVE BalanceInv
  OBVIOUS
<1>1. ASSUME NEW d \in Doc PROVE Even(d)
  <2>1. SumOver(posted[d], Row) = 0
    BY NothingMoved DEF Init
  <2>2. CASE doc[d] = NoDoc
    BY <2>1, <2>2, NoLines DEF Even, NoDoc
  <2>3. ASSUME NEW c \in Existing, doc[d] = Created(c)
        PROVE  Even(d)
    <3>1. c \in Choices
      BY ExistAssumption
    <3>2. /\ Created(c).lines = c.lines /\ Created(c).kind = c.kind /\ Created(c).status # "none"
          /\ c.kind = "transfer" => Paired(c.lines)
      BY <3>1, CreatedIsDocument, CreatedIsPaired
    <3> QED BY <2>1, <2>3, <3>2 DEF Even
  <2> QED BY <2>2, <2>3 DEF Init
<1>2. ASSUME NEW r \in Request PROVE InPairs(r)
  BY DEF Init, Fresh, InPairs, At
<1> QED BY <1>1, <1>2 DEF BalanceInv

\* The balance is kept by what leaves the items of the transfers alone.
LEMMA BalanceStays ==
    ASSUME DocumentsInv, BalanceInv, NEW r \in Request,
           \A s \in Request \ {r} : req'[s] = req[s], req'[r].pc # "items",
           \A d \in Doc : /\ doc'[d].kind = doc[d].kind
                          /\ doc[d].kind = "transfer" => doc'[d].lines = doc[d].lines,
           \A d \in Doc : Even(d)', InPairs(r)'
    PROVE  BalanceInv'
<1>1. ASSUME NEW s \in Request \ {r} PROVE InPairs(s)'
  <2>1. CASE req[s].pc \in {"items", "claim", "take", "commit"}
    <3>1. req[s].doc \in Doc
      BY <2>1 DEF DocumentsInv, InStep, InFlight
    <3>2. /\ req'[s] = req[s] /\ doc'[req[s].doc].kind = doc[req[s].doc].kind
          /\ doc[req[s].doc].kind = "transfer" => doc'[req[s].doc].lines = doc[req[s].doc].lines
      BY <3>1
    <3>3. InPairs(s)
      BY DEF BalanceInv
    <3>4. \A q \in Request : At(q, "items")' => At(q, "items") /\ req'[q] = req[q]
      BY DEF At
    <3> HIDE DEF DocumentsInv, BalanceInv
    <3> QED BY <3>2, <3>3, <3>4 DEF InPairs, Inserting, Transferring, Mine, At
  <2>2. CASE req[s].pc \notin {"items", "claim", "take", "commit"}
    BY <2>2 DEF InPairs, At
  <2> QED BY <2>1, <2>2
<1> QED BY <1>1 DEF BalanceInv

\* A document stays even when its items and its stock are left alone.
LEMMA EvenStays ==
    ASSUME NEW d \in Doc, Even(d), doc'[d].kind = doc[d].kind, posted'[d] = posted[d],
           doc[d].kind = "transfer" => doc'[d].lines = doc[d].lines,
           doc'[d].status = "none" => doc[d].status = "none" /\ doc'[d].lines = doc[d].lines
    PROVE  Even(d)'
BY DEF Even

\* A request outside the window between its arrival at a transfer and its
\* commit has nothing to balance.
LEMMA OutOfPairs ==
    ASSUME NEW r \in Request, req'[r].pc \notin {"items", "claim", "take", "commit"}
    PROVE  InPairs(r)'
BY DEF InPairs, At
-----------------------------------------------------------------------------
LEMMA CreateIsEven ==
    ASSUME DocumentsInv, BalanceInv, NEW r \in Request, Create(r)
    PROVE  BalanceInv'
<1>1. PICK d \in Doc, c \in Choices :
        /\ doc[d].status = "none"
        /\ Arrive(r, "create", "items", d, "none", c.lines)
        /\ doc' = [doc EXCEPT ![d] = [Created(c) EXCEPT !.lines = <<>>]]
        /\ UNCHANGED <<qty, lock, docLock, posted, applied>>
  BY DEF Create
<1>2. c.lines \in Seq(Line) /\ "items" \in PCs /\ "none" \in Statuses
  BY ChoiceAssumption DEF PCs, Statuses
<1>3. Arrived(r, "create", "items", d, "none", c.lines)
  BY <1>1, <1>2, ArriveFacts DEF DocumentsInv
<1>4. /\ \A e \in Doc \ {d} : doc'[e] = doc[e]
      /\ doc'[d].status # "none" /\ doc'[d].lines = <<>> /\ doc'[d].kind = c.kind
  <2>1. Created(c) \in DocRow /\ Created(c).status # "none" /\ Created(c).kind = c.kind
    BY CreatedIsDocument
  <2>2. doc \in [Doc -> DocRow]
    BY DocumentRows DEF DocumentsInv
  <2> DEFINE row == [Created(c) EXCEPT !.lines = <<>>]
  <2>3. row.status # "none" /\ row.lines = <<>> /\ row.kind = c.kind /\ doc' = [doc EXCEPT ![d] = row]
    BY <1>1, <2>1 DEF DocRow
  <2> HIDE DEF row
  <2> QED BY <2>2, <2>3
<1>5. ASSUME NEW e \in Doc PROVE Even(e)'
  <2>0. Even(e)
    BY DEF BalanceInv
  <2>1. CASE e = d
    BY <1>1, <1>4, <2>0, <2>1, NoLines DEF Even
  <2>2. CASE e # d
    BY <1>1, <1>4, <2>0, <2>2 DEF Even
  <2> QED BY <2>1, <2>2
<1>6. ASSUME NEW s \in Request \ {r}, req[s].doc \in Doc PROVE req'[s] = req[s] /\ req[s].doc # d
  BY <1>1, <1>3, <1>6 DEF DocumentsInv, InStep, Mine, Arrived
<1>7. InPairs(r)'
  <2>1. doc'[d].kind = "transfer" => Paired(c.lines)
    BY <1>4, CreatedIsPaired
  <2>2. \A q \in Request : At(q, "items")' /\ req'[q].doc = d => q = r
    BY <1>3, <1>6 DEF Arrived
  <2> QED BY <1>3, <1>4, <2>1, <2>2 DEF Arrived, InPairs, Inserting, Mine, At
<1>8. ASSUME NEW s \in Request \ {r} PROVE InPairs(s)'
  <2>1. CASE req[s].pc \in {"items", "claim", "take", "commit"}
    <3>1. req[s].doc \in Doc
      BY <2>1 DEF DocumentsInv, InStep, InFlight
    <3>2. req'[s] = req[s] /\ req[s].doc # d /\ doc'[req[s].doc] = doc[req[s].doc]
      BY <1>4, <1>6, <3>1
    <3>3. InPairs(s)
      BY DEF BalanceInv
    <3>4. \A q \in Request : At(q, "items")' => q = r \/ (At(q, "items") /\ req'[q] = req[q])
      BY <1>3 DEF At, Arrived
    <3>5. req'[r].doc = d
      BY <1>3 DEF Arrived
    <3> HIDE DEF DocumentsInv, BalanceInv
    <3> QED BY <3>2, <3>3, <3>4, <3>5 DEF InPairs, Inserting, Transferring, Mine, At
  <2>2. CASE req[s].pc \notin {"items", "claim", "take", "commit"}
    BY <1>3, <2>2 DEF InPairs, At, Arrived
  <2> QED BY <2>1, <2>2
<1> QED BY <1>5, <1>7, <1>8 DEF BalanceInv

LEMMA CreateItemsIsEven ==
    ASSUME DocumentsInv, BalanceInv, NEW r \in Request, CreateItems(r)
    PROVE  BalanceInv'
<1>1. "done" \in PCs /\ Finish(r, "done") /\ req[r].pc = "items" /\ posted' = posted
  BY DEF PCs, CreateItems, At
<1>2. WentOn(r, "done")
  BY <1>1, FinishFacts DEF DocumentsInv
<1>3. PICK d \in Doc : d = req[r].doc /\ doc[d].status # "none"
  BY <1>1 DEF DocumentsInv, InStep, InFlight, Mine
<1>4. InPairs(r) /\ Even(d) /\ doc \in [Doc -> DocRow]
  BY DocumentRows DEF BalanceInv, DocumentsInv
<1>5. /\ \A e \in Doc \ {d} : doc'[e] = doc[e]
      /\ doc'[d].kind = doc[d].kind /\ doc'[d].status = doc[d].status
      /\ doc'[d].lines \in {doc[d].lines, req[r].lines}
  <2>1. CASE doc' = doc
    BY <2>1
  <2>2. CASE doc' = [doc EXCEPT ![d].lines = req[r].lines]
    BY <1>4, <2>2 DEF DocRow
  <2> QED BY <1>3, <2>1, <2>2 DEF CreateItems
<1>6. doc[d].kind = "transfer" =>
          /\ doc[d].lines = <<>> /\ Paired(req[r].lines) /\ SumOver(posted[d], Row) = 0
          /\ \A q \in Request \ {r} : ~(At(q, "items") /\ req[q].doc = d)
  BY <1>1, <1>3, <1>4, NoLines DEF InPairs, Inserting, Mine, At, Even
<1>7. ASSUME NEW e \in Doc PROVE Even(e)'
  <2>0. Even(e)
    BY DEF BalanceInv
  <2>1. CASE e = d
    BY <1>1, <1>3, <1>5, <1>6, <2>0, <2>1 DEF Even
  <2>2. CASE e # d
    BY <1>1, <1>5, <2>0, <2>2 DEF Even
  <2> QED BY <2>1, <2>2
<1>8. InPairs(r)'
  BY <1>2, OutOfPairs DEF WentOn
<1>9. ASSUME NEW s \in Request \ {r} PROVE InPairs(s)'
  <2>1. CASE req[s].pc \in {"items", "claim", "take", "commit"}
    <3>1. req[s].doc \in Doc
      BY <2>1 DEF DocumentsInv, InStep, InFlight
    <3>2. /\ req'[s] = req[s] /\ doc'[req[s].doc].kind = doc[req[s].doc].kind
          /\ At(s, "items") /\ doc[req[s].doc].kind = "transfer" => req[s].doc # d
      BY <1>2, <1>5, <1>6, <3>1 DEF WentOn
    <3>3. InPairs(s)
      BY DEF BalanceInv
    <3>4. \A q \in Request : At(q, "items")' => At(q, "items") /\ req'[q] = req[q]
      BY <1>2 DEF At, WentOn
    <3>5. CASE req[s].doc # d
      <4>1. doc'[req[s].doc] = doc[req[s].doc]
        BY <1>5, <3>1, <3>5
      <4> HIDE DEF DocumentsInv, BalanceInv
      <4> QED BY <3>2, <3>3, <3>4, <4>1 DEF InPairs, Inserting, Transferring, Mine, At
    <3>6. CASE req[s].doc = d
      <4>1. doc[d].kind = "transfer" => ~At(s, "items") /\ (Transferring(s) => req[s].lines = <<>>)
        BY <1>6, <3>2, <3>6 DEF Transferring, Mine
      <4> HIDE DEF DocumentsInv, BalanceInv
      <4> QED BY <3>2, <3>3, <3>6, <4>1 DEF InPairs, Transferring, Mine, At
    <3> QED BY <3>5, <3>6
  <2>2. CASE req[s].pc \notin {"items", "claim", "take", "commit"}
    BY <1>2, <2>2 DEF InPairs, At, WentOn
  <2> QED BY <2>1, <2>2
<1> QED BY <1>7, <1>8, <1>9 DEF BalanceInv

\* An arrival that leaves the documents alone, or the items of the transfers.
LEMMA ArrivalIsEven ==
    ASSUME DocumentsInv, BalanceInv, NEW r \in Request, NEW kind, NEW pc, NEW d, NEW status, NEW lines,
           Arrived(r, kind, pc, d, status, lines), pc # "items",
           \A e \in Doc : /\ doc'[e].kind = doc[e].kind
                          /\ doc[e].kind = "transfer" => doc'[e].lines = doc[e].lines
                          /\ doc'[e].status = "none" => doc'[e] = doc[e],
           posted' = posted,
           pc \in {"claim", "take", "commit"} =>
              d \in Doc /\ (doc[d].kind = "transfer" => lines = doc[d].lines)
    PROVE  BalanceInv'
<1>1. ASSUME NEW e \in Doc PROVE Even(e)'
  <2>1. Even(e)
    BY DEF BalanceInv
  <2> QED BY <2>1, EvenStays
<1>2. InPairs(r)'
  <2>1. CASE pc \in {"claim", "take", "commit"}
    <3>1. /\ req'[r].lines = lines /\ req'[r].moved = Zero /\ req'[r].doc = d /\ req'[r].pc # "items"
          /\ doc'[d].kind = "transfer" => lines = doc'[d].lines
      BY <2>1 DEF Arrived
    <3> QED BY <3>1, NothingMoved DEF InPairs, Transferring, Mine, At
  <2>2. CASE pc \notin {"claim", "take", "commit"}
    BY <2>2, OutOfPairs DEF Arrived
  <2> QED BY <2>1, <2>2
<1> QED BY <1>1, <1>2, BalanceStays DEF Arrived

\* A request that ends without moving stock, and writes at most a status.
LEMMA EndIsEven ==
    ASSUME DocumentsInv, BalanceInv, NEW r \in Request, NEW pc \in {"done", "failed"}, WentOn(r, pc),
           \A e \in Doc : /\ doc'[e].kind = doc[e].kind /\ doc'[e].lines = doc[e].lines
                          /\ doc'[e].status = "none" => doc[e].status = "none",
           posted' = posted
    PROVE  BalanceInv'
<1>1. ASSUME NEW e \in Doc PROVE Even(e)'
  <2>1. Even(e)
    BY DEF BalanceInv
  <2> QED BY <2>1, EvenStays
<1>2. InPairs(r)'
  BY OutOfPairs DEF WentOn
<1> QED BY <1>1, <1>2, BalanceStays DEF WentOn

LEMMA FailIsEven ==
    ASSUME DocumentsInv, BalanceInv, NEW r \in Request, Fail(r)
    PROVE  BalanceInv'
<1>1. "failed" \in PCs /\ Finish(r, "failed") /\ doc' = doc /\ posted' = posted
  BY DEF PCs, Fail
<1>2. WentOn(r, "failed")
  BY <1>1, FinishFacts DEF DocumentsInv
<1> QED BY <1>1, <1>2, EndIsEven

LEMMA ArrivalsAreEven ==
    ASSUME DocumentsInv, BalanceInv, NEW r \in Request, Arrival(r)
    PROVE  BalanceInv'
<1> USE DEF DocumentsInv
<1>0. doc \in [Doc -> DocRow] /\ <<>> \in Seq(Line) /\ Nobody \in Doc \cup {Nobody}
  BY DocumentRows
<1>1. CASE Create(r)
  BY <1>1, CreateIsEven
<1>2. ASSUME NEW d \in Doc, Arrive(r, "approve", "claim", d, "COMPLETED", doc[d].lines),
             UNCHANGED <<qty, lock, doc, docLock, posted, applied>>
      PROVE  BalanceInv'
  <2>1. PICK lines \in Seq(Line) : lines = doc[d].lines
    BY <1>0 DEF DocRow
  <2>2. "claim" \in PCs /\ "COMPLETED" \in Statuses
    BY DEF PCs, Statuses
  <2>3. Arrive(r, "approve", "claim", d, "COMPLETED", lines)
    BY <1>2, <2>1
  <2>4. Arrived(r, "approve", "claim", d, "COMPLETED", lines)
    BY <2>2, <2>3, ArriveFacts
  <2> QED BY <1>2, <2>1, <2>4, ArrivalIsEven
<1>3. ASSUME NEW d \in Doc, NEW status \in OrderStatuses, doc[d].kind = "order",
             Arrive(r, "status", "claim", d, status, <<>>),
             UNCHANGED <<qty, lock, doc, docLock, posted, applied>>
      PROVE  BalanceInv'
  <2>1. "claim" \in PCs /\ status \in Statuses
    BY StatusAssumption DEF PCs, Statuses
  <2>2. Arrived(r, "status", "claim", d, status, <<>>)
    BY <1>0, <1>3, <2>1, ArriveFacts
  <2> QED BY <1>3, <2>2, ArrivalIsEven
<1>4. ASSUME NEW d \in Doc, Arrive(r, "reject", "write", d, "REJECTED", <<>>),
             UNCHANGED <<qty, lock, doc, docLock, posted, applied>>
      PROVE  BalanceInv'
  <2>1. "write" \in PCs /\ "REJECTED" \in Statuses
    BY DEF PCs, Statuses
  <2>2. Arrived(r, "reject", "write", d, "REJECTED", <<>>)
    BY <1>0, <1>4, <2>1, ArriveFacts
  <2> QED BY <1>4, <2>2, ArrivalIsEven
<1>5. ASSUME NEW d \in Doc, NEW status \in OrderStatuses, doc[d].kind = "order",
             Arrive(r, "edit", "done", d, status, <<>>), doc' = [doc EXCEPT ![d].status = status],
             posted' = posted
      PROVE  BalanceInv'
  <2>1. "done" \in PCs /\ status \in Statuses /\ status # "none"
    BY StatusAssumption DEF PCs, Statuses, POStatuses
  <2>2. Arrived(r, "edit", "done", d, status, <<>>)
    BY <1>0, <1>5, <2>1, ArriveFacts
  <2>3. \A e \in Doc : /\ doc'[e].kind = doc[e].kind /\ doc'[e].lines = doc[e].lines
                       /\ doc'[e].status = "none" => doc'[e] = doc[e]
    BY <1>0, <1>5, <2>1 DEF DocRow
  <2> QED BY <1>5, <2>2, <2>3, ArrivalIsEven
<1>6. ASSUME NEW d \in Doc, doc[d].kind = "order", doc[d].status = "DRAFT",
             Arrive(r, "delete", "erase", d, "none", <<>>), doc' = [doc EXCEPT ![d].lines = <<>>],
             posted' = posted
      PROVE  BalanceInv'
  <2>1. "erase" \in PCs /\ "none" \in Statuses
    BY DEF PCs, Statuses
  <2>2. Arrived(r, "delete", "erase", d, "none", <<>>)
    BY <1>0, <1>6, <2>1, ArriveFacts
  <2>3. \A e \in Doc : /\ doc'[e].kind = doc[e].kind
                       /\ doc[e].kind = "transfer" => doc'[e].lines = doc[e].lines
                       /\ doc'[e].status = "none" => doc'[e] = doc[e]
    BY <1>0, <1>6 DEF DocRow
  <2> QED BY <1>6, <2>2, <2>3, ArrivalIsEven
<1>7. ASSUME Arrive(r, "sell", "done", Nobody, "none", <<>>), doc' = doc, posted' = posted
      PROVE  BalanceInv'
  <2>1. "done" \in PCs /\ "none" \in Statuses
    BY DEF PCs, Statuses
  <2>2. Arrived(r, "sell", "done", Nobody, "none", <<>>)
    BY <1>0, <1>7, <2>1, ArriveFacts
  <2> QED BY <1>7, <2>2, ArrivalIsEven
<1> HIDE DEF DocumentsInv
<1> QED BY <1>1, <1>2, <1>3, <1>4, <1>5, <1>6, <1>7
        DEF Arrival, ApproveArrive, StatusArrive, RejectArrive, EditOrder, DeleteArrive, Sell

LEMMA ClaimIsEven ==
    ASSUME DocumentsInv, BalanceInv, NEW r \in Request, Claim(r)
    PROVE  BalanceInv'
<1>1. CASE Fail(r)
  BY <1>1, FailIsEven
<1>2. CASE /\ req' = [req EXCEPT ![r].lines = ClaimedLines(r),
                                 ![r].pc = IF ClaimedLines(r) = <<>> THEN "commit" ELSE "take"]
           /\ UNCHANGED <<qty, lock, doc, posted, applied>>
  <2>1. req[r].pc = "claim" /\ req[r].doc \in Doc /\ req[r].moved = Zero
    BY DEF Claim, At, DocumentsInv, InStep, InFlight
  <2>2. doc \in [Doc -> DocRow] /\ req[r] \in ReqRow
    BY DocumentRows DEF DocumentsInv
  <2>3. PICK lines \in Seq(Line) : lines = ClaimedLines(r)
    <3>1. doc[req[r].doc].lines \in Seq(Line) /\ req[r].lines \in Seq(Line) /\ <<>> \in Seq(Line)
      BY <2>1, <2>2 DEF DocRow, ReqRow
    <3> QED BY <3>1 DEF ClaimedLines, Mine
  <2>4. PICK pc \in PCs : pc \in {"commit", "take"} /\ pc = IF lines = <<>> THEN "commit" ELSE "take"
    BY DEF PCs
  <2>5. WentOn(r, pc) /\ req'[r].lines = lines /\ req'[r].moved = Zero
    BY <1>2, <2>1, <2>3, <2>4, GoOnFacts DEF DocumentsInv
  <2>6. Mine(r).kind = "transfer" => lines \in {<<>>, Mine(r).lines}
    BY <2>1, <2>3 DEF ClaimedLines, BalanceInv, InPairs, Transferring, At
  <2>7. InPairs(r)'
    BY <1>2, <2>4, <2>5, <2>6, NothingMoved DEF InPairs, Transferring, Mine, At, WentOn
  <2>8. ASSUME NEW e \in Doc PROVE Even(e)'
    <3>1. Even(e)
      BY DEF BalanceInv
    <3> QED BY <1>2, <3>1, EvenStays
  <2> QED BY <1>2, <2>4, <2>5, <2>7, <2>8, BalanceStays DEF WentOn
<1> QED BY <1>1, <1>2 DEF Claim

\* Once an item's destination is done, what r has moved is even again.
LEMMA MovedIsEven ==
    ASSUME DocumentsInv, BalanceInv, NEW r \in Request, req[r].pc = "take", Mine(r).kind = "transfer",
           ~ToItself(req[r].lines)
    PROVE  SumOver(MovedNow(r), Row) = 0
<1>1. /\ req[r] \in ReqRow /\ req[r].i \in 1 .. Len(req[r].lines) /\ req[r].doc \in Doc
      /\ SourceFirst(req[r].lines)
  BY DocumentRows DEF DocumentsInv, InStep, InFlight
<1>2. PICK lines \in Seq(Line), i \in Nat, m \in [Row -> Int] :
        lines = req[r].lines /\ i = req[r].i /\ m = req[r].moved /\ i \in 1 .. Len(lines)
  <2>1. req[r].lines \in Seq(Line) /\ req[r].i \in Nat /\ req[r].moved \in [Row -> Int]
    BY <1>1 DEF ReqRow
  <2> QED BY <1>1, <2>1
<1>3. Paired(lines) /\ SumOver(m, Row) = 0 /\ ~ToItself(lines)
  <2>1. Transferring(r) /\ Paired(Mine(r).lines)
    BY <1>1 DEF BalanceInv, InPairs, Even, Mine
  <2> QED BY <1>2, <2>1, NoLines DEF Transferring
<1>4. lines[i] \in Line /\ Current(r) = lines[i]
  BY <1>2 DEF Current
<1>5. CASE lines[i].qty < 0
  <2>1. Source(r)
    BY <1>4, <1>5 DEF Source
  <2>2. ~Incoming(r)
    BY <1>4, <1>5 DEF Incoming, Line
  <2>3. MovedNow(r) = m
    BY <1>2, <2>1, <2>2 DEF MovedNow
  <2> QED BY <1>3, <2>3
<1>6. CASE ~(lines[i].qty < 0)
  <2>1. lines[i].qty > 0
    BY <1>4, <1>6 DEF Line
  <2>2. Incoming(r) /\ ~Source(r)
    BY <1>4, <2>1, <1>6 DEF Incoming, Source
  <2>3. i % 2 # 1
    BY <1>2, <1>3, <1>6 DEF Paired
  <2>4. PICK k \in Nat : k = i - 1 /\ k \in 1 .. Len(lines) - 1 /\ k % 2 = 1 /\ k + 1 = i
    <3>1. i # 1
      BY <2>3
    <3>2. (i - 1) % 2 = 1
      BY <1>2, <2>3
    <3> QED BY <1>2, <3>1, <3>2
  <2>5. /\ lines[k].qty < 0 /\ lines[i].qty = -lines[k].qty /\ lines[k].row # lines[i].row
        /\ lines[k] \in Line
    <3>1. DOMAIN lines = 1 .. Len(lines) /\ Len(lines) \in Nat
      BY <1>2
    <3>2. k \in DOMAIN lines
      BY <2>4, <3>1
    <3>3. lines[k].qty < 0 /\ lines[k + 1].qty = -lines[k].qty
      BY <1>3, <2>4, <3>2, Zenon DEF Paired
    <3>4. lines[k].row # lines[k + 1].row
      BY <1>3, <2>4, <3>3 DEF ToItself
    <3>5. lines[k] \in Line
      BY <3>1, <3>2
    <3> QED BY <2>4, <3>3, <3>4, <3>5
  <2>6. PICK x \in Row, y \in Row, n \in Int, l \in Int :
          x = lines[k].row /\ n = lines[k].qty /\ y = lines[i].row /\ l = lines[i].qty
    BY <1>4, <2>5 DEF Line
  <2>7. MovedNow(r) = [m EXCEPT ![x] = @ + n, ![y] = m[y] + l]
    BY <1>2, <1>4, <2>2, <2>4, <2>6 DEF MovedNow, SourceLine
  <2> DEFINE f == [m EXCEPT ![x] = m[x] + n]
             g == [f EXCEPT ![y] = m[y] + l]
  <2>8. x # y /\ l = -n
    BY <2>5, <2>6
  <2>9. MovedNow(r) = g
    BY <2>7
  <2>10. /\ \A z \in Row : f[z] \in Int /\ m[z] \in Int /\ (z # x => f[z] = m[z])
         /\ f[x] = m[x] + n /\ f[y] = m[y]
    BY <2>8
  <2>11. /\ \A z \in Row : g[z] \in Int /\ (z # y => g[z] = f[z])
         /\ g[y] = m[y] + l
    BY <2>8
  <2> HIDE DEF f, g
  <2>12. SumOver(f, Row) = SumOver(m, Row) - m[x] + f[x]
    <3>1. (\A z \in Row : m[z] \in Int /\ f[z] \in Int) /\ (\A z \in Row \ {x} : f[z] = m[z])
      BY <2>10
    <3>2. IsFiniteSet(Row)
      BY RowAssumption
    <3> QED BY <3>1, <3>2, SumChanges, SMTT(30)
  <2>13. SumOver(g, Row) = SumOver(f, Row) - f[y] + g[y]
    <3>1. (\A z \in Row : f[z] \in Int /\ g[z] \in Int) /\ (\A z \in Row \ {y} : g[z] = f[z])
      BY <2>10, <2>11
    <3>2. IsFiniteSet(Row)
      BY RowAssumption
    <3> QED BY <3>1, <3>2, SumChanges, SMTT(30)
  <2>14. m[x] \in Int /\ m[y] \in Int
    OBVIOUS
  <2> QED BY <1>3, <2>8, <2>9, <2>10, <2>11, <2>12, <2>13, <2>14
<1> QED BY <1>5, <1>6

LEMMA TakeRowIsEven ==
    ASSUME DocumentsInv, BalanceInv, NEW r \in Request, TakeRow(r)
    PROVE  BalanceInv'
<1>1. req[r].pc = "take" /\ UNCHANGED <<qty, doc, docLock, posted, applied>>
  BY DEF TakeRow, At
<1>2. /\ req[r] \in ReqRow /\ req[r].i \in 1 .. Len(req[r].lines) /\ req[r].lines \in Seq(Line)
      /\ req[r].i \in Nat \ {0}
  BY <1>1, DocumentRows DEF DocumentsInv, InStep, ReqRow
<1>3. PICK pc \in {"take", "commit"} :
        /\ WentOn(r, pc) /\ req'[r].lines = req[r].lines
        /\ req'[r].moved \in {req[r].moved, MovedNow(r)}
  <2>1. CASE Short(r)
    <3>1. Finish(r, "commit") /\ "commit" \in PCs
      BY <2>1 DEF TakeRow, PCs
    <3> QED BY <3>1, FinishFacts DEF DocumentsInv
  <2>2. CASE ~Short(r)
    <3>1. PICK i \in Nat \ {0}, pc \in PCs :
            /\ i = IF req[r].i = Len(req[r].lines) THEN 1 ELSE req[r].i + 1
            /\ pc = IF req[r].i = Len(req[r].lines) THEN "commit" ELSE "take"
      BY <1>2 DEF PCs
    <3>2. PICK moved \in [Row -> Int] : moved = MovedNow(r)
      BY <1>1, MovedIsTyped
    <3>3. req' = [req EXCEPT ![r].moved = moved, ![r].i = i, ![r].pc = pc] /\ TypeOK
      BY <2>2, <3>1, <3>2 DEF TakeRow, NextLine, DocumentsInv
    <3>4. WentOn(r, pc) /\ req'[r].lines = req[r].lines /\ req'[r].i = i /\ req'[r].moved = moved
      BY <3>3, NextLineFacts
    <3> QED BY <3>1, <3>2, <3>4
  <2> QED BY <2>1, <2>2
<1>4. InPairs(r)'
  <2>1. Mine(r).kind = "transfer" => Transferring(r)
    BY <1>1 DEF BalanceInv, InPairs
  <2>2. Mine(r).kind = "transfer" /\ ~ToItself(req[r].lines) => SumOver(MovedNow(r), Row) = 0
    BY <1>1, MovedIsEven
  <2>3. Mine(r)' = Mine(r)
    BY <1>1, <1>3 DEF Mine, WentOn
  <2>4. Mine(r).kind = "transfer" => Transferring(r)'
    BY <1>3, <2>1, <2>2, <2>3 DEF Transferring
  <2> QED BY <1>3, <2>3, <2>4 DEF InPairs, At, WentOn
<1>5. ASSUME NEW e \in Doc PROVE Even(e)'
  <2>1. Even(e)
    BY DEF BalanceInv
  <2> QED BY <1>1, <2>1, EvenStays
<1> QED BY <1>1, <1>3, <1>4, <1>5, BalanceStays DEF WentOn

LEMMA CommitIsEven ==
    ASSUME DocumentsInv, BalanceInv, NEW r \in Request, Commit(r)
    PROVE  BalanceInv'
<1>1. /\ "done" \in PCs /\ Finish(r, "done") /\ req[r].pc = "commit"
      /\ doc' = [doc EXCEPT ![req[r].doc].status = req[r].status]
      /\ posted' = [posted EXCEPT ![req[r].doc] = [x \in Row |-> @[x] + req[r].moved[x]]]
  BY DEF PCs, Commit, At
<1>2. WentOn(r, "done")
  BY <1>1, FinishFacts DEF DocumentsInv
<1>3. PICK d \in Doc : d = req[r].doc /\ doc[d].status # "none"
  BY <1>1 DEF DocumentsInv, InStep, InFlight, Mine
<1>4. req[r].status # "none"
  BY <1>1 DEF DocumentsInv, InStep, POStatuses
<1>5. /\ doc \in [Doc -> DocRow] /\ posted \in [Doc -> [Row -> Int]] /\ req[r].moved \in [Row -> Int]
  BY DocumentRows DEF DocumentsInv, ReqRow
<1>6. /\ \A e \in Doc \ {d} : doc'[e] = doc[e] /\ posted'[e] = posted[e]
      /\ doc'[d].kind = doc[d].kind /\ doc'[d].status = req[r].status /\ doc'[d].lines = doc[d].lines
      /\ posted'[d] = [x \in Row |-> posted[d][x] + req[r].moved[x]]
  BY <1>1, <1>3, <1>5 DEF DocRow
<1>7. SumOver(posted'[d], Row) = SumOver(posted[d], Row) + SumOver(req[r].moved, Row)
  <2>1. PICK m \in [Row -> Int], p \in [Row -> Int], q \in [Row -> Int] :
          m = req[r].moved /\ p = posted[d] /\ q = posted'[d] /\ \A x \in Row : q[x] = p[x] + m[x]
    <3>1. posted'[d] \in [Row -> Int] /\ posted[d] \in [Row -> Int]
      BY <1>5, <1>6
    <3> QED BY <1>5, <1>6, <3>1
  <2>2. \A x \in Row : p[x] \in Int /\ m[x] \in Int /\ q[x] = p[x] + m[x]
    BY <2>1
  <2>3. SumOver(q, Row) = SumOver(p, Row) + SumOver(m, Row)
    BY <2>2, RowAssumption, SumOfTwo
  <2> QED BY <2>1, <2>3
<1>8. ASSUME NEW e \in Doc PROVE Even(e)'
  <2>0. Even(e) /\ InPairs(r)
    BY DEF BalanceInv
  <2>1. CASE e = d
    <3>1. doc[d].kind = "transfer" => req[r].lines \in {<<>>, doc[d].lines}
                                   /\ (~ToItself(req[r].lines) => SumOver(req[r].moved, Row) = 0)
      BY <1>1, <1>3, <2>0 DEF InPairs, Transferring, Mine, At
    <3>2. doc[d].kind = "transfer" /\ ~ToItself(doc[d].lines) => SumOver(posted'[d], Row) = 0
      BY <1>7, <2>0, <2>1, <3>1, NoLines DEF Even
    <3> QED BY <1>4, <1>6, <2>0, <2>1, <3>2 DEF Even
  <2>2. CASE e # d
    BY <1>6, <2>0, <2>2 DEF Even
  <2> QED BY <2>1, <2>2
<1>9. InPairs(r)'
  BY <1>2, OutOfPairs DEF WentOn
<1>10. \A e \in Doc : doc'[e].kind = doc[e].kind /\ doc'[e].lines = doc[e].lines
  BY <1>6
<1> QED BY <1>2, <1>8, <1>9, <1>10, BalanceStays DEF WentOn

LEMMA StepsAreEven ==
    ASSUME DocumentsInv, BalanceInv, NEW r \in Request, Step(r)
    PROVE  BalanceInv'
<1>1. CASE RejectWrite(r)
  <2>1. /\ "done" \in PCs /\ Finish(r, "done") /\ posted' = posted
        /\ doc' = [doc EXCEPT ![req[r].doc].status = "REJECTED"]
    BY <1>1 DEF PCs, RejectWrite
  <2>2. WentOn(r, "done") /\ doc \in [Doc -> DocRow]
    BY <2>1, FinishFacts, DocumentRows DEF DocumentsInv
  <2>3. \A e \in Doc : /\ doc'[e].kind = doc[e].kind /\ doc'[e].lines = doc[e].lines
                       /\ doc'[e].status = "none" => doc[e].status = "none"
    BY <2>1, <2>2 DEF DocRow
  <2> QED BY <2>1, <2>2, <2>3, EndIsEven
<1>2. CASE DeleteOrder(r)
  <2>1. /\ "done" \in PCs /\ Finish(r, "done") /\ posted' = posted
        /\ doc' = [doc EXCEPT ![req[r].doc].status = "deleted"]
    BY <1>2 DEF PCs, DeleteOrder
  <2>2. WentOn(r, "done") /\ doc \in [Doc -> DocRow]
    BY <2>1, FinishFacts, DocumentRows DEF DocumentsInv
  <2>3. \A e \in Doc : /\ doc'[e].kind = doc[e].kind /\ doc'[e].lines = doc[e].lines
                       /\ doc'[e].status = "none" => doc[e].status = "none"
    BY <2>1, <2>2 DEF DocRow
  <2> QED BY <2>1, <2>2, <2>3, EndIsEven
<1>3. CASE DeadlockVictim(r)
  BY <1>3, FailIsEven DEF DeadlockVictim
<1> QED BY <1>1, <1>2, <1>3, CreateItemsIsEven, ClaimIsEven, TakeRowIsEven, CommitIsEven DEF Step

LEMMA BalanceInvStep == DocumentsInv /\ BalanceInv /\ [Next]_vars => BalanceInv'
<1> SUFFICES ASSUME DocumentsInv, BalanceInv, [Next]_vars PROVE BalanceInv'
  OBVIOUS
<1>1. ASSUME NEW r \in Request, Crash(r) PROVE BalanceInv'
  BY <1>1, FailIsEven DEF Crash
<1>2. CASE UNCHANGED vars
  BY <1>2 DEF vars, BalanceInv, Even, InPairs, Inserting, Transferring, Mine, At
<1> QED BY <1>1, <1>2, ArrivalsAreEven, StepsAreEven DEF Next

\* What requests have moved, and the documents that they moved it for, are
\* even as BalanceInv says.
THEOREM BalanceInvariantHolds == Spec => []BalanceInv
BY BalanceInvInit, BalanceInvStep, DocumentsInvariantHolds, PTL DEF Spec

\* TransferBalanced: a transfer between two branches moves stock and never
\* creates or destroys it, however far its approval got.
THEOREM TransfersBalance == Spec => []TransferBalanced
<1>1. DocumentsInv /\ BalanceInv => TransferBalanced
  <2> SUFFICES ASSUME DocumentsInv, BalanceInv, NEW d \in Doc, doc[d].kind = "transfer",
                      ~ToItself(doc[d].lines)
               PROVE  FoldFunction(+, 0, posted[d]) = 0
    BY DEF TransferBalanced
  <2>1. DOMAIN posted[d] = Row
    BY DocumentRows DEF DocumentsInv
  <2>2. FoldFunction(+, 0, posted[d]) = SumOver(posted[d], Row)
    BY <2>1, FoldIsSum
  <2> QED BY <2>2 DEF BalanceInv, Even
<1> QED BY <1>1, DocumentsInvariantHolds, BalanceInvariantHolds, PTL

(***************************************************************************)
(* Expenses.  FourEyes needs what a call in flight remembers of its checks *)
(* to still be true when it writes: who made an expense is never written   *)
(* again.  PaidForGood needs the same claim about calls that have read and *)
(* not written yet, and counts only those that wrote as its exceptions.    *)
(***************************************************************************)
\* u may have approved expense e.
Fit(e, u) == u \in Checker /\ (expense[e].createdBy = u => u \in Super)

CallInFlight(c) == call[c].pc = "write"

CallsAreChecked ==
    \A c \in Call : CallInFlight(c) =>
        /\ call[c].route \in Routes /\ call[c].expense \in Expense /\ call[c].user \in Person
        /\ expense[call[c].expense].status # "none"
        /\ call[c].route = "approve" => Fit(call[c].expense, call[c].user)
        /\ call[c].route = "pay" => expense[call[c].expense].approvedBy # Nil

ApprovalsAreFit ==
    \A e \in Expense :
        /\ expense[e].status \in {"APPROVED", "PAID"} => expense[e].approvedBy # Nil
        /\ expense[e].approvedBy # Nil => Fit(e, expense[e].approvedBy)

\* Only calls that have been answered were answered before another.
AfterIsReplied == \A c, b \in Call : b \in call[c].after => call[b].pc \in {"ok", "failed"}

\* Nothing that overlapped the payment p of e has written to e.
Alone(p, e) == \A c \in Call : ~(Served(c, e) /\ Overlap(c, p))

PaidIsClosed ==
    \A e \in Expense, p \in Call : Paid(p, e) /\ Alone(p, e) =>
        /\ expense[e].status = "PAID"
        /\ \A q \in Call : call[q].expense = e => p \notin call[q].after

ExpensesInv ==
    /\ ExpensesTypeOK
    /\ CallsAreChecked
    /\ ApprovalsAreFit
    /\ AfterIsReplied
    /\ PaidIsClosed
-----------------------------------------------------------------------------
LEMMA ExpensesInvInit == ExpensesInit => ExpensesInv
BY NilAssumption
   DEF ExpensesInit, ExpensesInv, ExpensesTypeOK, CallsAreChecked, ApprovalsAreFit, AfterIsReplied,
       PaidIsClosed, Paid, Served, CallInFlight, NoCall, NoExpense, Waiting, Routes, Outcome, Status

LEMMA CreateExpenseStep ==
    ASSUME ExpensesInv, NEW e \in Expense, NEW u \in Person, CreateExpense(e, u)
    PROVE  ExpensesInv'
<1> USE DEF ExpensesInv, ExpensesTypeOK, CreateExpense
<1>1. ExpensesTypeOK'
  <2>1. "DRAFT" \in Status
    BY DEF Status
  <2> QED BY <2>1, ZenonT(30)
<1>2. CallsAreChecked'
  BY DEF CallsAreChecked, CallInFlight, Fit
<1>3. ApprovalsAreFit'
  BY DEF ApprovalsAreFit, Fit
<1>4. AfterIsReplied'
  BY DEF AfterIsReplied
<1>5. PaidIsClosed'
  BY DEF PaidIsClosed, Paid, Served, Alone, Overlap
<1> QED BY <1>1, <1>2, <1>3, <1>4, <1>5

\* A call that stops before its update has seen e as route wants it, and
\* never PAID.
LEMMA ReadExpenseStep ==
    ASSUME ExpensesInv, NEW c \in Call, NEW e \in Expense, NEW u \in Person, NEW route \in Routes,
           Read(c, route, e, u),
           expense[e].status \notin {"none", "PAID"},
           route = "approve" => Fit(e, u),
           route = "pay" => expense[e].status = "APPROVED"
    PROVE  ExpensesInv'
<1> USE DEF ExpensesInv, ExpensesTypeOK, Read, Replied
<1>1. ExpensesTypeOK'
  OBVIOUS
<1>2. CallsAreChecked'
  BY DEF CallsAreChecked, CallInFlight, Fit, ApprovalsAreFit
<1>3. ApprovalsAreFit'
  BY DEF ApprovalsAreFit, Fit
<1>4. AfterIsReplied'
  BY DEF AfterIsReplied
<1>5. PaidIsClosed'
  <2> SUFFICES ASSUME NEW f \in Expense, NEW p \in Call, Paid(p, f)', Alone(p, f)'
               PROVE  /\ expense[f].status = "PAID"
                      /\ \A q \in Call : call'[q].expense = f => p \notin call'[q].after
    BY DEF PaidIsClosed
  <2>1. p # c /\ Paid(p, f)
    BY DEF Paid, Served
  <2>2. Alone(p, f)
    BY <2>1 DEF Alone, Served, Overlap
  <2>3. expense[f].status = "PAID" /\ \A q \in Call : call[q].expense = f => p \notin call[q].after
    BY <2>1, <2>2 DEF PaidIsClosed
  <2>4. f # e
    BY <2>3
  <2> QED BY <2>3, <2>4
<1> QED BY <1>1, <1>2, <1>3, <1>4, <1>5

LEMMA UpdateExpenseStep ==
    ASSUME ExpensesInv, NEW c \in Call, UpdateExpense(c)
    PROVE  ExpensesInv'
<1> DEFINE e == call[c].expense
<1> USE DEF ExpensesInv, ExpensesTypeOK, UpdateExpense
<1>1. /\ e \in Expense /\ call[c].route \in Routes /\ call[c].user \in Person
      /\ expense[e].status # "none"
      /\ call[c].route = "approve" => Fit(e, call[c].user)
      /\ call[c].route = "pay" => expense[e].approvedBy # Nil
  BY DEF CallsAreChecked, CallInFlight
<1>2. ExpensesTypeOK'
  <2>1. Outcome[call[c].route] \in Status
    BY <1>1 DEF Routes, Outcome, Status
  <2>2. \A f \in Expense : expense'[f] \in
          [status : Status, createdBy : Person \cup {Nil}, approvedBy : Person \cup {Nil}]
    BY <1>1, <2>1, SMTT(30)
  <2>3. expense' = [f \in Expense |-> expense'[f]]
    OBVIOUS
  <2>4. call' \in [Call -> [pc : {"idle", "write", "ok", "failed"}, route : Routes \cup {"none"},
                            expense : Expense \cup {Nil}, user : Person \cup {Nil},
                            after : SUBSET Call]]
    BY SMTT(30)
  <2> QED BY <2>2, <2>3, <2>4
<1>3. CallsAreChecked'
  <2>1. /\ call'[c].pc = "ok" /\ \A d \in Call \ {c} : call'[d] = call[d]
        /\ \A f \in Expense \ {e} : expense'[f] = expense[f]
        /\ expense'[e].status = Outcome[call[c].route] /\ expense'[e].createdBy = expense[e].createdBy
        /\ expense'[e].approvedBy = IF call[c].route = "approve" THEN call[c].user ELSE expense[e].approvedBy
    BY <1>1
  <2>2. /\ expense'[e].status # "none"
        /\ expense[e].approvedBy # Nil => expense'[e].approvedBy # Nil
    BY <1>1, <2>1, NilAssumption DEF Routes, Outcome
  <2>3. \A d \in Call : CallInFlight(d)' => d # c /\ CallInFlight(d)
    BY <2>1 DEF CallInFlight
  <2>4. CallsAreChecked /\ \A d \in Call : CallInFlight(d) => call[d].expense \in Expense
    BY DEF CallsAreChecked
  <2> HIDE DEF UpdateExpense, ExpensesInv, ExpensesTypeOK
  <2>5. \A f \in Expense :
          /\ expense'[f].createdBy = expense[f].createdBy
          /\ expense[f].status # "none" => expense'[f].status # "none"
          /\ expense[f].approvedBy # Nil => expense'[f].approvedBy # Nil
    <3> TAKE f \in Expense
    <3>1. CASE f = e
      BY <2>1, <2>2, <3>1
    <3>2. CASE f # e
      BY <2>1, <3>2
    <3> QED BY <3>1, <3>2
  <2> SUFFICES ASSUME NEW d \in Call, CallInFlight(d)'
               PROVE  (/\ call[d].route \in Routes /\ call[d].expense \in Expense /\ call[d].user \in Person
                       /\ expense[call[d].expense].status # "none"
                       /\ call[d].route = "approve" => Fit(call[d].expense, call[d].user)
                       /\ call[d].route = "pay" => expense[call[d].expense].approvedBy # Nil)'
    BY DEF CallsAreChecked
  <2>6. call'[d] = call[d] /\ CallInFlight(d)
    BY <2>1, <2>3
  <2> QED BY <2>4, <2>5, <2>6 DEF CallsAreChecked, Fit
<1>4. ApprovalsAreFit'
  BY <1>1, NilAssumption DEF ApprovalsAreFit, Fit, Routes, Outcome
<1>5. AfterIsReplied'
  BY DEF AfterIsReplied
<1>6. PaidIsClosed'
  <2> SUFFICES ASSUME NEW f \in Expense, NEW p \in Call, Paid(p, f)', Alone(p, f)'
               PROVE  /\ expense'[f].status = "PAID"
                      /\ \A q \in Call : call'[q].expense = f => p \notin call'[q].after
    BY DEF PaidIsClosed
  <2>1. CASE p = c
    <3>1. f = e /\ call[c].route = "pay"
      BY <2>1 DEF Paid, Served
    <3>2. \A q \in Call : c \notin call[q].after
      BY DEF AfterIsReplied
    <3> QED BY <1>1, <2>1, <3>1, <3>2 DEF Routes, Outcome
  <2>2. CASE p # c
    <3>1. Paid(p, f)
      BY <2>2 DEF Paid, Served
    <3>2. Alone(p, f)
      BY <2>2 DEF Alone, Served, Overlap
    <3>3. expense[f].status = "PAID" /\ \A q \in Call : call[q].expense = f => p \notin call[q].after
      BY <3>1, <3>2 DEF PaidIsClosed
    <3>4. f # e
      <4> SUFFICES ASSUME f = e PROVE FALSE
        OBVIOUS
      <4>1. p \notin call[c].after /\ c \notin call[p].after
        BY <3>3 DEF AfterIsReplied
      <4>2. Served(c, f)' /\ Overlap(c, p)'
        BY <2>2, <4>1 DEF Served, Overlap
      <4> QED BY <4>2 DEF Alone
    <3> QED BY <1>1, <3>3, <3>4
  <2> QED BY <2>1, <2>2
<1> QED BY <1>2, <1>3, <1>4, <1>5, <1>6

LEMMA FailCallStep ==
    ASSUME ExpensesInv, NEW c \in Call, FailCall(c)
    PROVE  ExpensesInv'
<1> USE DEF ExpensesInv, ExpensesTypeOK, FailCall
<1>1. ExpensesTypeOK'
  BY SMTT(30)
<1>2. CallsAreChecked'
  BY DEF CallsAreChecked, CallInFlight, Fit
<1>3. ApprovalsAreFit'
  BY DEF ApprovalsAreFit, Fit
<1>4. AfterIsReplied'
  BY DEF AfterIsReplied
<1>5. PaidIsClosed'
  <2>1. \A p \in Call, e \in Expense : Served(p, e)' <=> Served(p, e)
    BY DEF Served
  <2>2. \A p \in Call, e \in Expense : Alone(p, e)' => Alone(p, e)
    BY <2>1 DEF Alone, Overlap
  <2>3. \A p \in Call, e \in Expense : Paid(p, e)' => Paid(p, e)
    BY <2>1 DEF Paid
  <2> QED BY <2>2, <2>3 DEF PaidIsClosed
<1> QED BY <1>1, <1>2, <1>3, <1>4, <1>5

LEMMA ExpensesInvStep == ExpensesInv /\ [ExpensesNext]_expenseVars => ExpensesInv'
<1> SUFFICES ASSUME ExpensesInv, [ExpensesNext]_expenseVars PROVE ExpensesInv'
  OBVIOUS
<1>1. ASSUME NEW e \in Expense, NEW u \in Person, CreateExpense(e, u) PROVE ExpensesInv'
  BY <1>1, CreateExpenseStep
<1>2. ASSUME NEW e \in Expense, NEW u \in Person, NEW c \in Call,
             \/ SubmitExpense(c, e, u) \/ ApproveExpense(c, e, u)
             \/ RejectExpense(c, e, u) \/ PayExpense(c, e, u)
      PROVE  ExpensesInv'
  BY <1>2, ReadExpenseStep
     DEF SubmitExpense, ApproveExpense, RejectExpense, PayExpense, Payable, Fit, Routes, Outcome
<1>3. ASSUME NEW c \in Call, UpdateExpense(c) PROVE ExpensesInv'
  BY <1>3, UpdateExpenseStep
<1>4. ASSUME NEW c \in Call, FailCall(c) PROVE ExpensesInv'
  BY <1>4, FailCallStep
<1>5. CASE UNCHANGED expenseVars
  BY <1>5
     DEF expenseVars, ExpensesInv, ExpensesTypeOK, CallsAreChecked, ApprovalsAreFit,
         AfterIsReplied, PaidIsClosed, Paid, Served, Alone, Overlap, CallInFlight, Fit
<1> QED BY <1>1, <1>2, <1>3, <1>4, <1>5 DEF ExpensesNext

LEMMA ExpensesInvariantHolds == ExpensesSpec => []ExpensesInv
BY ExpensesInvInit, ExpensesInvStep, PTL DEF ExpensesSpec

\* Every variable of the expenses keeps its type.
THEOREM ExpenseTypes == ExpensesSpec => []ExpensesTypeOK
<1>1. ExpensesInv => ExpensesTypeOK
  BY DEF ExpensesInv
<1> QED BY <1>1, ExpensesInvariantHolds, PTL

\* However the calls interleave, what is approved or paid was approved by a
\* checker other than its maker, or by a super admin.
THEOREM FourEyesHold == ExpensesSpec => []FourEyes
<1>1. ExpensesInv => FourEyes
  BY DEF ExpensesInv, ApprovalsAreFit, FourEyes, Fit
<1> QED BY <1>1, ExpensesInvariantHolds, PTL

\* Only a call that overlapped a payment can undo or repeat it.
THEOREM PaymentsStand == ExpensesSpec => []PaidForGood
<1>1. ExpensesInv => PaidForGood
  BY DEF ExpensesInv, PaidIsClosed, PaidForGood, Alone, Paid, Served
<1> QED BY <1>1, ExpensesInvariantHolds, PTL

(***************************************************************************)
(* Requests for stores.  What makes a request's owner complete only grows, *)
(* so an approval that gets to its last statement finds it made, whoever   *)
(* else approved, rejected or failed meanwhile.                            *)
(***************************************************************************)
\* The branch, when the request named one, is not made.
Named(f) == IF form[f].branch THEN {"branch"} ELSE {}

Provisioned(o) ==
    /\ owner[o].active
    /\ \E r \in Review : \E g \in review[r].form :
          owner[o].tenant = r /\ o \in form[g].by /\ Inserts \ Named(g) \subseteq built[r]

\* What an approval of a store that is at statement pc has inserted.
Due == [tenant |-> {}, store |-> {"tenant"}, branch |-> {"tenant", "store"},
        grant |-> {"tenant", "store", "branch"}, owner |-> Inserts, name |-> Inserts,
        approve |-> Inserts]

ReviewIsInStep(r) ==
    \A f \in review[r].form :
        /\ review[r].form = {f} /\ review[r].pc # "idle" /\ form[f].status # "none"
        /\ review[r].pc \in DOMAIN Due =>
              form[f].type = "new_store" \/ (form[f].type = "new_branch" /\ review[r].pc \in {"branch", "approve"})
        /\ form[f].type = "new_store" =>
              /\ review[r].pc \in DOMAIN Due => Due[review[r].pc] \ Named(f) \subseteq built[r]
              /\ review[r].pc \in {"name", "approve"} => \A o \in form[f].by : Provisioned(o)

FormsInv ==
    /\ FormsTypeOK
    /\ \A f \in Form : form[f].status = "none" => form[f].by = {}
    /\ \A r \in Review : ReviewIsInStep(r)
    /\ \A f \in Form : form[f].status = "approved" /\ form[f].type = "new_store" =>
          \A o \in form[f].by : Provisioned(o)

ReviewRow == [pc : Working \cup {"idle", "ok", "failed"}, form : SUBSET Form, after : SUBSET Review]
FormRow   == [status : {"none", "pending", "approved", "rejected", "deleted"},
              type : {"none", "new_store", "new_branch"}, by : SUBSET Owner,
              tenant : Review \cup {Home, NoTenant}, branch : BOOLEAN]
OwnerRow  == [known : BOOLEAN, active : BOOLEAN, tenant : Review \cup {Home, NoTenant}]

\* No step forgets a request, or what an owner of one has got.
FormsKept ==
    \A f \in Form : form[f].status # "none" =>
        /\ form'[f].status # "none" /\ form'[f].type = form[f].type /\ form'[f].by = form[f].by
        /\ Named(f)' = Named(f)

OwnersKept == \A o \in Owner : Provisioned(o) => Provisioned(o)'
-----------------------------------------------------------------------------
LEMMA FormRows ==
    ASSUME FormsTypeOK
    PROVE  /\ review \in [Review -> ReviewRow] /\ form \in [Form -> FormRow]
           /\ owner \in [Owner -> OwnerRow] /\ built \in [Review -> SUBSET Inserts]
BY DEF FormsTypeOK, ReviewRow, FormRow, OwnerRow

\* The statements of an approval, one after the other.
LEMMA StatementsFollow ==
    /\ Following("tenant") = "store" /\ Following("store") = "branch"
    /\ Following("branch") = "grant" /\ Following("grant") = "owner"
    /\ Following("owner") = "name" /\ Following("name") = "approve" /\ Following("approve") = "ok"
    /\ Head(Statements) = "tenant"
<1>1. /\ DOMAIN Statements = 1 .. 7 /\ Len(Statements) = 7 /\ Statements[1] = "tenant"
      /\ Statements[2] = "store" /\ Statements[3] = "branch" /\ Statements[4] = "grant"
      /\ Statements[5] = "owner" /\ Statements[6] = "name" /\ Statements[7] = "approve"
      /\ Head(Statements) = "tenant"
  BY DEF Statements
<1> DEFINE Place(pc) == CHOOSE k \in 1 .. 7 : Statements[k] = pc
<1>2. /\ Place("tenant") = 1 /\ Place("store") = 2 /\ Place("branch") = 3 /\ Place("grant") = 4
      /\ Place("owner") = 5 /\ Place("name") = 6 /\ Place("approve") = 7
  BY <1>1
<1>3. \A pc : Following(pc) = IF Place(pc) = 7 THEN "ok" ELSE Statements[Place(pc) + 1]
  BY <1>1 DEF Following
<1> HIDE DEF Place
<1> QED BY <1>1, <1>2, <1>3

LEMMA WorkingWords ==
    Working = {"tenant", "store", "branch", "grant", "owner", "name", "approve", "reject", "cancel"}
<1>1. {Statements[k] : k \in DOMAIN Statements} =
        {"tenant", "store", "branch", "grant", "owner", "name", "approve"}
  <2>1. DOMAIN Statements = 1 .. 7
    BY DEF Statements
  <2>2. /\ Statements[1] = "tenant" /\ Statements[2] = "store" /\ Statements[3] = "branch"
        /\ Statements[4] = "grant" /\ Statements[5] = "owner" /\ Statements[6] = "name"
        /\ Statements[7] = "approve"
    BY DEF Statements
  <2> QED BY <2>1, <2>2
<1> QED BY <1>1 DEF Working

\* What an owner has stays when reviews, requests and inserts do.
LEMMA ProvisionedStays ==
    ASSUME NEW o \in Owner, Provisioned(o), FormsTypeOK, \A f \in Form : form[f].status = "none" => form[f].by = {},
           \A q \in Review : review[q].form \subseteq review'[q].form /\ built[q] \subseteq built'[q],
           FormsKept, owner'[o].active, owner'[o].tenant = owner[o].tenant
    PROVE  Provisioned(o)'
<1>0. PICK r \in Review : \E g \in review[r].form :
        owner[o].tenant = r /\ o \in form[g].by /\ Inserts \ Named(g) \subseteq built[r]
  BY DEF Provisioned
<1>1. PICK g \in review[r].form :
        owner[o].tenant = r /\ o \in form[g].by /\ Inserts \ Named(g) \subseteq built[r]
  BY <1>0
<1>2. g \in Form
  BY FormRows DEF ReviewRow
<1>3. form'[g].by = form[g].by /\ Named(g)' = Named(g)
  BY <1>1, <1>2 DEF FormsKept
<1> QED BY <1>1, <1>3 DEF Provisioned

\* A review that does nothing keeps in step.
LEMMA StillInStep ==
    ASSUME FormsTypeOK, NEW q \in Review, ReviewIsInStep(q), review'[q] = review[q],
           built[q] \subseteq built'[q], FormsKept, OwnersKept
    PROVE  ReviewIsInStep(q)'
<1> SUFFICES ASSUME NEW f \in review[q].form
             PROVE  /\ review[q].form = {f} /\ review[q].pc # "idle" /\ form'[f].status # "none"
                    /\ review[q].pc \in DOMAIN Due =>
                          \/ form'[f].type = "new_store"
                          \/ form'[f].type = "new_branch" /\ review[q].pc \in {"branch", "approve"}
                    /\ form'[f].type = "new_store" =>
                         /\ review[q].pc \in DOMAIN Due => Due[review[q].pc] \ Named(f)' \subseteq built'[q]
                         /\ review[q].pc \in {"name", "approve"} => \A o \in form'[f].by : Provisioned(o)'
  BY DEF ReviewIsInStep, Due
<1>1. f \in Form
  BY FormRows DEF ReviewRow
<1>2. review[q].form = {f} /\ review[q].pc # "idle" /\ form[f].status # "none"
  BY DEF ReviewIsInStep
<1>3. /\ form'[f].status # "none" /\ form'[f].type = form[f].type /\ form'[f].by = form[f].by
      /\ Named(f)' = Named(f)
  BY <1>1, <1>2 DEF FormsKept
<1>4. form[f].by \subseteq Owner
  BY <1>1, FormRows DEF FormRow
<1>5. /\ review[q].pc \in DOMAIN Due =>
            form[f].type = "new_store" \/ (form[f].type = "new_branch" /\ review[q].pc \in {"branch", "approve"})
      /\ form[f].type = "new_store" =>
            /\ review[q].pc \in DOMAIN Due => Due[review[q].pc] \ Named(f) \subseteq built[q]
            /\ review[q].pc \in {"name", "approve"} => \A o \in form[f].by : Provisioned(o)
  BY DEF ReviewIsInStep
<1>6. form[f].type = "new_store" /\ review[q].pc \in {"name", "approve"} =>
        \A o \in form[f].by : Provisioned(o)'
  BY <1>4, <1>5 DEF OwnersKept
<1> QED BY <1>2, <1>3, <1>5, <1>6

LEMMA FormsInvInit == FormsInit => FormsInv
<1> SUFFICES ASSUME FormsInit PROVE FormsInv
  OBVIOUS
<1>1. NoReview \in ReviewRow
  BY DEF NoReview, ReviewRow
<1>2. NoForm \in FormRow
  BY DEF NoForm, FormRow
<1>3. NoOwner \in OwnerRow /\ [known |-> TRUE, active |-> TRUE, tenant |-> Home] \in OwnerRow
  BY DEF NoOwner, OwnerRow
<1>4. owner \in [Owner -> OwnerRow]
  BY <1>3 DEF FormsInit
<1>5. FormsTypeOK
  BY <1>1, <1>2, <1>4 DEF FormsInit, FormsTypeOK, ReviewRow, FormRow, OwnerRow
<1> QED BY <1>5 DEF FormsInit, FormsInv, NoForm, NoReview, ReviewIsInStep

\* A request is made.
LEMMA NewFormStep ==
    ASSUME FormsInv, NEW f \in Form, form[f].status = "none", NEW row \in FormRow,
           row.status = "pending", form' = [form EXCEPT ![f] = row],
           owner' \in [Owner -> OwnerRow],
           \A o \in Owner : owner[o].active => owner'[o].active,
           \A o \in Owner : owner'[o].tenant = owner[o].tenant,
           UNCHANGED <<review, built>>
    PROVE  FormsInv'
<1>1. /\ form \in [Form -> FormRow] /\ review \in [Review -> ReviewRow] /\ form' \in [Form -> FormRow]
      /\ form'[f] = row /\ \A g \in Form \ {f} : form'[g] = form[g]
  BY FormRows DEF FormsInv
<1>2. FormsTypeOK'
  BY <1>1, FormRows DEF FormsInv, FormsTypeOK, ReviewRow, FormRow, OwnerRow
<1>3. FormsKept
  BY <1>1 DEF FormsKept, Named
<1>4. OwnersKept
  <2> SUFFICES ASSUME NEW o \in Owner, Provisioned(o) PROVE Provisioned(o)'
    BY DEF OwnersKept
  <2>1. owner'[o].active
    BY DEF Provisioned
  <2> QED BY <1>3, <2>1, ProvisionedStays DEF FormsInv
<1>5. \A q \in Review : ReviewIsInStep(q)'
  BY <1>3, <1>4, StillInStep DEF FormsInv
<1>6. \A g \in Form : form'[g].status = "none" => form'[g].by = {}
  BY <1>1 DEF FormsInv
<1>7. \A g \in Form : form'[g].status = "approved" /\ form'[g].type = "new_store" =>
        \A o \in form'[g].by : Provisioned(o)'
  <2> SUFFICES ASSUME NEW g \in Form, form'[g].status = "approved", form'[g].type = "new_store",
                      NEW o \in form'[g].by
               PROVE  Provisioned(o)'
    OBVIOUS
  <2>1. form'[g] = form[g]
    BY <1>1
  <2>2. o \in Owner
    BY <1>1 DEF FormRow
  <2> QED BY <1>4, <2>1, <2>2 DEF FormsInv, OwnersKept
<1> QED BY <1>2, <1>5, <1>6, <1>7 DEF FormsInv

\* A statement of review r.
LEMMA ReviewStep ==
    ASSUME FormsInv, NEW r \in Review, FormsTypeOK', FormsKept, OwnersKept,
           \A q \in Review \ {r} : review'[q] = review[q],
           \A q \in Review : built[q] \subseteq built'[q],
           ReviewIsInStep(r)',
           \A g \in Form : form'[g].status = "none" => form[g].status = "none" /\ form'[g].by = form[g].by,
           \A g \in Form : form'[g].status = "approved" /\ form'[g].type = "new_store" =>
              form'[g].by \subseteq Owner /\ \A o \in form'[g].by : Provisioned(o)
    PROVE  FormsInv'
<1>1. \A q \in Review : ReviewIsInStep(q)'
  <2> SUFFICES ASSUME NEW q \in Review \ {r} PROVE ReviewIsInStep(q)'
    OBVIOUS
  <2> QED BY StillInStep DEF FormsInv
<1>2. \A g \in Form : form'[g].status = "none" => form'[g].by = {}
  BY DEF FormsInv
<1>3. \A g \in Form : form'[g].status = "approved" /\ form'[g].type = "new_store" =>
        \A o \in form'[g].by : Provisioned(o)'
  BY DEF OwnersKept
<1> QED BY <1>1, <1>2, <1>3 DEF FormsInv

\* The owners of approved requests, of which r has none to say.
LEMMA ApprovedAreProvisioned ==
    ASSUME FormsInv, NEW g \in Form, form[g].status = "approved", form[g].type = "new_store"
    PROVE  form[g].by \subseteq Owner /\ \A o \in form[g].by : Provisioned(o)
BY FormRows DEF FormsInv, FormRow

\* Owners and requests stay as they are.
LEMMA AllKept ==
    ASSUME FormsInv, UNCHANGED <<form, owner>>,
           \A q \in Review : review[q].form \subseteq review'[q].form /\ built[q] \subseteq built'[q]
    PROVE  FormsKept /\ OwnersKept
<1>1. FormsKept
  BY DEF FormsKept, Named
<1>2. OwnersKept
  <2> SUFFICES ASSUME NEW o \in Owner, Provisioned(o) PROVE Provisioned(o)'
    BY DEF OwnersKept
  <2>1. owner'[o].active
    BY DEF Provisioned
  <2> QED BY <1>1, <2>1, ProvisionedStays DEF FormsInv
<1> QED BY <1>1, <1>2

LEMMA ReadFormStep ==
    ASSUME FormsInv, NEW r \in Review, NEW f \in Form, NEW pc, ReadForm(r, f, pc),
           \/ (pc = "tenant" /\ form[f].type = "new_store")
           \/ (pc = "branch" /\ form[f].type = "new_branch") \/ pc \in {"reject", "cancel"}
    PROVE  FormsInv'
<1> DEFINE row == [pc |-> pc, form |-> {f}, after |-> {q \in Review : review[q].pc \in {"ok", "failed"}}]
<1>1. /\ review' = [review EXCEPT ![r] = row] /\ UNCHANGED <<form, owner, built>>
      /\ form[f].status = "pending" /\ review[r].pc = "idle" /\ review \in [Review -> ReviewRow]
  BY FormRows DEF ReadForm, isPending, FormsInv
<1>2. row \in ReviewRow /\ row.pc = pc /\ row.form = {f}
  BY WorkingWords DEF ReviewRow
<1> HIDE DEF row
<1>3. /\ review' \in [Review -> ReviewRow] /\ review'[r].pc = pc /\ review'[r].form = {f}
      /\ \A q \in Review \ {r} : review'[q] = review[q]
  BY <1>1, <1>2
<1>4. FormsTypeOK'
  BY <1>1, <1>3 DEF FormsInv, FormsTypeOK, ReviewRow
<1>5. review[r].form = {}
  BY <1>1 DEF FormsInv, ReviewIsInStep
<1>6. FormsKept /\ OwnersKept
  BY <1>1, <1>3, <1>5, AllKept
<1>7. ReviewIsInStep(r)'
  BY <1>1, <1>3, WorkingWords DEF ReviewIsInStep, Due
<1>8. \A g \in Form : form'[g] = form[g]
  BY <1>1
<1> QED BY <1>1, <1>3, <1>4, <1>6, <1>7, <1>8, ReviewStep, ApprovedAreProvisioned

\* What r is at, and that it goes on with the next statement.
LEMMA GoesOn ==
    ASSUME FormsInv, NEW r \in Review, NEW f \in review[r].form, review[r].pc \in DOMAIN Due, GoOn(r, f)
    PROVE  /\ f \in Form /\ form[f] \in FormRow /\ form[f].status # "none" /\ review[r].form = {f}
           /\ review' \in [Review -> ReviewRow] /\ review'[r].form = {f}
           /\ \A q \in Review \ {r} : review'[q] = review[q]
           /\ review'[r].pc = IF form[f].type = "new_branch" /\ review[r].pc = "branch"
                              THEN "approve" ELSE Following(review[r].pc)
           /\ review'[r].pc # "idle"
           /\ form[f].type = "new_store" \/ (form[f].type = "new_branch" /\ review[r].pc \in {"branch", "approve"})
           /\ form[f].type = "new_store" =>
                 /\ Due[review[r].pc] \ Named(f) \subseteq built[r]
                 /\ review[r].pc \in {"name", "approve"} => \A o \in form[f].by : Provisioned(o)
<1>1. review \in [Review -> ReviewRow] /\ form \in [Form -> FormRow]
  BY FormRows DEF FormsInv
<1>2. f \in Form /\ form[f] \in FormRow
  BY <1>1 DEF ReviewRow
<1>3. /\ form[f].status # "none" /\ review[r].form = {f}
      /\ form[f].type = "new_store" \/ (form[f].type = "new_branch" /\ review[r].pc \in {"branch", "approve"})
      /\ form[f].type = "new_store" =>
            /\ Due[review[r].pc] \ Named(f) \subseteq built[r]
            /\ review[r].pc \in {"name", "approve"} => \A o \in form[f].by : Provisioned(o)
  BY DEF FormsInv, ReviewIsInStep
<1> DEFINE pc == IF form[f].type = "new_branch" /\ review[r].pc = "branch"
                 THEN "approve" ELSE Following(review[r].pc)
<1>4. pc \in Working \cup {"ok"} /\ pc # "idle"
  BY StatementsFollow, WorkingWords DEF Due
<1>5. review' = [review EXCEPT ![r].pc = pc]
  BY DEF GoOn
<1> HIDE DEF pc
<1>6. /\ review' \in [Review -> ReviewRow] /\ review'[r].form = review[r].form /\ review'[r].pc = pc
      /\ \A q \in Review \ {r} : review'[q] = review[q]
  BY <1>1, <1>4, <1>5 DEF ReviewRow
<1> QED BY <1>2, <1>3, <1>4, <1>6 DEF pc

LEMMA InsertStep ==
    ASSUME FormsInv, NEW r \in Review, NEW f \in review[r].form, Insert(r, f)
    PROVE  FormsInv'
<1> DEFINE pc == review[r].pc
<1>1. /\ pc \in Inserts /\ GoOn(r, f) /\ UNCHANGED <<form, owner>>
      /\ built' = IF pc = "branch" /\ form[f].branch /\ form[f].type = "new_store"
                  THEN built ELSE [built EXCEPT ![r] = @ \cup {pc}]
  BY DEF Insert
<1>2. pc \in DOMAIN Due
  BY <1>1 DEF Inserts, Due
<1>3. /\ f \in Form /\ form[f] \in FormRow /\ form[f].status # "none" /\ review[r].form = {f}
      /\ review' \in [Review -> ReviewRow] /\ review'[r].form = {f}
      /\ \A q \in Review \ {r} : review'[q] = review[q]
      /\ review'[r].pc = IF form[f].type = "new_branch" /\ pc = "branch" THEN "approve" ELSE Following(pc)
      /\ review'[r].pc # "idle"
      /\ form[f].type = "new_store" \/ (form[f].type = "new_branch" /\ pc \in {"branch", "approve"})
      /\ form[f].type = "new_store" => Due[pc] \ Named(f) \subseteq built[r]
  BY <1>1, <1>2, GoesOn
<1>4. /\ built \in [Review -> SUBSET Inserts] /\ built' \in [Review -> SUBSET Inserts]
      /\ \A q \in Review : built[q] \subseteq built'[q]
  BY <1>1, FormRows DEF FormsInv
<1>5. form[f].type = "new_store" => {pc} \ Named(f) \subseteq built'[r]
  BY <1>1, <1>4 DEF Named
<1>6. FormsTypeOK'
  BY <1>1, <1>3, <1>4 DEF FormsInv, FormsTypeOK, ReviewRow
<1>7. FormsKept /\ OwnersKept
  BY <1>1, <1>3, <1>4, AllKept
<1>8. form[f].type = "new_store" => /\ review'[r].pc \in {"store", "branch", "grant", "owner"}
                                   /\ Due[review'[r].pc] = Due[pc] \cup {pc}
  BY <1>1, <1>3, StatementsFollow DEF Inserts, Due
<1>9. ReviewIsInStep(r)'
  <2>1. form[f].type = "new_branch" => review'[r].pc = "approve"
    BY <1>1, <1>3 DEF Inserts
  <2> SUFFICES ASSUME form[f].type = "new_store"
               PROVE  Due[review'[r].pc] \ Named(f) \subseteq built'[r]
    BY <1>1, <1>3, <1>8, <2>1 DEF ReviewIsInStep, Named, Due
  <2> QED BY <1>3, <1>4, <1>5, <1>8
<1>10. \A g \in Form : form'[g] = form[g]
  BY <1>1
<1> QED BY <1>3, <1>4, <1>6, <1>7, <1>9, <1>10, ReviewStep, ApprovedAreProvisioned

LEMMA ActivateOwnerStep ==
    ASSUME FormsInv, NEW r \in Review, NEW f \in review[r].form, ActivateOwner(r, f)
    PROVE  FormsInv'
<1>1. /\ review[r].pc = "owner" /\ GoOn(r, f) /\ UNCHANGED <<form, built>>
      /\ owner' = [o \in Owner |-> IF o \in form[f].by THEN [known |-> TRUE, active |-> TRUE, tenant |-> r]
                                  ELSE owner[o]]
  BY DEF ActivateOwner
<1>2. /\ f \in Form /\ form[f] \in FormRow /\ form[f].status # "none" /\ review[r].form = {f}
      /\ review' \in [Review -> ReviewRow] /\ review'[r].form = {f} /\ review'[r].pc = "name"
      /\ \A q \in Review \ {r} : review'[q] = review[q]
      /\ form[f].type = "new_store" /\ Inserts \ Named(f) \subseteq built[r]
  BY <1>1, StatementsFollow, GoesOn DEF Due
<1>3. /\ owner' \in [Owner -> OwnerRow]
      /\ \A o \in form[f].by : owner'[o].active /\ owner'[o].tenant = r
      /\ \A o \in Owner \ form[f].by : owner'[o] = owner[o]
  <2>1. [known |-> TRUE, active |-> TRUE, tenant |-> r] \in OwnerRow
    BY DEF OwnerRow
  <2>2. form[f].by \subseteq Owner
    BY <1>2 DEF FormRow
  <2> QED BY <1>1, <2>1, <2>2, FormRows DEF FormsInv
<1>4. FormsTypeOK'
  BY <1>1, <1>2, <1>3 DEF FormsInv, FormsTypeOK, ReviewRow, OwnerRow
<1>5. FormsKept
  BY <1>1 DEF FormsKept, Named
<1>6. \A o \in form[f].by : Provisioned(o)'
  BY <1>1, <1>2, <1>3 DEF Provisioned, Named
<1>7. OwnersKept
  <2> SUFFICES ASSUME NEW o \in Owner \ form[f].by, Provisioned(o) PROVE Provisioned(o)'
    BY <1>6 DEF OwnersKept
  <2>1. owner'[o] = owner[o] /\ owner'[o].active
    BY <1>3 DEF Provisioned
  <2> QED BY <1>1, <1>2, <1>5, <2>1, ProvisionedStays DEF FormsInv
<1>8. ReviewIsInStep(r)'
  BY <1>1, <1>2, <1>6 DEF ReviewIsInStep, Named, Due
<1>9. \A g \in Form : form'[g] = form[g]
  BY <1>1
<1> QED BY <1>1, <1>2, <1>4, <1>5, <1>7, <1>8, <1>9, ReviewStep, ApprovedAreProvisioned

\* An update by id changes one request, in what the statement sets.
LEMMA UpdateFormFacts ==
    ASSUME FormsInv, NEW r \in Review, NEW f \in Form, NEW row \in FormRow, UpdateForm(r, f, row),
           form[f].status # "none", row.status # "none", row.type = form[f].type, row.by = form[f].by,
           row.branch = form[f].branch,
           \A q \in Review : review[q].form \subseteq review'[q].form
    PROVE  /\ form' \in [Form -> FormRow] /\ FormsKept /\ OwnersKept
           /\ \A g \in Form \ {f} : form'[g] = form[g]
           /\ form'[f].type = form[f].type /\ form'[f].by = form[f].by /\ Named(f)' = Named(f)
           /\ form'[f].status \in {form[f].status, row.status} /\ form'[f].status # "none"
           /\ UNCHANGED <<owner, built>>
<1>1. form \in [Form -> FormRow] /\ UNCHANGED <<owner, built>>
  BY FormRows DEF FormsInv, UpdateForm
<1>2. /\ form' \in [Form -> FormRow] /\ \A g \in Form \ {f} : form'[g] = form[g]
      /\ form'[f] \in {form[f], row}
  BY <1>1 DEF UpdateForm
<1>3. form'[f].branch = form[f].branch
  BY <1>2
<1>4. FormsKept
  BY <1>2, <1>3 DEF FormsKept, Named
<1>5. OwnersKept
  <2> SUFFICES ASSUME NEW o \in Owner, Provisioned(o) PROVE Provisioned(o)'
    BY DEF OwnersKept
  <2>1. owner'[o].active
    BY <1>1 DEF Provisioned
  <2> QED BY <1>1, <1>4, <2>1, ProvisionedStays DEF FormsInv
<1> QED BY <1>1, <1>2, <1>3, <1>4, <1>5 DEF Named

LEMMA NameTenantStep ==
    ASSUME FormsInv, NEW r \in Review, NEW f \in review[r].form, NameTenant(r, f)
    PROVE  FormsInv'
<1>1. review[r].pc = "name" /\ GoOn(r, f) /\ UpdateForm(r, f, [form[f] EXCEPT !.tenant = r])
  BY DEF NameTenant
<1>2. /\ f \in Form /\ form[f] \in FormRow /\ form[f].status # "none" /\ review[r].form = {f}
      /\ review' \in [Review -> ReviewRow] /\ review'[r].form = {f} /\ review'[r].pc = "approve"
      /\ \A q \in Review \ {r} : review'[q] = review[q]
      /\ form[f].type = "new_store" /\ Inserts \ Named(f) \subseteq built[r]
      /\ \A o \in form[f].by : Provisioned(o)
  BY <1>1, StatementsFollow, GoesOn DEF Due
<1> DEFINE row == [form[f] EXCEPT !.tenant = r]
<1>3. row \in FormRow /\ row.status = form[f].status /\ row.type = form[f].type /\ row.by = form[f].by
  BY <1>2 DEF FormRow
<1>4. row.branch = form[f].branch
  BY <1>2, Zenon DEF FormRow
<1> HIDE DEF row
<1>5. /\ form' \in [Form -> FormRow] /\ FormsKept /\ OwnersKept
      /\ \A g \in Form \ {f} : form'[g] = form[g]
      /\ form'[f].type = form[f].type /\ form'[f].by = form[f].by /\ Named(f)' = Named(f)
      /\ form'[f].status = form[f].status /\ UNCHANGED <<owner, built>>
  <2>1. /\ f \in Form /\ UpdateForm(r, f, row) /\ form[f].status # "none"
        /\ \A q \in Review : review[q].form \subseteq review'[q].form
    BY <1>1, <1>2, <1>3 DEF row
  <2>2. /\ form' \in [Form -> FormRow] /\ FormsKept /\ OwnersKept
        /\ \A g \in Form \ {f} : form'[g] = form[g]
        /\ form'[f].type = form[f].type /\ form'[f].by = form[f].by /\ Named(f)' = Named(f)
        /\ form'[f].status \in {form[f].status, row.status}
        /\ UNCHANGED <<owner, built>>
    BY <1>3, <1>4, <2>1, UpdateFormFacts
  <2> QED BY <1>3, <2>2
<1>6. FormsTypeOK'
  BY <1>2, <1>5 DEF FormsInv, FormsTypeOK, ReviewRow, FormRow
<1>7. form[f].by \subseteq Owner /\ \A o \in form[f].by : Provisioned(o)'
  BY <1>2, <1>5 DEF OwnersKept, FormRow
<1>8. ReviewIsInStep(r)'
  BY <1>2, <1>5, <1>7 DEF ReviewIsInStep, Due
<1>9. \A g \in Form : /\ form'[g].status = form[g].status /\ form'[g].by = form[g].by
                      /\ form'[g].type = form[g].type
  BY <1>5
<1> QED BY <1>2, <1>5, <1>6, <1>8, <1>9, ReviewStep, ApprovedAreProvisioned

LEMMA SetApprovedStep ==
    ASSUME FormsInv, NEW r \in Review, NEW f \in review[r].form, SetApproved(r, f)
    PROVE  FormsInv'
<1>1. review[r].pc = "approve" /\ GoOn(r, f) /\ UpdateForm(r, f, [form[f] EXCEPT !.status = "approved"])
  BY DEF SetApproved
<1>2. /\ f \in Form /\ form[f] \in FormRow /\ form[f].status # "none" /\ review[r].form = {f}
      /\ review' \in [Review -> ReviewRow] /\ review'[r].form = {f} /\ review'[r].pc = "ok"
      /\ \A q \in Review \ {r} : review'[q] = review[q]
      /\ form[f].type = "new_store" => \A o \in form[f].by : Provisioned(o)
  BY <1>1, StatementsFollow, GoesOn DEF Due
<1> DEFINE row == [form[f] EXCEPT !.status = "approved"]
<1>3. row \in FormRow /\ row.status = "approved" /\ row.type = form[f].type /\ row.by = form[f].by
  BY <1>2 DEF FormRow
<1>4. row.branch = form[f].branch
  BY <1>2, Zenon DEF FormRow
<1> HIDE DEF row
<1>5. /\ form' \in [Form -> FormRow] /\ FormsKept /\ OwnersKept
      /\ \A g \in Form \ {f} : form'[g] = form[g]
      /\ form'[f].type = form[f].type /\ form'[f].by = form[f].by
      /\ form'[f].status # "none" /\ UNCHANGED <<owner, built>>
  BY <1>1, <1>2, <1>3, <1>4, UpdateFormFacts DEF row
<1>6. FormsTypeOK'
  BY <1>2, <1>5 DEF FormsInv, FormsTypeOK, ReviewRow, FormRow
<1>7. ReviewIsInStep(r)'
  BY <1>2, <1>5 DEF ReviewIsInStep, Due
<1>8. \A g \in Form : form'[g].status = "approved" /\ form'[g].type = "new_store" =>
        form'[g].by \subseteq Owner /\ \A o \in form'[g].by : Provisioned(o)
  <2>1. form[f].by \subseteq Owner
    BY <1>2 DEF FormRow
  <2> QED BY <1>2, <1>5, <2>1, ApprovedAreProvisioned
<1>9. \A g \in Form : form'[g].status = "none" => form[g].status = "none" /\ form'[g].by = form[g].by
  BY <1>5
<1> QED BY <1>2, <1>5, <1>6, <1>7, <1>8, <1>9, ReviewStep

\* A rejection and a cancellation write the status by id.
LEMMA SetAsideStep ==
    ASSUME FormsInv, NEW r \in Review, NEW f \in review[r].form, SetRejected(r, f) \/ DeleteForm(r, f)
    PROVE  FormsInv'
<1>1. PICK status \in {"rejected", "deleted"} :
        /\ review[r].pc \in {"reject", "cancel"} /\ review' = [review EXCEPT ![r].pc = "ok"]
        /\ UpdateForm(r, f, [form[f] EXCEPT !.status = status])
  BY DEF SetRejected, DeleteForm
<1>2. review \in [Review -> ReviewRow] /\ form \in [Form -> FormRow]
  BY FormRows DEF FormsInv
<1>3. /\ f \in Form /\ form[f] \in FormRow /\ form[f].status # "none" /\ review[r].form = {f}
      /\ review' \in [Review -> ReviewRow] /\ review'[r].form = {f} /\ review'[r].pc = "ok"
      /\ \A q \in Review \ {r} : review'[q] = review[q]
  BY <1>1, <1>2 DEF ReviewRow, FormsInv, ReviewIsInStep
<1> DEFINE row == [form[f] EXCEPT !.status = status]
<1>4. row \in FormRow /\ row.status = status /\ row.type = form[f].type /\ row.by = form[f].by
  BY <1>3 DEF FormRow
<1>5. row.branch = form[f].branch
  BY <1>3, Zenon DEF FormRow
<1> HIDE DEF row
<1>6. /\ form' \in [Form -> FormRow] /\ FormsKept /\ OwnersKept
      /\ \A g \in Form \ {f} : form'[g] = form[g]
      /\ form'[f].type = form[f].type /\ form'[f].by = form[f].by
      /\ form'[f].status \in {form[f].status, status} /\ form'[f].status # "none"
      /\ UNCHANGED <<owner, built>>
  <2>1. row.status # "none" /\ UpdateForm(r, f, row)
    BY <1>1, <1>4 DEF row
  <2>2. \A q \in Review : review[q].form \subseteq review'[q].form
    BY <1>3
  <2> QED BY <1>3, <1>4, <1>5, <2>1, <2>2, UpdateFormFacts
<1>7. FormsTypeOK'
  BY <1>3, <1>6 DEF FormsInv, FormsTypeOK, ReviewRow, FormRow
<1>8. ReviewIsInStep(r)'
  BY <1>3, <1>6 DEF ReviewIsInStep, Due
<1>9. \A g \in Form : /\ form'[g].status = "approved" => form[g].status = "approved"
                      /\ form'[g].status = "none" => form[g].status = "none"
                      /\ form'[g].by = form[g].by /\ form'[g].type = form[g].type
  BY <1>6
<1> QED BY <1>3, <1>6, <1>7, <1>8, <1>9, ReviewStep, ApprovedAreProvisioned

LEMMA FailReviewStep ==
    ASSUME FormsInv, NEW r \in Review, FailReview(r)
    PROVE  FormsInv'
<1>1. /\ review[r].pc \in Working /\ review' = [review EXCEPT ![r].pc = "failed"]
      /\ UNCHANGED <<form, owner, built>> /\ review \in [Review -> ReviewRow]
  BY FormRows DEF FailReview, FormsInv
<1>2. /\ review' \in [Review -> ReviewRow] /\ review'[r].form = review[r].form /\ review'[r].pc = "failed"
      /\ \A q \in Review \ {r} : review'[q] = review[q]
  BY <1>1 DEF ReviewRow
<1>3. FormsTypeOK'
  BY <1>1, <1>2 DEF FormsInv, FormsTypeOK, ReviewRow
<1>4. FormsKept /\ OwnersKept
  BY <1>1, <1>2, AllKept
<1>5. ReviewIsInStep(r)'
  BY <1>1, <1>2 DEF FormsInv, ReviewIsInStep, Due
<1>6. \A g \in Form : form'[g] = form[g]
  BY <1>1
<1> QED BY <1>1, <1>2, <1>3, <1>4, <1>5, <1>6, ReviewStep, ApprovedAreProvisioned

LEMMA FormsInvStep == FormsInv /\ [FormsNext]_formVars => FormsInv'
<1> SUFFICES ASSUME FormsInv, [FormsNext]_formVars PROVE FormsInv'
  OBVIOUS
<1>1. ASSUME NEW f \in Form, NEW o \in Owner, RegisterAndApply(f, o) PROVE FormsInv'
  <2>1. /\ form[f].status = "none" /\ owner' = [owner EXCEPT ![o].known = TRUE]
        /\ UNCHANGED <<review, built>> /\ owner \in [Owner -> OwnerRow]
    BY <1>1, FormRows DEF RegisterAndApply, FormsInv
  <2> DEFINE row == [status |-> "pending", type |-> "new_store", by |-> {o}, tenant |-> NoTenant, branch |-> FALSE]
  <2>2. row \in FormRow /\ row.status = "pending" /\ form' = [form EXCEPT ![f] = row]
    BY <1>1 DEF RegisterAndApply, FormRow
  <2> HIDE DEF row
  <2>3. owner' \in [Owner -> OwnerRow] /\ \A p \in Owner : owner'[p].tenant = owner[p].tenant
    BY <2>1 DEF OwnerRow
  <2>4. \A p \in Owner : owner[p].active => owner'[p].active
    BY <2>1, Zenon DEF OwnerRow
  <2> QED BY <2>1, <2>2, <2>3, <2>4, NewFormStep
<1>2. ASSUME NEW f \in Form, NEW o \in Owner, NEW type \in {"new_store", "new_branch"}, NEW b \in BOOLEAN,
             Apply(f, o, type, b)
      PROVE  FormsInv'
  <2>1. form[f].status = "none" /\ UNCHANGED <<review, owner, built>> /\ owner \in [Owner -> OwnerRow]
    BY <1>2, FormRows DEF Apply, FormsInv
  <2> DEFINE row == [status |-> "pending", type |-> type, by |-> {o}, tenant |-> owner[o].tenant, branch |-> b]
  <2>2. row \in FormRow /\ row.status = "pending" /\ form' = [form EXCEPT ![f] = row]
    BY <1>2, <2>1 DEF Apply, FormRow, OwnerRow
  <2> HIDE DEF row
  <2> QED BY <2>1, <2>2, NewFormStep
<1>3. ASSUME NEW r \in Review, NEW f \in Form, ApproveForm(r, f) \/ RejectForm(r, f) \/ CancelForm(r, f)
      PROVE  FormsInv'
  BY <1>3, ReadFormStep, StatementsFollow DEF ApproveForm, RejectForm, CancelForm
<1>4. ASSUME NEW r \in Review, NEW f \in review[r].form, Insert(r, f) \/ ActivateOwner(r, f) \/ NameTenant(r, f)
      PROVE  FormsInv'
  BY <1>4, InsertStep, ActivateOwnerStep, NameTenantStep
<1>5. ASSUME NEW r \in Review, NEW f \in review[r].form, SetApproved(r, f) \/ SetRejected(r, f) \/ DeleteForm(r, f)
      PROVE  FormsInv'
  BY <1>5, SetApprovedStep, SetAsideStep
<1>6. ASSUME NEW r \in Review, FailReview(r) PROVE FormsInv'
  BY <1>6, FailReviewStep
<1>7. CASE UNCHANGED formVars
  BY <1>7 DEF formVars, FormsInv, FormsTypeOK, ReviewIsInStep, Provisioned, Named
<1> QED BY <1>1, <1>2, <1>3, <1>4, <1>5, <1>6, <1>7 DEF FormsNext

\* The requests, the owners and the reviews at work are as FormsInv says.
THEOREM FormsInvariantHolds == FormsSpec => []FormsInv
BY FormsInvInit, FormsInvStep, PTL DEF FormsSpec

\* ApprovedIsProvisioned: the owner of an approved request for a store has all
\* that an approval gives, whatever overlapped it or failed before it.
THEOREM ApprovalsProvision == FormsSpec => []ApprovedIsProvisioned
<1>1. FormsInv => ApprovedIsProvisioned
  <2> SUFFICES ASSUME FormsInv, NEW f \in Form, form[f].status = "approved", form[f].type = "new_store",
                      NEW o \in form[f].by, Provisioned(o)
               PROVE  /\ owner[o].active
                      /\ \E r \in Review : \E g \in review[r].form :
                            /\ owner[o].tenant = r /\ o \in form[g].by
                            /\ Inserts \ (IF form[g].branch THEN {"branch"} ELSE {}) \subseteq built[r]
    BY DEF FormsInv, ApprovedIsProvisioned
  <2> QED BY DEF Provisioned, Named
<1> QED BY <1>1, FormsInvariantHolds, PTL

(***************************************************************************)
(* The kitchen.  What a transaction has read of an order is still so when  *)
(* it commits, but for the items that have overtaken it: the sum of an     *)
(* addition lacks them and no others, and the verdict of a change of an    *)
(* item is current if there are none.                                      *)
(***************************************************************************)
\* Items belong to orders that are there, and a new item to one addition.
ItemsAreOrdered ==
    \A i \in Item :
        /\ item[i].status = "none" <=> item[i].order = Nowhere
        /\ item[i].order \in Order => order[item[i].order].status # "none"

WorkIsOnOrders ==
    \A h \in Handler : work[h].pc # "idle" =>
        /\ work[h].order \in Order /\ order[work[h].order].status # "none"
        /\ work[h].items # {}

AddedAreNew ==
    \A h \in Handler : work[h].pc = "add" =>
        \A i \in work[h].items :
            /\ item[i].status = "none"
            /\ \A k \in Handler : i \in work[k].items => k = h

CookedAreOrdered ==
    \A h \in Handler : work[h].pc = "cook" =>
        /\ work[h].status # "none"
        /\ \E i \in Item : work[h].items = {i} /\ item[i].order = work[h].order

SumIsCurrent ==
    \A h \in Handler : work[h].pc = "add" =>
        work[h].seen = (ItemsOf(work[h].order) \cup work[h].items) \ work[h].overtaken

\* The items of the order of h that h does not change.
Others(h) == ItemsOf(work[h].order) \ work[h].items

\* What the change of h leaves of the statuses of its order's items.
StatusesAfter(h) == {item[k].status : k \in Others(h)} \cup {work[h].status}

VerdictIsCurrent ==
    \A h \in Handler : work[h].pc = "cook" /\ work[h].overtaken = {} =>
        work[h].verdict = Verdict(StatusesAfter(h))

KitchenInv ==
    /\ KitchenTypeOK
    /\ ItemsAreOrdered
    /\ WorkIsOnOrders
    /\ AddedAreNew
    /\ CookedAreOrdered
    /\ SumIsCurrent
    /\ VerdictIsCurrent
    /\ TotalIsItems
    /\ KitchenSees

OrderRow == [status : OrderStatus \cup {"none"}, counted : SUBSET Item]
ItemRow  == [status : ItemStatus \cup {"none"}, order : Order \cup {Nowhere}]
WorkRow  == [pc : {"idle", "add", "cook"}, order : Order \cup {Nowhere}, items : SUBSET Item,
             status : ItemStatus \cup {"none"}, seen : SUBSET Item,
             verdict : {"none", "READY", "PREPARING"}, overtaken : SUBSET Item]
-----------------------------------------------------------------------------
LEMMA KitchenInvInit == KitchenInit => KitchenInv
<1> SUFFICES ASSUME KitchenInit PROVE KitchenInv
  OBVIOUS
<1> USE NowhereAssumption DEF KitchenInit, NoOrder, NoItem, NoWork
<1>1. KitchenTypeOK
  BY DEF KitchenTypeOK
<1>2. ItemsAreOrdered
  BY DEF ItemsAreOrdered
<1>3. WorkIsOnOrders
  BY DEF WorkIsOnOrders
<1>4. AddedAreNew
  BY DEF AddedAreNew
<1>5. CookedAreOrdered
  BY DEF CookedAreOrdered
<1>6. SumIsCurrent
  BY DEF SumIsCurrent, ItemsOf
<1>7. VerdictIsCurrent
  BY DEF VerdictIsCurrent
<1>8. TotalIsItems
  BY DEF TotalIsItems, ItemsOf
<1>9. KitchenSees
  BY DEF KitchenSees, Listed
<1> QED BY <1>1, <1>2, <1>3, <1>4, <1>5, <1>6, <1>7, <1>8, <1>9 DEF KitchenInv

\* The types, a table at a time.
LEMMA KitchenRows ==
    KitchenTypeOK <=> /\ order \in [Order -> OrderRow] /\ item \in [Item -> ItemRow]
                      /\ work \in [Handler -> WorkRow]
                      /\ left \in [Order -> SUBSET Item] /\ priced \in SUBSET Order /\ blind \in SUBSET Order
BY DEF KitchenTypeOK, OrderRow, ItemRow, WorkRow

\* The statuses a transaction goes by change only with the items of its order.
LEMMA StatusesAfterStay ==
    ASSUME NEW h \in Handler,
           work'[h].order = work[h].order, work'[h].items = work[h].items,
           work'[h].status = work[h].status,
           \A i \in Item : item'[i].order = work[h].order <=> item[i].order = work[h].order,
           \A k \in Others(h) : item'[k].status = item[k].status
    PROVE  StatusesAfter(h)' = StatusesAfter(h)
<1>1. Others(h)' = Others(h)
  BY DEF Others, ItemsOf
<1>2. {item'[k].status : k \in Others(h)} = {item[k].status : k \in Others(h)}
  OBVIOUS
<1> QED BY <1>1, <1>2 DEF StatusesAfter

LEMMA CreateOrderStep ==
    ASSUME KitchenInv, NEW o \in Order, NEW I \in SUBSET Item, create(o, I)
    PROVE  KitchenInv'
<1> USE NowhereAssumption
<1>1. /\ order \in [Order -> OrderRow] /\ item \in [Item -> ItemRow] /\ work \in [Handler -> WorkRow]
      /\ left \in [Order -> SUBSET Item] /\ priced \in SUBSET Order /\ blind \in SUBSET Order
  BY KitchenRows DEF KitchenInv
<1>2. /\ order' \in [Order -> OrderRow] /\ order[o].status = "none"
      /\ order'[o].status = "PENDING" /\ order'[o].counted = I
      /\ \A p \in Order \ {o} : order'[p] = order[p]
  <2>1. [status |-> "PENDING", counted |-> I] \in OrderRow
    BY DEF OrderRow, OrderStatus
  <2> QED BY <1>1, <2>1 DEF create
<1>3. /\ item' \in [Item -> ItemRow]
      /\ \A i \in I : item'[i].status = "PENDING" /\ item'[i].order = o
      /\ \A i \in Item \ I : item'[i] = item[i]
  <2>1. [status |-> "PENDING", order |-> o] \in ItemRow
    BY DEF ItemRow, ItemStatus
  <2> QED BY <1>1, <2>1 DEF create
<1>4. /\ UNCHANGED <<work, priced, blind>>
      /\ left' \in [Order -> SUBSET Item]
      /\ left'[o] = {} /\ \A p \in Order \ {o} : left'[p] = left[p]
  BY <1>1 DEF create
<1>5. \A i \in I : /\ item[i].status = "none" /\ item[i].order = Nowhere
                   /\ \A h \in Handler : i \notin work[h].items
  BY DEF create, NewItems, KitchenInv, ItemsAreOrdered
<1>6. \A i \in Item : item[i].order # o
  BY <1>2 DEF KitchenInv, ItemsAreOrdered
<1>7. ItemsOf(o)' = I /\ \A p \in Order \ {o} : ItemsOf(p)' = ItemsOf(p)
  BY <1>3, <1>5, <1>6 DEF ItemsOf
<1>8. \A h \in Handler : work[h].pc # "idle" => work[h].order \in Order \ {o}
  BY <1>2 DEF KitchenInv, WorkIsOnOrders
<1>11. KitchenTypeOK'
  BY <1>1, <1>2, <1>3, <1>4 DEF KitchenTypeOK, OrderRow, ItemRow, WorkRow
<1>12. ItemsAreOrdered'
  BY <1>1, <1>2, <1>3, <1>5, <1>6 DEF KitchenInv, ItemsAreOrdered
<1>13. WorkIsOnOrders'
  BY <1>2, <1>4, <1>8 DEF KitchenInv, WorkIsOnOrders
<1>14. AddedAreNew'
  BY <1>1, <1>3, <1>4, <1>5 DEF KitchenInv, AddedAreNew, WorkRow
<1>15. CookedAreOrdered'
  BY <1>3, <1>4, <1>5 DEF KitchenInv, CookedAreOrdered
<1>16. SumIsCurrent'
  BY <1>4, <1>7, <1>8 DEF KitchenInv, SumIsCurrent
<1>17. VerdictIsCurrent'
  <2> SUFFICES ASSUME NEW h \in Handler, work[h].pc = "cook", work[h].overtaken = {}
               PROVE  StatusesAfter(h)' = StatusesAfter(h)
    BY <1>4 DEF KitchenInv, VerdictIsCurrent
  <2>1. \A i \in Item : item'[i].order = work[h].order <=> item[i].order = work[h].order
    BY <1>3, <1>5, <1>8
  <2>2. \A k \in Others(h) : item'[k].status = item[k].status
    BY <1>3, <1>5, <1>8 DEF Others, ItemsOf
  <2> QED BY <1>4, <2>1, <2>2, StatusesAfterStay
<1>18. TotalIsItems'
  BY <1>2, <1>4, <1>7 DEF KitchenInv, TotalIsItems
<1>19. KitchenSees'
  BY <1>1, <1>2, <1>3, <1>4, <1>6 DEF KitchenInv, KitchenSees, Listed, ItemsAreOrdered, ItemRow
<1> QED BY <1>11, <1>12, <1>13, <1>14, <1>15, <1>16, <1>17, <1>18, <1>19 DEF KitchenInv

LEMMA UpdateOrderStep ==
    ASSUME KitchenInv, NEW o \in Order, NEW status \in OrderWords \cup {order[o].status},
           NEW total \in OrderTotals \cup {order[o].counted}, update(o, status, total)
    PROVE  KitchenInv'
<1> USE NowhereAssumption
<1>1. /\ order \in [Order -> OrderRow] /\ item \in [Item -> ItemRow] /\ work \in [Handler -> WorkRow]
      /\ left \in [Order -> SUBSET Item] /\ priced \in SUBSET Order /\ blind \in SUBSET Order
  BY KitchenRows DEF KitchenInv
<1>2. order[o].status # "none"
  BY DEF update
<1>3. status \in OrderStatus /\ status # "none" /\ total \in SUBSET Item
  BY <1>1, <1>2, WordsAssumption, TotalsAssumption DEF OrderStatus, OrderRow
<1>4. /\ order' \in [Order -> OrderRow]
      /\ order'[o].status = status /\ order'[o].counted = total
      /\ \A p \in Order \ {o} : order'[p] = order[p]
  <2>1. [status |-> status, counted |-> total] \in OrderRow
    BY <1>3 DEF OrderRow
  <2> QED BY <1>1, <2>1 DEF update
<1>5. UNCHANGED <<item, work>>
  BY DEF update
<1>6. /\ left' \in [Order -> SUBSET Item] /\ priced' \in SUBSET Order
      /\ \A p \in Order \ {o} : left'[p] = left[p] /\ (p \in priced <=> p \in priced')
      /\ o \in priced' \/ (total = order[o].counted /\ left'[o] = left[o] /\ o \notin priced)
  <2>1. CASE total = order[o].counted
    BY <1>1, <2>1 DEF update
  <2>2. CASE total # order[o].counted
    BY <1>1, <2>2 DEF update
  <2> QED BY <2>1, <2>2
<1>7. blind' \in SUBSET Order /\ blind \subseteq blind' /\ (status = order[o].status \/ o \in blind')
  BY <1>1 DEF update
<1>8. \A p : ItemsOf(p)' = ItemsOf(p)
  BY <1>5 DEF ItemsOf
<1>11. KitchenTypeOK'
  BY <1>1, <1>4, <1>5, <1>6, <1>7 DEF KitchenTypeOK, OrderRow, ItemRow, WorkRow
<1>12. ItemsAreOrdered'
  BY <1>3, <1>4, <1>5 DEF KitchenInv, ItemsAreOrdered
<1>13. WorkIsOnOrders'
  BY <1>3, <1>4, <1>5 DEF KitchenInv, WorkIsOnOrders
<1>14. AddedAreNew' /\ CookedAreOrdered'
  BY <1>5 DEF KitchenInv, AddedAreNew, CookedAreOrdered
<1>15. SumIsCurrent' /\ VerdictIsCurrent'
  BY <1>5 DEF KitchenInv, SumIsCurrent, VerdictIsCurrent, StatusesAfter, Others, ItemsOf
<1>16. TotalIsItems'
  <2> SUFFICES ASSUME NEW p \in Order, p \notin priced', order'[p].status # "none"
               PROVE  order'[p].counted = ItemsOf(p)' \ left'[p]
    BY DEF TotalIsItems
  <2>1. p \notin priced /\ order[p].status # "none" /\ order'[p].counted = order[p].counted /\ left'[p] = left[p]
    BY <1>2, <1>4, <1>6
  <2> QED BY <1>8, <2>1 DEF KitchenInv, TotalIsItems
<1>17. KitchenSees'
  BY <1>1, <1>4, <1>5, <1>7 DEF KitchenInv, KitchenSees, Listed, ItemsAreOrdered, ItemRow
<1> QED BY <1>11, <1>12, <1>13, <1>14, <1>15, <1>16, <1>17 DEF KitchenInv

LEMMA AddReadStep ==
    ASSUME KitchenInv, NEW h \in Handler, NEW o \in Order, NEW I \in SUBSET Item, addItemsRead(h, o, I)
    PROVE  KitchenInv'
<1> USE NowhereAssumption
<1>1. /\ order \in [Order -> OrderRow] /\ item \in [Item -> ItemRow] /\ work \in [Handler -> WorkRow]
      /\ left \in [Order -> SUBSET Item] /\ priced \in SUBSET Order /\ blind \in SUBSET Order
  BY KitchenRows DEF KitchenInv
<1>2. /\ UNCHANGED <<order, item, left, priced, blind>>
      /\ work[h].pc = "idle" /\ order[o].status # "none"
  BY DEF addItemsRead
<1>3. /\ work' \in [Handler -> WorkRow] /\ \A k \in Handler \ {h} : work'[k] = work[k]
      /\ work'[h].pc = "add" /\ work'[h].order = o /\ work'[h].items = I
      /\ work'[h].seen = ItemsOf(o) \cup I
  <2>1. [pc |-> "add", order |-> o, items |-> I, status |-> "none", seen |-> ItemsOf(o) \cup I,
         verdict |-> "none", overtaken |-> {}] \in WorkRow
    BY DEF WorkRow, ItemsOf
  <2> QED BY <1>1, <2>1 DEF addItemsRead
<1>4. I # {} /\ \A i \in I : item[i].status = "none" /\ \A k \in Handler : i \notin work[k].items
  <2>1. I \in NewItems
    BY DEF addItemsRead
  <2>2. I # {}
    BY <2>1 DEF NewItems
  <2>3. \A i \in I : item[i].status = "none" /\ \A k \in Handler : i \notin work[k].items
    BY <2>1 DEF NewItems
  <2> QED BY <2>2, <2>3
<1>5. work'[h].overtaken = {}
  BY <1>1 DEF addItemsRead
<1>11. KitchenTypeOK'
  BY <1>1, <1>2, <1>3 DEF KitchenTypeOK, OrderRow, ItemRow, WorkRow
<1>12. ItemsAreOrdered'
  BY <1>2 DEF KitchenInv, ItemsAreOrdered
<1>13. WorkIsOnOrders'
  BY <1>2, <1>3, <1>4 DEF KitchenInv, WorkIsOnOrders
<1>14. AddedAreNew'
  BY <1>2, <1>3, <1>4 DEF KitchenInv, AddedAreNew
<1>15. CookedAreOrdered'
  BY <1>2, <1>3 DEF KitchenInv, CookedAreOrdered
<1>16. SumIsCurrent'
  BY <1>2, <1>3, <1>5 DEF KitchenInv, SumIsCurrent, ItemsOf
<1>17. VerdictIsCurrent'
  BY <1>2, <1>3 DEF KitchenInv, VerdictIsCurrent, StatusesAfter, Others, ItemsOf
<1>18. TotalIsItems' /\ KitchenSees'
  BY <1>2 DEF KitchenInv, TotalIsItems, ItemsOf, KitchenSees, Listed
<1> QED BY <1>11, <1>12, <1>13, <1>14, <1>15, <1>16, <1>17, <1>18 DEF KitchenInv

\* The other transactions are as they were, but for what has overtaken them.
OvertakenBy(h, o, readers) ==
    /\ work' \in [Handler -> WorkRow] /\ work'[h].pc = "idle" /\ work'[h].items = {}
    /\ \A k \in Handler \ {h} :
          /\ work'[k].pc = work[k].pc /\ work'[k].order = work[k].order
          /\ work'[k].items = work[k].items /\ work'[k].status = work[k].status
          /\ work'[k].seen = work[k].seen /\ work'[k].verdict = work[k].verdict
          /\ work[k].order = o /\ work[k].pc \in readers =>
                work'[k].overtaken = work[k].overtaken \cup work[h].items
          /\ work[k].order # o \/ work[k].pc \notin readers => work'[k].overtaken = work[k].overtaken

LEMMA OvertakenRow ==
    ASSUME NEW w \in WorkRow, NEW I \in SUBSET Item, NEW v, v = [w EXCEPT !.overtaken = @ \cup I]
    PROVE  /\ v \in WorkRow
           /\ v.pc = w.pc /\ v.order = w.order /\ v.items = w.items /\ v.status = w.status
           /\ v.seen = w.seen /\ v.verdict = w.verdict
           /\ v.overtaken = w.overtaken \cup I
BY DEF WorkRow

LEMMA OvertakeFacts ==
    ASSUME work \in [Handler -> WorkRow],
           NEW h \in Handler, NEW o \in Order, NEW readers, work' = Overtake(h, o, readers)
    PROVE  OvertakenBy(h, o, readers)
<1>1. \A k \in Handler : work[k] \in WorkRow
  OBVIOUS
<1>2. NoWork \in WorkRow
  BY DEF NoWork, WorkRow
<1>3. PICK I \in SUBSET Item : I = work[h].items
  BY <1>1 DEF WorkRow
<1>4. work'[h] = NoWork
  BY DEF Overtake
<1>5. ASSUME NEW k \in Handler \ {h}
      PROVE  /\ work'[k] \in WorkRow
             /\ work'[k].pc = work[k].pc /\ work'[k].order = work[k].order
             /\ work'[k].items = work[k].items /\ work'[k].status = work[k].status
             /\ work'[k].seen = work[k].seen /\ work'[k].verdict = work[k].verdict
             /\ work[k].order = o /\ work[k].pc \in readers => work'[k].overtaken = work[k].overtaken \cup I
             /\ work[k].order # o \/ work[k].pc \notin readers => work'[k].overtaken = work[k].overtaken
  <2>1. CASE work[k].order = o /\ work[k].pc \in readers
    <3>1. work'[k] = [work[k] EXCEPT !.overtaken = @ \cup I]
      BY <1>3, <2>1 DEF Overtake
    <3> QED BY <1>1, <2>1, <3>1, OvertakenRow
  <2>2. CASE work[k].order # o \/ work[k].pc \notin readers
    <3>1. work'[k] = work[k]
      BY <2>2 DEF Overtake
    <3> QED BY <1>1, <2>2, <3>1
  <2> QED BY <2>1, <2>2
<1>6. work' \in [Handler -> WorkRow]
  BY <1>2, <1>4, <1>5 DEF Overtake
<1> QED BY <1>3, <1>4, <1>5, <1>6 DEF OvertakenBy, NoWork

LEMMA AddCommitStep ==
    ASSUME KitchenInv, NEW h \in Handler, addItemsCommit(h)
    PROVE  KitchenInv'
<1> USE NowhereAssumption
<1>1. /\ order \in [Order -> OrderRow] /\ item \in [Item -> ItemRow] /\ work \in [Handler -> WorkRow]
      /\ left \in [Order -> SUBSET Item] /\ priced \in SUBSET Order /\ blind \in SUBSET Order
  BY KitchenRows DEF KitchenInv
<1>0. PICK o \in Order, I \in SUBSET Item : o = work[h].order /\ I = work[h].items
  BY <1>1 DEF addItemsCommit, KitchenInv, WorkIsOnOrders, WorkRow
<1>2. order[o].status # "none" /\ work[h].seen \in SUBSET Item
  BY <1>0, <1>1 DEF addItemsCommit, KitchenInv, WorkIsOnOrders, WorkRow
<1>3. OvertakenBy(h, o, {"add", "cook"})
  BY <1>0, <1>1, OvertakeFacts DEF addItemsCommit
<1>4. /\ order' \in [Order -> OrderRow] /\ order'[o].counted = work[h].seen
      /\ \A p \in Order : order'[p].status = order[p].status
      /\ \A p \in Order \ {o} : order'[p] = order[p]
  BY <1>0, <1>1, <1>2 DEF addItemsCommit, OrderRow
<1>5. /\ item' \in [Item -> ItemRow]
      /\ \A i \in I : item'[i].status = "PENDING" /\ item'[i].order = o
      /\ \A i \in Item \ I : item'[i] = item[i]
  <2>1. [status |-> "PENDING", order |-> o] \in ItemRow
    BY DEF ItemRow, ItemStatus
  <2> QED BY <1>0, <1>1, <2>1 DEF addItemsCommit
<1>6. /\ left' = [left EXCEPT ![o] = work[h].overtaken] /\ priced' = priced \ {o}
      /\ blind' = IF Listed(order[o].status) THEN blind ELSE blind \cup {o}
      /\ work[h].pc = "add"
  BY <1>0 DEF addItemsCommit
<1>7. \A i \in I : /\ item[i].status = "none" /\ item[i].order = Nowhere
                   /\ \A k \in Handler \ {h} : i \notin work[k].items
  BY <1>0, <1>6 DEF KitchenInv, AddedAreNew, ItemsAreOrdered
<1>8. ItemsOf(o)' = ItemsOf(o) \cup I /\ \A p \in Order \ {o} : ItemsOf(p)' = ItemsOf(p)
  BY <1>5, <1>7 DEF ItemsOf
<1>9. \A k \in Handler : work'[k].pc # "idle" /\ work'[k].overtaken = {} =>
        k # h /\ work[k].overtaken = {} /\ work[k].order \in Order \ {o}
  <2>1. I # {}
    BY <1>0, <1>6 DEF KitchenInv, WorkIsOnOrders
  <2> QED BY <1>0, <1>1, <1>3, <2>1 DEF OvertakenBy, KitchenInv, WorkIsOnOrders, WorkRow
<1>11. KitchenTypeOK'
  <2>1. left' \in [Order -> SUBSET Item] /\ priced' \in SUBSET Order /\ blind' \in SUBSET Order
    BY <1>1, <1>2, <1>6 DEF WorkRow
  <2> QED BY <2>1, <1>3, <1>4, <1>5 DEF KitchenTypeOK, OrderRow, ItemRow, WorkRow, OvertakenBy
<1>12. ItemsAreOrdered'
  BY <1>1, <1>2, <1>4, <1>5 DEF KitchenInv, ItemsAreOrdered
<1>13. WorkIsOnOrders'
  BY <1>3, <1>4 DEF KitchenInv, WorkIsOnOrders, OvertakenBy
<1>14. AddedAreNew'
  <2> SUFFICES ASSUME NEW k \in Handler, work'[k].pc = "add", NEW i \in work'[k].items
               PROVE  /\ item'[i].status = "none"
                      /\ \A m \in Handler : i \in work'[m].items => m = k
    BY DEF AddedAreNew
  <2>1. k # h /\ work[k].pc = "add" /\ i \in work[k].items /\ work[k].items \in SUBSET Item
    BY <1>1, <1>3 DEF OvertakenBy, WorkRow
  <2>2. i \notin I
    BY <1>7, <2>1
  <2> QED BY <1>3, <1>5, <2>1, <2>2 DEF KitchenInv, AddedAreNew, OvertakenBy
<1>15. CookedAreOrdered'
  BY <1>3, <1>5, <1>7 DEF KitchenInv, CookedAreOrdered, OvertakenBy
<1>16. SumIsCurrent'
  <2> SUFFICES ASSUME NEW k \in Handler, work'[k].pc = "add"
               PROVE  work'[k].seen = ({i \in Item : item'[i].order = work'[k].order}
                                          \cup work'[k].items) \ work'[k].overtaken
    BY DEF SumIsCurrent, ItemsOf
  <2>1. k # h /\ work[k].pc = "add" /\ work[k].order \in Order
    BY <1>3 DEF OvertakenBy, KitchenInv, WorkIsOnOrders
  <2>2. PICK p \in Order, J \in SUBSET Item, S \in SUBSET Item, V \in SUBSET Item :
            p = work[k].order /\ J = work[k].items /\ S = work[k].seen /\ V = work[k].overtaken
    BY <1>1, <2>1 DEF WorkRow
  <2>3. work'[k].order = p /\ work'[k].items = J /\ work'[k].seen = S
    BY <1>3, <2>1, <2>2 DEF OvertakenBy
  <2>4. /\ S = (ItemsOf(p) \cup J) \ V
        /\ {i \in Item : item'[i].order = p} = ItemsOf(p)'
    BY <2>1, <2>2 DEF KitchenInv, SumIsCurrent, ItemsOf
  <2>5. CASE p = o
    <3>1. work'[k].overtaken = V \cup I
      BY <1>0, <1>3, <2>1, <2>2, <2>5 DEF OvertakenBy
    <3>2. I \cap (ItemsOf(p) \cup J) = {}
      BY <1>7, <2>1, <2>2 DEF ItemsOf
    <3> QED BY <1>8, <2>3, <2>4, <2>5, <3>1, <3>2
  <2>6. CASE p # o
    <3>1. work'[k].overtaken = V
      BY <1>3, <2>1, <2>2, <2>6 DEF OvertakenBy
    <3> QED BY <1>8, <2>3, <2>4, <2>6, <3>1
  <2> QED BY <2>5, <2>6
<1>17. VerdictIsCurrent'
  <2> SUFFICES ASSUME NEW k \in Handler, work'[k].pc = "cook", work'[k].overtaken = {}
               PROVE  work'[k].verdict = Verdict(StatusesAfter(k)')
    BY DEF VerdictIsCurrent, Verdict
  <2>1. k # h /\ work[k].order \in Order \ {o}
    BY <1>9
  <2>2. \A i \in Others(k) : item'[i].status = item[i].status
    BY <1>5, <1>7, <2>1 DEF Others, ItemsOf
  <2>3. \A i \in Item : item'[i].order = work[k].order <=> item[i].order = work[k].order
    BY <1>5, <1>7, <2>1
  <2>4. StatusesAfter(k)' = StatusesAfter(k)
    BY <1>3, <2>1, <2>2, <2>3, StatusesAfterStay DEF OvertakenBy
  <2> QED BY <1>3, <1>9, <2>1, <2>4 DEF KitchenInv, VerdictIsCurrent, OvertakenBy
<1>18. TotalIsItems'
  <2> SUFFICES ASSUME NEW p \in Order, p \notin priced', order'[p].status # "none"
               PROVE  order'[p].counted = ItemsOf(p)' \ left'[p]
    BY DEF TotalIsItems
  <2>1. CASE p = o
    <3>1. work[h].seen = (ItemsOf(o) \cup I) \ work[h].overtaken
      BY <1>0, <1>6 DEF KitchenInv, SumIsCurrent
    <3>2. left'[o] = work[h].overtaken
      BY <1>1, <1>6
    <3> QED BY <1>4, <1>8, <2>1, <3>1, <3>2
  <2>2. CASE p # o
    <3>1. p \notin priced /\ left'[p] = left[p] /\ order'[p] = order[p]
      BY <1>1, <1>4, <1>6, <2>2
    <3> QED BY <1>8, <2>2, <3>1 DEF KitchenInv, TotalIsItems
  <2> QED BY <2>1, <2>2
<1>19. KitchenSees'
  <2>1. blind \subseteq blind' /\ (o \in blind' \/ Listed(order[o].status))
    BY <1>6
  <2> QED BY <1>1, <1>4, <1>5, <2>1 DEF KitchenInv, KitchenSees, Listed, ItemsAreOrdered, ItemRow
<1> QED BY <1>11, <1>12, <1>13, <1>14, <1>15, <1>16, <1>17, <1>18, <1>19 DEF KitchenInv

LEMMA CookReadStep ==
    ASSUME KitchenInv, NEW h \in Handler, NEW i \in Item, NEW s \in ItemWords, updateItemStatusRead(h, i, s)
    PROVE  KitchenInv'
<1> USE NowhereAssumption
<1>1. /\ order \in [Order -> OrderRow] /\ item \in [Item -> ItemRow] /\ work \in [Handler -> WorkRow]
      /\ left \in [Order -> SUBSET Item] /\ priced \in SUBSET Order /\ blind \in SUBSET Order
  BY KitchenRows DEF KitchenInv
<1>2. s \in ItemStatus /\ s # "none"
  BY WordsAssumption DEF ItemStatus
<1> DEFINE o == item[i].order
           V == {item[k].status : k \in ItemsOf(o) \ {i}} \cup {s}
<1>3. o \in Order /\ order[o].status # "none" /\ item[i].status # "none" /\ work[h].pc = "idle"
  BY <1>1 DEF updateItemStatusRead, KitchenInv, ItemsAreOrdered, ItemRow
<1>4. UNCHANGED <<order, item, left, priced, blind>>
  BY DEF updateItemStatusRead
<1>5. Verdict(V) \in {"none", "READY", "PREPARING"}
  BY DEF Verdict
<1>6. work' = [work EXCEPT ![h] = [pc |-> "cook", order |-> o, items |-> {i}, status |-> s,
                  seen |-> {}, verdict |-> Verdict(V), overtaken |-> {}]]
  BY DEF updateItemStatusRead
<1> HIDE DEF o, V
<1>7. /\ work' \in [Handler -> WorkRow] /\ \A k \in Handler \ {h} : work'[k] = work[k]
      /\ work'[h].pc = "cook" /\ work'[h].order = o /\ work'[h].items = {i}
      /\ work'[h].status = s /\ work'[h].verdict = Verdict(V)
  <2>1. [pc |-> "cook", order |-> o, items |-> {i}, status |-> s, seen |-> {},
         verdict |-> Verdict(V), overtaken |-> {}] \in WorkRow
    BY <1>2, <1>3, <1>5 DEF WorkRow
  <2> QED BY <1>1, <1>6, <2>1
<1>11. KitchenTypeOK'
  BY <1>1, <1>4, <1>7 DEF KitchenTypeOK, OrderRow, ItemRow, WorkRow
<1>12. ItemsAreOrdered'
  BY <1>4 DEF KitchenInv, ItemsAreOrdered
<1>13. WorkIsOnOrders'
  BY <1>3, <1>4, <1>7 DEF KitchenInv, WorkIsOnOrders
<1>14. AddedAreNew'
  BY <1>3, <1>4, <1>7 DEF KitchenInv, AddedAreNew
<1>15. CookedAreOrdered'
  BY <1>2, <1>4, <1>7 DEF KitchenInv, CookedAreOrdered, o
<1>16. SumIsCurrent'
  BY <1>4, <1>7 DEF KitchenInv, SumIsCurrent, ItemsOf
<1>17. VerdictIsCurrent'
  <2>1. StatusesAfter(h)' = V
    BY <1>4, <1>7 DEF StatusesAfter, Others, ItemsOf, V
  <2>2. ASSUME NEW k \in Handler \ {h} PROVE StatusesAfter(k)' = StatusesAfter(k)
    BY <1>4, <1>7 DEF StatusesAfter, Others, ItemsOf
  <2> QED BY <1>7, <2>1, <2>2 DEF KitchenInv, VerdictIsCurrent
<1>18. TotalIsItems' /\ KitchenSees'
  BY <1>4 DEF KitchenInv, TotalIsItems, ItemsOf, KitchenSees, Listed
<1> QED BY <1>11, <1>12, <1>13, <1>14, <1>15, <1>16, <1>17, <1>18 DEF KitchenInv

LEMMA CookCommitStep ==
    ASSUME KitchenInv, NEW h \in Handler, updateItemStatusCommit(h)
    PROVE  KitchenInv'
<1> USE NowhereAssumption
<1>1. /\ order \in [Order -> OrderRow] /\ item \in [Item -> ItemRow] /\ work \in [Handler -> WorkRow]
      /\ left \in [Order -> SUBSET Item] /\ priced \in SUBSET Order /\ blind \in SUBSET Order
  BY KitchenRows DEF KitchenInv
<1>0. PICK o \in Order : o = work[h].order
  BY <1>1 DEF updateItemStatusCommit, KitchenInv, WorkIsOnOrders, WorkRow
<1> DEFINE s == work[h].status
           verdict == work[h].verdict
<1>2. /\ work[h].pc = "cook" /\ order[o].status # "none"
      /\ s \in ItemStatus /\ s # "none" /\ verdict \in {"none", "READY", "PREPARING"}
  BY <1>0, <1>1 DEF updateItemStatusCommit, KitchenInv, WorkIsOnOrders, CookedAreOrdered, WorkRow
<1>3. PICK i \in Item : work[h].items = {i} /\ item[i].order = o
  BY <1>0, <1>2 DEF KitchenInv, CookedAreOrdered
<1>4. OvertakenBy(h, o, {"cook"})
  BY <1>0, <1>1, OvertakeFacts DEF updateItemStatusCommit
<1>5. /\ order' \in [Order -> OrderRow]
      /\ \A p \in Order : /\ order'[p].counted = order[p].counted
                          /\ order[p].status # "none" => order'[p].status # "none"
      /\ \A p \in Order \ {o} : order'[p] = order[p]
      /\ order'[o].status = IF verdict # "none" THEN verdict ELSE order[o].status
  <2>1. CASE verdict = "none"
    BY <1>0, <1>1, <2>1 DEF updateItemStatusCommit
  <2>2. CASE verdict # "none"
    BY <1>0, <1>1, <1>2, <2>2 DEF updateItemStatusCommit, OrderRow, OrderStatus
  <2> QED BY <2>1, <2>2
<1>6. /\ item' \in [Item -> ItemRow]
      /\ \A k \in Item : item'[k].order = item[k].order
      /\ item'[i].status = s
      /\ \A k \in Item \ {i} : item'[k] = item[k]
  BY <1>1, <1>2, <1>3 DEF updateItemStatusCommit, ItemRow
<1>7. /\ blind' = IF work[h].overtaken # {} \/ s = "PENDING" THEN blind \cup {o} ELSE blind
      /\ UNCHANGED <<left, priced>>
  BY <1>0 DEF updateItemStatusCommit
<1>8. \A p : ItemsOf(p)' = ItemsOf(p)
  BY <1>6 DEF ItemsOf
<1>9. /\ item[i].status # "none"
      /\ work[h].overtaken = {} => verdict = Verdict(StatusesAfter(h))
  BY <1>2, <1>3 DEF KitchenInv, ItemsAreOrdered, VerdictIsCurrent
<1>10. StatusesAfter(h) = {item[k].status : k \in ItemsOf(o) \ {i}} \cup {s}
  BY <1>0, <1>3 DEF StatusesAfter, Others
<1> HIDE DEF s, verdict
<1>11. KitchenTypeOK'
  <2>1. left' \in [Order -> SUBSET Item] /\ priced' \in SUBSET Order /\ blind' \in SUBSET Order
    BY <1>1, <1>2, <1>7
  <2> QED BY <2>1, <1>4, <1>5, <1>6 DEF KitchenTypeOK, OrderRow, ItemRow, WorkRow, OvertakenBy
<1>12. ItemsAreOrdered'
  BY <1>2, <1>3, <1>5, <1>6 DEF KitchenInv, ItemsAreOrdered
<1>13. WorkIsOnOrders'
  BY <1>4, <1>5 DEF KitchenInv, WorkIsOnOrders, OvertakenBy
<1>14. AddedAreNew'
  <2> SUFFICES ASSUME NEW k \in Handler, work'[k].pc = "add", NEW j \in work'[k].items
               PROVE  /\ item'[j].status = "none"
                      /\ \A m \in Handler : j \in work'[m].items => m = k
    BY DEF AddedAreNew
  <2>1. k # h /\ work[k].pc = "add" /\ j \in work[k].items /\ work[k].items \in SUBSET Item
    BY <1>1, <1>4 DEF OvertakenBy, WorkRow
  <2>2. /\ item[j].status = "none"
        /\ \A m \in Handler : j \in work[m].items => m = k
    BY <2>1 DEF KitchenInv, AddedAreNew
  <2> QED BY <1>4, <1>6, <1>9, <2>1, <2>2 DEF OvertakenBy
<1>15. CookedAreOrdered'
  BY <1>4, <1>6 DEF KitchenInv, CookedAreOrdered, OvertakenBy
<1>16. SumIsCurrent'
  BY <1>4, <1>8 DEF KitchenInv, SumIsCurrent, OvertakenBy
<1>17. VerdictIsCurrent'
  <2> SUFFICES ASSUME NEW k \in Handler, work'[k].pc = "cook", work'[k].overtaken = {}
               PROVE  work'[k].verdict = Verdict(StatusesAfter(k)')
    BY DEF VerdictIsCurrent, Verdict
  <2>1. k # h /\ work[k].order # o /\ work[k].overtaken = {}
    BY <1>3, <1>4 DEF OvertakenBy
  <2>2. \A j \in Others(k) : item'[j].status = item[j].status
    BY <1>3, <1>6, <2>1 DEF Others, ItemsOf
  <2>3. StatusesAfter(k)' = StatusesAfter(k)
    BY <1>4, <1>6, <2>1, <2>2, StatusesAfterStay DEF OvertakenBy
  <2> QED BY <1>4, <2>1, <2>3 DEF KitchenInv, VerdictIsCurrent, OvertakenBy
<1>18. TotalIsItems'
  <2>1. \A p \in Order : order'[p].status # "none" => order[p].status # "none"
    BY <1>2, <1>5
  <2> QED BY <1>5, <1>7, <1>8, <2>1 DEF KitchenInv, TotalIsItems
<1>19. KitchenSees'
  <2> SUFFICES ASSUME NEW k \in Item, item'[k].status \in {"PENDING", "PREPARING"}, item'[k].order \notin blind'
               PROVE  Listed(order'[item'[k].order].status)
    BY DEF KitchenSees, Listed
  <2>1. blind \subseteq blind' /\ (o \notin blind' => work[h].overtaken = {} /\ s # "PENDING")
    BY <1>7
  <2>2. CASE item[k].order # o
    <3>1. k # i /\ item[k].order \in Order
      BY <1>1, <1>3, <1>6, <2>2 DEF KitchenInv, ItemsAreOrdered, ItemRow
    <3> QED BY <1>5, <1>6, <2>1, <2>2, <3>1 DEF KitchenInv, KitchenSees, Listed
  <2>3. CASE item[k].order = o
    <3>1. work[h].overtaken = {} /\ s # "PENDING" /\ o \notin blind
      BY <1>6, <2>1, <2>3
    <3>2. verdict = Verdict(StatusesAfter(h))
      BY <1>9, <3>1
    <3>3. item'[k].status \in StatusesAfter(h)
      BY <1>6, <1>10, <2>3 DEF ItemsOf
    <3>4. verdict # "READY"
      BY <3>2, <3>3 DEF Verdict
    <3>5. CASE verdict = "PREPARING"
      BY <1>5, <1>6, <2>3, <3>5 DEF Listed
    <3>6. CASE verdict = "none"
      <4>1. k # i
        <5>1. "PREPARING" \notin StatusesAfter(h)
          BY <3>2, <3>6 DEF Verdict
        <5> QED BY <1>6, <3>1, <3>3, <5>1
      <4> QED BY <1>5, <1>6, <2>3, <3>1, <3>6, <4>1 DEF KitchenInv, KitchenSees, Listed
    <3> QED BY <1>2, <3>4, <3>5, <3>6
  <2> QED BY <2>2, <2>3
<1> QED BY <1>11, <1>12, <1>13, <1>14, <1>15, <1>16, <1>17, <1>18, <1>19 DEF KitchenInv

LEMMA AbortStep ==
    ASSUME KitchenInv, NEW h \in Handler, Abort(h)
    PROVE  KitchenInv'
<1>1. /\ order \in [Order -> OrderRow] /\ item \in [Item -> ItemRow] /\ work \in [Handler -> WorkRow]
      /\ left \in [Order -> SUBSET Item] /\ priced \in SUBSET Order /\ blind \in SUBSET Order
  BY KitchenRows DEF KitchenInv
<1>2. /\ UNCHANGED <<order, item, left, priced, blind>> /\ work'[h].pc = "idle" /\ work'[h].items = {}
      /\ \A k \in Handler \ {h} : work'[k] = work[k]
      /\ work' \in [Handler -> WorkRow]
  <2>1. NoWork \in WorkRow
    BY DEF NoWork, WorkRow
  <2> QED BY <1>1, <2>1 DEF Abort, NoWork
<1>11. KitchenTypeOK'
  BY <1>1, <1>2 DEF KitchenTypeOK, OrderRow, ItemRow, WorkRow
<1>12. ItemsAreOrdered' /\ TotalIsItems' /\ KitchenSees'
  BY <1>2 DEF KitchenInv, ItemsAreOrdered, TotalIsItems, KitchenSees, ItemsOf, Listed
<1>13. WorkIsOnOrders' /\ CookedAreOrdered'
  BY <1>2 DEF KitchenInv, WorkIsOnOrders, CookedAreOrdered
<1>14. AddedAreNew'
  BY <1>2 DEF KitchenInv, AddedAreNew
<1>15. SumIsCurrent'
  BY <1>2 DEF KitchenInv, SumIsCurrent, ItemsOf
<1>16. VerdictIsCurrent'
  <2> SUFFICES ASSUME NEW k \in Handler, work'[k].pc = "cook", work'[k].overtaken = {}
               PROVE  work'[k].verdict = Verdict(StatusesAfter(k)')
    BY DEF VerdictIsCurrent, Verdict
  <2>1. k # h /\ work'[k] = work[k]
    BY <1>2
  <2>2. StatusesAfter(k)' = StatusesAfter(k)
    BY <1>2, <2>1, StatusesAfterStay
  <2> QED BY <2>1, <2>2 DEF KitchenInv, VerdictIsCurrent
<1> QED BY <1>16, <1>11, <1>12, <1>13, <1>14, <1>15 DEF KitchenInv

LEMMA KitchenInvStep == KitchenInv /\ [KitchenNext]_kitchenVars => KitchenInv'
<1> SUFFICES ASSUME KitchenInv, [KitchenNext]_kitchenVars PROVE KitchenInv'
  OBVIOUS
<1>1. ASSUME NEW o \in Order, NEW I \in SUBSET Item, create(o, I) PROVE KitchenInv'
  BY <1>1, CreateOrderStep
<1>2. ASSUME NEW o \in Order, NEW s \in OrderWords \cup {order[o].status},
             NEW t \in OrderTotals \cup {order[o].counted}, update(o, s, t)
      PROVE  KitchenInv'
  BY <1>2, UpdateOrderStep
<1>3. ASSUME NEW h \in Handler, NEW o \in Order, NEW I \in SUBSET Item, addItemsRead(h, o, I)
      PROVE  KitchenInv'
  BY <1>3, AddReadStep
<1>4. ASSUME NEW h \in Handler, NEW i \in Item, NEW s \in ItemWords, updateItemStatusRead(h, i, s)
      PROVE  KitchenInv'
  BY <1>4, CookReadStep
<1>5. ASSUME NEW h \in Handler, addItemsCommit(h) PROVE KitchenInv'
  BY <1>5, AddCommitStep
<1>6. ASSUME NEW h \in Handler, updateItemStatusCommit(h) PROVE KitchenInv'
  BY <1>6, CookCommitStep
<1>7. ASSUME NEW h \in Handler, Abort(h) PROVE KitchenInv'
  BY <1>7, AbortStep
<1>8. CASE UNCHANGED kitchenVars
  BY <1>8 DEF kitchenVars, KitchenInv, KitchenTypeOK, ItemsAreOrdered, WorkIsOnOrders, AddedAreNew,
              CookedAreOrdered, SumIsCurrent, VerdictIsCurrent, StatusesAfter, Others, TotalIsItems,
              ItemsOf, KitchenSees, Listed
<1> QED BY <1>1, <1>2, <1>3, <1>4, <1>5, <1>6, <1>7, <1>8 DEF KitchenNext

\* The tables of the restaurant and the transactions at work are as the
\* conjuncts above say, in every state.
THEOREM KitchenInvariantHolds == KitchenSpec => []KitchenInv
BY KitchenInvInit, KitchenInvStep, PTL DEF KitchenSpec

\* TotalIsItems: until a body names another total, an order's total is the sum
\* of all its items but those that overtook its last addition.
THEOREM TotalsAreItems == KitchenSpec => []TotalIsItems
<1>1. KitchenInv => TotalIsItems
  BY DEF KitchenInv
<1> QED BY <1>1, KitchenInvariantHolds, PTL

\* KitchenSees: an order with an item to cook is on the kitchen's list, but
\* for the orders whose status no longer follows from their items.
THEOREM KitchenSeesOrders == KitchenSpec => []KitchenSees
<1>1. KitchenInv => KitchenSees
  BY DEF KitchenInv
<1> QED BY <1>1, KitchenInvariantHolds, PTL
=============================================================================
