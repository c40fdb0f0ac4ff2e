--------------------------- MODULE StockDocuments ---------------------------
(***************************************************************************)
(* The stock documents of the inventory module - transfers between         *)
(* branches, purchase orders and stock counts - and the handlers that      *)
(* create, approve, receive, reject, edit and delete them.  Stock moves    *)
(* only when a document is approved or received: that handler claims the   *)
(* document with a conditional UPDATE, locks the rows of its lines one     *)
(* after the other and commits, all in one PostgreSQL transaction.         *)
(* Creating, rejecting, editing and deleting run statement by statement on *)
(* a reserved connection, outside any transaction.                         *)
(*                                                                         *)
(* A line is a signed quantity on a row; a transfer has two per item, the  *)
(* source before the destination.  Stock moved by a request in flight is   *)
(* kept with it and added to the rows when it commits: every writer of     *)
(* this module holds the rows it read.  Sell stands for the sales of the   *)
(* same product at the source, one locked row each.                        *)
(***************************************************************************)
EXTENDS Integers, Sequences, FiniteSets, Functions

CONSTANTS
    Row,            \* inventory rows: a product at a branch
    Doc,            \* documents that may be created
    Request,        \* requests
    Nobody,         \* owner of a free row or document, document of no request
    Choices,        \* what a created document may be: [kind, lines]
    Existing,       \* those of Choices of which one may wait from earlier days
    OrderStatuses,  \* the values PATCH .../status may be asked to set
    Kinds,          \* the routes offered to clients
    InitQty         \* opening quantity of each row

DocKinds   == {"transfer", "order", "count"}
RouteKinds == {"create", "approve", "reject", "status", "edit", "delete", "sell"}
POStatuses == {"DRAFT", "PENDING", "APPROVED", "RECEIVED", "CANCELLED"}
Statuses   == POStatuses \cup {"none", "COMPLETED", "REJECTED", "deleted"}
Line       == [row : Row, qty : Int \ {0}]

ASSUME NobodyAssumption == Nobody \notin Request \cup Doc
ASSUME KindsAssumption  == Kinds \subseteq RouteKinds
ASSUME StatusAssumption == OrderStatuses \subseteq POStatuses
ASSUME ExistAssumption  == Existing \subseteq Choices
ASSUME RowAssumption    == IsFiniteSet(Row)
ASSUME StockAssumption  == InitQty \in [Row -> Nat]
ASSUME ChoiceAssumption ==
    \A c \in Choices :
        /\ c.kind \in DocKinds /\ c.lines \in Seq(Line) /\ c.lines # <<>>
        /\ c.kind = "order" => \A k \in DOMAIN c.lines : c.lines[k].qty > 0
        /\ c.kind = "transfer" =>
               /\ Len(c.lines) % 2 = 0
               /\ \A k \in DOMAIN c.lines : k % 2 = 1 =>
                     /\ c.lines[k].qty < 0
                     /\ c.lines[k + 1].qty = -c.lines[k].qty

VARIABLES
    qty,      \* committed inventory.quantity
    lock,     \* owner of the row lock on an inventory row
    doc,      \* the documents: kind, committed status, lines
    docLock,  \* owner of the row lock on a document
    posted,   \* per document and row, the stock its committed requests added
    applied,  \* per document, how many committed requests moved its stock
    req       \* the requests

vars == <<qty, lock, doc, docLock, posted, applied, req>>

NoDoc == [kind |-> "transfer", status |-> "none", lines |-> <<>>]
Zero  == [x \in Row |-> 0]

Fresh == [kind |-> "none", pc |-> "idle", doc |-> Nobody, status |-> "none",
          lines |-> <<>>, i |-> 1, moved |-> Zero]

PCs == {"idle", "items", "claim", "take", "commit", "write", "erase",
        "done", "failed"}

TypeOK ==
    /\ qty \in [Row -> Int]
    /\ lock \in [Row -> Request \cup {Nobody}]
    /\ doc \in [Doc -> [kind : DocKinds, status : Statuses, lines : Seq(Line)]]
    /\ docLock \in [Doc -> Request \cup {Nobody}]
    /\ posted \in [Doc -> [Row -> Int]]
    /\ applied \in [Doc -> Nat]
    /\ req \in [Request -> [kind : RouteKinds \cup {"none"}, pc : PCs,
                            doc : Doc \cup {Nobody}, status : Statuses,
                            lines : Seq(Line), i : Nat \ {0},
                            moved : [Row -> Int]]]

InitialStatus(kind) == IF kind = "order" THEN "DRAFT" ELSE "PENDING"

Created(choice) == [kind |-> choice.kind, status |-> InitialStatus(choice.kind),
                    lines |-> choice.lines]

Init ==
    /\ qty = InitQty
    /\ lock = [x \in Row |-> Nobody]
    /\ doc \in [Doc -> {NoDoc} \cup {Created(c) : c \in Existing}]
    /\ docLock = [d \in Doc |-> Nobody]
    /\ posted = [d \in Doc |-> Zero]
    /\ applied = [d \in Doc |-> 0]
    /\ req = [r \in Request |-> Fresh]

-----------------------------------------------------------------------------
At(r, pc)  == req[r].pc = pc
Mine(r)    == doc[req[r].doc]
Current(r) == req[r].lines[req[r].i]

\* What the locking read of r returns: its own uncommitted update or the
\* committed quantity.
Sees(r, x) == qty[x] + req[r].moved[x]

Lockable(r, x) == lock[x] \in {Nobody, r}

lockInventoryRow(r, x) == Lockable(r, x) /\ lock' = [lock EXCEPT ![x] = r]

Arrive(r, kind, pc, d, status, lines) ==
    /\ At(r, "idle")
    /\ kind \in Kinds
    /\ req' = [req EXCEPT ![r] = [kind |-> kind, pc |-> pc, doc |-> d, status |-> status,
                                  lines |-> lines, i |-> 1, moved |-> Zero]]

Finish(r, pc) == req' = [req EXCEPT ![r].pc = pc]

FreeLocks(r) ==
    /\ lock'    = [x \in Row |-> IF lock[x] = r THEN Nobody ELSE lock[x]]
    /\ docLock' = [d \in Doc |-> IF docLock[d] = r THEN Nobody ELSE docLock[d]]

\* ROLLBACK, or the end of a request that has changed nothing.
Fail(r) ==
    /\ Finish(r, "failed")
    /\ FreeLocks(r)
    /\ UNCHANGED <<qty, doc, posted, applied>>

-----------------------------------------------------------------------------
(***************************************************************************)
(* POST /stock-transfers, /transfers, /purchase-orders, /stock-counts: the *)
(* document is inserted by one statement and its items by a later one.     *)
(* The stock check of a transfer takes no lock and reserves nothing.       *)
(***************************************************************************)
InStock(choice) ==
    choice.kind = "transfer" =>
        \A k \in DOMAIN choice.lines :
            choice.lines[k].qty < 0 =>
                qty[choice.lines[k].row] >= -choice.lines[k].qty

Create(r) ==
    \E d \in Doc, choice \in Choices :
        /\ doc[d].status = "none"
        /\ InStock(choice)
        /\ Arrive(r, "create", "items", d, "none", choice.lines)
        /\ doc' = [doc EXCEPT ![d] = [Created(choice) EXCEPT !.lines = <<>>]]
        /\ UNCHANGED <<qty, lock, docLock, posted, applied>>

CreateItems(r) ==
    /\ At(r, "items")
    /\ doc' = IF Mine(r).status = "deleted" THEN doc
              ELSE [doc EXCEPT ![req[r].doc].lines = req[r].lines]
    /\ Finish(r, "done")
    /\ UNCHANGED <<qty, lock, docLock, posted, applied>>

-----------------------------------------------------------------------------
(***************************************************************************)
(* PATCH .../approve of a transfer (two routes, one behaviour) and of a    *)
(* count, PATCH .../status of an order.  A transfer is read with its items *)
(* before it is claimed, the others after.                                 *)
(***************************************************************************)
ApproveArrive(r) ==
    \E d \in Doc :
        /\ doc[d].kind \in {"transfer", "count"}
        /\ doc[d].status \notin {"none", "deleted"}
        /\ Arrive(r, "approve", "claim", d, "COMPLETED", doc[d].lines)
        /\ UNCHANGED <<qty, lock, doc, docLock, posted, applied>>

StatusArrive(r) ==
    \E d \in Doc, status \in OrderStatuses :
        /\ doc[d].kind = "order"
        /\ doc[d].status \notin {"none", "deleted"}
        /\ Arrive(r, "status", "claim", d, status, <<>>)
        /\ UNCHANGED <<qty, lock, doc, docLock, posted, applied>>

\* Mutant: the claim does not look at the status.
ClaimableAnyway(r) == Mine(r).status # "deleted"

\* The condition of the UPDATE that claims the document.
Claimable(r) ==
    IF req[r].kind = "approve"
    THEN Mine(r).status = "PENDING"
    ELSE /\ Mine(r).status # "deleted"
         /\ req[r].status = "RECEIVED" => Mine(r).status # "RECEIVED"

MovesStock(r) == req[r].kind = "approve" \/ req[r].status = "RECEIVED"

ClaimedLines(r) ==
    IF ~MovesStock(r) THEN <<>>
    ELSE IF Mine(r).kind = "transfer" THEN req[r].lines ELSE Mine(r).lines

Claim(r) ==
    /\ At(r, "claim")
    /\ docLock[req[r].doc] = Nobody
    /\ \/ /\ ~Claimable(r)                       \* INVALID_STATE, ALREADY_RECEIVED
          /\ Fail(r)
       \/ /\ Claimable(r)
          /\ docLock' = [docLock EXCEPT ![req[r].doc] = r]
          /\ req' = [req EXCEPT ![r].lines = ClaimedLines(r),
                                ![r].pc = IF ClaimedLines(r) = <<>> THEN "commit"
                                                                    ELSE "take"]
          /\ UNCHANGED <<qty, lock, doc, posted, applied>>

\* The quantity a line changes: a count clamps the row at zero.
Delta(r, line) ==
    IF Mine(r).kind = "count" /\ Sees(r, line.row) + line.qty < 0
    THEN -Sees(r, line.row)
    ELSE line.qty

Source(r)   == Mine(r).kind = "transfer" /\ Current(r).qty < 0
Incoming(r) == Mine(r).kind = "transfer" /\ Current(r).qty > 0

\* The source line of the transfer item whose destination r is at.
SourceLine(r) == req[r].lines[req[r].i - 1]

Short(r) == Incoming(r) /\ Sees(r, SourceLine(r).row) < -SourceLine(r).qty

NextLine(r, moved) ==
    req' = [req EXCEPT ![r].moved = moved,
                       ![r].i = IF req[r].i = Len(req[r].lines) THEN 1 ELSE @ + 1,
                       ![r].pc = IF req[r].i = Len(req[r].lines) THEN "commit"
                                                                 ELSE "take"]

\* Mutant: the source is deducted as soon as it is locked.
MovedAtOnce(r) ==
    LET l == Current(r) IN
    [req[r].moved EXCEPT ![l.row] = @ + Delta(r, l)]

\* What r has moved once the line it is at is done: nothing at the source of a
\* transfer, both rows at its destination, one row otherwise.  Both rows of a
\* transfer are read before either is written, so that the destination keeps
\* its own write when it is the source as well.
MovedNow(r) ==
    LET m == req[r].moved
        l == Current(r)
    IN  CASE Source(r)   -> m
          [] Incoming(r) -> [m EXCEPT ![SourceLine(r).row] = @ + SourceLine(r).qty,
                                      ![l.row] = m[l.row] + l.qty]
          [] OTHER       -> [m EXCEPT ![l.row] = @ + Delta(r, l)]

\* A shortage is answered by returning from the callback, which commits the
\* transaction with the lines moved so far.
TakeRow(r) ==
    /\ At(r, "take")
    /\ lockInventoryRow(r, Current(r).row)
    /\ IF Short(r) THEN Finish(r, "commit") ELSE NextLine(r, MovedNow(r))
    /\ UNCHANGED <<qty, doc, docLock, posted, applied>>

Commit(r) ==
    LET d == req[r].doc IN
    /\ At(r, "commit")
    /\ doc' = [doc EXCEPT ![d].status = req[r].status]
    /\ qty' = [x \in Row |-> qty[x] + req[r].moved[x]]
    /\ posted' = [posted EXCEPT ![d] = [x \in Row |-> @[x] + req[r].moved[x]]]
    /\ applied' = [applied EXCEPT ![d] = IF req[r].moved = Zero THEN @ ELSE @ + 1]
    /\ FreeLocks(r)
    /\ Finish(r, "done")

-----------------------------------------------------------------------------
(***************************************************************************)
(* PATCH .../reject (transfers, counts): the status is checked by a plain  *)
(* read and written by an UPDATE on the id alone, which waits for the row. *)
(***************************************************************************)
RejectArrive(r) ==
    \E d \in Doc :
        /\ doc[d].kind \in {"transfer", "count"}
        /\ doc[d].status = "PENDING"
        /\ Arrive(r, "reject", "write", d, "REJECTED", <<>>)
        /\ UNCHANGED <<qty, lock, doc, docLock, posted, applied>>

RejectWrite(r) ==
    /\ At(r, "write")
    /\ docLock[req[r].doc] = Nobody
    /\ doc' = [doc EXCEPT ![req[r].doc].status = "REJECTED"]
    /\ Finish(r, "done")
    /\ UNCHANGED <<qty, lock, docLock, posted, applied>>

(***************************************************************************)
(* PUT /purchase-orders/:id writes the fields of the body, whatever they   *)
(* are; DELETE checks DRAFT with a plain read, then erases the items and   *)
(* the order with two statements.                                          *)
(***************************************************************************)
EditOrder(r) ==
    \E d \in Doc, status \in OrderStatuses :
        /\ doc[d].kind = "order" /\ doc[d].status \notin {"none", "deleted"}
        /\ docLock[d] = Nobody
        /\ Arrive(r, "edit", "done", d, status, <<>>)
        /\ doc' = [doc EXCEPT ![d].status = status]
        /\ UNCHANGED <<qty, lock, docLock, posted, applied>>

DeleteArrive(r) ==
    \E d \in Doc :
        /\ doc[d].kind = "order" /\ doc[d].status = "DRAFT"
        /\ Arrive(r, "delete", "erase", d, "none", <<>>)
        /\ doc' = [doc EXCEPT ![d].lines = <<>>]
        /\ UNCHANGED <<qty, lock, docLock, posted, applied>>

DeleteOrder(r) ==
    /\ At(r, "erase")
    /\ docLock[req[r].doc] = Nobody
    /\ doc' = [doc EXCEPT ![req[r].doc].status = "deleted"]
    /\ Finish(r, "done")
    /\ UNCHANGED <<qty, lock, docLock, posted, applied>>

\* A sale of one unit: the row is locked, checked and deducted.
Sell(r) ==
    \E x \in Row :
        /\ lock[x] = Nobody
        /\ qty[x] >= 1
        /\ Arrive(r, "sell", "done", Nobody, "none", <<>>)
        /\ qty' = [qty EXCEPT ![x] = @ - 1]
        /\ UNCHANGED <<lock, doc, docLock, posted, applied>>

-----------------------------------------------------------------------------
InFlight(r) == req[r].pc \notin {"idle", "done", "failed"}

\* The owner of the row or document r is waiting for.
BlockedBy(r) ==
    CASE At(r, "take") -> IF Lockable(r, Current(r).row) THEN Nobody
                                                         ELSE lock[Current(r).row]
      [] req[r].pc \in {"claim", "write", "erase"} -> docLock[req[r].doc]
      [] OTHER -> Nobody

\* deadlock_timeout: PostgreSQL aborts one of the transactions of a ring.
DeadlockVictim(r) ==
    /\ \E S \in SUBSET Request :
          /\ r \in S
          /\ \A a \in S : BlockedBy(a) \in S
          /\ \A a, b \in S : a # b => BlockedBy(a) # BlockedBy(b)
    /\ Fail(r)

\* The process dies or a statement throws; a handler that runs outside a
\* transaction has kept what its earlier statements did.
Crash(r) == InFlight(r) /\ Fail(r)

Step(r) ==
    \/ CreateItems(r) \/ Claim(r) \/ TakeRow(r) \/ Commit(r)
    \/ RejectWrite(r) \/ DeleteOrder(r) \/ DeadlockVictim(r)

Arrival(r) ==
    \/ Create(r) \/ ApproveArrive(r) \/ StatusArrive(r) \/ RejectArrive(r)
    \/ EditOrder(r) \/ DeleteArrive(r) \/ Sell(r)

Next == \E r \in Request : Arrival(r) \/ Step(r) \/ Crash(r)

Spec == Init /\ [][Next]_vars

-----------------------------------------------------------------------------
(***************************************************************************)
(* Properties.                                                             *)
(***************************************************************************)

(***************************************************************************)
(* Approving or receiving a document any number of times, by any number of *)
(* people at once, moves its stock at most once; an order that a status    *)
(* change or an edit has set to anything but RECEIVED is the exception.    *)
(***************************************************************************)
SetBack(d) ==
    \E r \in Request : /\ req[r].kind \in {"status", "edit"}
                       /\ req[r].doc = d
                       /\ req[r].pc = "done"
                       /\ req[r].status # "RECEIVED"

MovedOnce == \A d \in Doc : applied[d] <= 1 \/ SetBack(d)

(***************************************************************************)
(* A transfer moves stock and never creates or destroys it, however many   *)
(* of its lines it got to before it ran short, failed or was aborted; only *)
(* a transfer from a branch to itself, which POST /transfers does not      *)
(* refuse, does.                                                           *)
(***************************************************************************)
ToItself(lines) ==
    \E k \in 1 .. Len(lines) - 1 : lines[k].qty < 0 /\ lines[k].row = lines[k + 1].row

TransferBalanced ==
    \A d \in Doc :
        doc[d].kind = "transfer" /\ ~ToItself(doc[d].lines) =>
            FoldFunction(+, 0, posted[d]) = 0

(***************************************************************************)
(* An approval that committed, so that its transfer is COMPLETED, has      *)
(* moved every line that it claimed the transfer for: the claim and the    *)
(* move are one.                                                           *)
(***************************************************************************)
Approved(r) == req[r].kind = "approve" /\ At(r, "done") /\ Mine(r).kind = "transfer"

CompletedMovedAll ==
    \A r \in Request :
        Approved(r) =>
            \A k \in DOMAIN req[r].lines : posted[req[r].doc][req[r].lines[k].row] # 0
=============================================================================
