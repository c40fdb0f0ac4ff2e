---------------------------- MODULE StockLedger ----------------------------
(***************************************************************************)
(* The inventory rows of the point of sale and every request that moves    *)
(* them inside a PostgreSQL transaction: cash and credit sales, voids and  *)
(* refunds (sales and payments modules), adjustments and immediate branch  *)
(* transfers.  A request is one HTTP handler; its database transaction     *)
(* runs at READ COMMITTED, so a step is one statement whose position       *)
(* relative to the statements of other requests can be observed.           *)
(*                                                                         *)
(*   - a row taken FOR UPDATE, or updated, belongs to the transaction      *)
(*     until it ends: lock, txnLock;                                       *)
(*   - an update is visible to its own transaction only until it commits:  *)
(*     work is what the owner of the row sees, qty what all others see;    *)
(*   - a conditional UPDATE on the status of a sale waits for the row and  *)
(*     is evaluated again on the committed status.                         *)
(*                                                                         *)
(* A Row is an inventory row: one product at one branch.  Products that    *)
(* have no inventory row are skipped by every handler and leave no trace   *)
(* here.  A transaction record (sale or refund) is named by the request    *)
(* that created it.                                                        *)
(***************************************************************************)
EXTENDS Integers, Sequences, FiniteSets

CONSTANTS
    Row,          \* inventory rows: a product at a branch
    Request,      \* requests, and the transaction records they create
    NoRequest,    \* owner of a free row
    Kinds,        \* the routes offered to clients
    Carts,        \* the item lists a client may send
    Adjustments,  \* the signed quantities an adjustment may carry
    InitQty,      \* opening quantity of each row
    MaxPicks      \* longest item list of a partial refund

Line == [row : Row, qty : Int]

LockedKinds   == {"sale", "credit", "transfer", "adjust"}
RestoreKinds  == {"void", "refund"}
PaymentKinds  == {"payVoid", "payRefund"}
AllKinds      == LockedKinds \cup RestoreKinds \cup PaymentKinds

ASSUME RequestAssumption == NoRequest \notin Request
ASSUME KindsAssumption   == Kinds \subseteq AllKinds
ASSUME CartsAssumption   ==
    \A c \in Carts : c \in Seq([row : Row, qty : Nat \ {0}]) /\ c # <<>>
ASSUME AdjustAssumption  == Adjustments \subseteq Int
ASSUME StockAssumption   == InitQty \in [Row -> Nat]
ASSUME PicksAssumption   == MaxPicks \in Nat

VARIABLES
    qty,      \* committed inventory.quantity
    work,     \* inventory.quantity as the owner of the row lock sees it
    lock,     \* owner of the row lock on an inventory row
    ledger,   \* sum of newQty - previousQty over committed stock movements
    txn,      \* the transactions table: committed status and items
    txnLock,  \* owner of the row lock on a transaction record
    req       \* the requests in flight and what each has done

vars == <<qty, work, lock, ledger, txn, txnLock, req>>

NoTxn == [status |-> "none", lines |-> <<>>]

\* A request before it arrives; moved and booked are the stock movements it
\* has inserted: newQty - previousQty, and the signed quantity column.
Fresh == [kind |-> "none", pc |-> "idle", lines |-> <<>>, i |-> 1,
          target |-> NoRequest, seen |-> [x \in Row |-> 0],
          moved |-> [x \in Row |-> 0], booked |-> [x \in Row |-> 0]]

PCs == {"idle", "lock", "claim", "read", "write", "commit", "done", "failed"}

TxnRecord == [status : {"none", "COMPLETED", "VOIDED", "REFUNDED"},
              lines : Seq(Line)]

RequestState == [kind : AllKinds \cup {"none"}, pc : PCs,
                 lines : Seq(Line), i : Nat \ {0},
                 target : Request \cup {NoRequest},
                 seen : [Row -> Int], moved : [Row -> Int],
                 booked : [Row -> Int]]

TypeOK ==
    /\ qty  \in [Row -> Int]
    /\ work \in [Row -> Int]
    /\ lock \in [Row -> Request \cup {NoRequest}]
    /\ ledger \in [Row -> Int]
    /\ txn \in [Request -> TxnRecord]
    /\ txnLock \in [Request -> Request \cup {NoRequest}]
    /\ req \in [Request -> RequestState]

Init ==
    /\ qty = InitQty
    /\ work = InitQty
    /\ lock = [x \in Row |-> NoRequest]
    /\ ledger = [x \in Row |-> 0]
    /\ txn = [r \in Request |-> NoTxn]
    /\ txnLock = [r \in Request |-> NoRequest]
    /\ req = [r \in Request |-> Fresh]

-----------------------------------------------------------------------------
(***************************************************************************)
(* What one statement sees and does.                                       *)
(***************************************************************************)
NonNeg(n) == IF n < 0 THEN 0 ELSE n

At(r, pc)   == req[r].pc = pc
Current(r)  == req[r].lines[req[r].i]
LastLine(r) == req[r].i = Len(req[r].lines)

\* findFirst without FOR UPDATE: own uncommitted value, else the committed one.
Sees(r, x) == IF lock[x] = r THEN work[x] ELSE qty[x]

Lockable(r, x) == lock[x] \in {NoRequest, r}

\* UPDATE inventory ... WHERE id: waits for the row and keeps it locked.
UpdateRow(r, x, value) == /\ Lockable(r, x)
                          /\ lock' = [lock EXCEPT ![x] = r]
                          /\ work' = [work EXCEPT ![x] = value]

\* Mutant: the row lock is asked for in a form the query API ignores.
LockIgnored(r, x) == UNCHANGED lock

\* SELECT ... FOR UPDATE: the same lock, before anything is written.
lockInventoryRow(r, x) == /\ Lockable(r, x)
                          /\ lock' = [lock EXCEPT ![x] = r]

\* Move to the next line at pc `again`, or to pc `after` past the last one.
Advance(r, again, after) ==
    [req[r] EXCEPT !.i  = IF LastLine(r) THEN 1 ELSE @ + 1,
                   !.pc = IF LastLine(r) THEN after ELSE again]

\* The request with a stock movement on x inserted.
WithMovement(rec, x, delta, signed) ==
    [rec EXCEPT !.moved[x]  = @ + delta,
                !.booked[x] = @ + signed]

FreeLocks(r) ==
    /\ lock'    = [x \in Row |-> IF lock[x] = r THEN NoRequest ELSE lock[x]]
    /\ txnLock' = [t \in Request |-> IF txnLock[t] = r THEN NoRequest
                                                        ELSE txnLock[t]]

\* ROLLBACK: the rows r has locked are again what the others see.
RollbackRows(r) ==
    /\ work' = [x \in Row |-> IF lock[x] = r THEN qty[x] ELSE work[x]]
    /\ FreeLocks(r)
    /\ UNCHANGED <<qty, ledger, txn>>

Fail(r) ==
    /\ req' = [req EXCEPT ![r].pc = "failed"]
    /\ RollbackRows(r)

\* COMMIT of the inventory part of a transaction.
CommitRows(r) ==
    /\ qty' = [x \in Row |-> IF lock[x] = r THEN work[x] ELSE qty[x]]
    /\ ledger' = [x \in Row |-> ledger[x] + req[r].moved[x]]
    /\ FreeLocks(r)
    /\ UNCHANGED work

Arrive(r, kind, pc, lines, target) ==
    /\ At(r, "idle")
    /\ kind \in Kinds
    /\ req' = [req EXCEPT ![r] = [Fresh EXCEPT !.kind = kind, !.pc = pc,
                                               !.lines = lines,
                                               !.target = target]]
    /\ UNCHANGED <<qty, work, lock, ledger, txn, txnLock>>

-----------------------------------------------------------------------------
(***************************************************************************)
(* POST /sales and POST /sales/credit: every line is locked and checked on *)
(* its own, then every line is read again and deducted.                    *)
(***************************************************************************)
SaleArrive(r) ==
    \E kind \in {"sale", "credit"}, c \in Carts :
        Arrive(r, kind, "lock", c, NoRequest)

SaleLock(r) ==
    /\ At(r, "lock") /\ req[r].kind \in {"sale", "credit"}
    /\ LET l == Current(r) IN
       \/ /\ Lockable(r, l.row)
          /\ Sees(r, l.row) < l.qty          \* INSUFFICIENT_STOCK
          /\ Fail(r)
       \/ /\ lockInventoryRow(r, l.row)
          /\ Sees(r, l.row) >= l.qty
          /\ req' = [req EXCEPT ![r] = Advance(r, "lock", "read")]
          /\ UNCHANGED <<qty, work, ledger, txn, txnLock>>

SaleCommit(r) ==
    /\ At(r, "commit") /\ req[r].kind \in {"sale", "credit"}
    /\ txn' = [txn EXCEPT ![r] = [status |-> "COMPLETED",
                                  lines  |-> req[r].lines]]
    /\ CommitRows(r)
    /\ req' = [req EXCEPT ![r].pc = "done"]

-----------------------------------------------------------------------------
(***************************************************************************)
(* POST /inventory/transfer: both rows FOR UPDATE, source first; the new   *)
(* quantities are computed from the values the locking reads returned.     *)
(***************************************************************************)
TransferLines(from, to, n) ==
    <<[row |-> from, qty |-> n], [row |-> to, qty |-> -n]>>

TransferArrive(r) ==
    \E from \in Row, to \in Row, c \in Carts :
        /\ from # to
        /\ Arrive(r, "transfer", "lock", TransferLines(from, to, c[1].qty),
                  NoRequest)

TransferLock(r) ==
    /\ At(r, "lock") /\ req[r].kind = "transfer"
    /\ LET l      == Current(r)
           source == req[r].i = 1
       IN
       \/ /\ Lockable(r, l.row)
          /\ source /\ Sees(r, l.row) < l.qty     \* INSUFFICIENT_STOCK
          /\ Fail(r)
       \/ /\ lockInventoryRow(r, l.row)
          /\ source => Sees(r, l.row) >= l.qty
          /\ req' = [req EXCEPT ![r] = [Advance(r, "lock", "write")
                                           EXCEPT !.seen[l.row] = Sees(r, l.row)]]
          /\ UNCHANGED <<qty, work, ledger, txn, txnLock>>

TransferCommit(r) ==
    /\ At(r, "commit") /\ req[r].kind = "transfer"
    /\ CommitRows(r)
    /\ req' = [req EXCEPT ![r].pc = "done"]
    /\ UNCHANGED txn

(***************************************************************************)
(* PUT /inventory/adjust: one row, locked, rewritten and committed; nothing*)
(* of it can be observed between the lock and the commit.                  *)
(***************************************************************************)
Adjust(r) ==
    \E x \in Row, n \in Adjustments :
        LET new == NonNeg(qty[x] + n) IN
        /\ At(r, "idle")
        /\ "adjust" \in Kinds
        /\ n # 0
        /\ lock[x] = NoRequest
        /\ qty'    = [qty EXCEPT ![x] = new]
        /\ work'   = [work EXCEPT ![x] = new]
        /\ ledger' = [ledger EXCEPT ![x] = @ + (new - qty[x])]
        /\ req'    = [req EXCEPT ![r] =
                         WithMovement([Fresh EXCEPT !.kind = "adjust",
                                                    !.pc = "done"],
                                      x, new - qty[x], n)]
        /\ UNCHANGED <<lock, txn, txnLock>>

-----------------------------------------------------------------------------
(***************************************************************************)
(* POST /sales/:id/void and POST /sales/:id/refund.  The transaction is    *)
(* read before the database transaction starts; the status is claimed by a *)
(* conditional UPDATE; no inventory row is locked before it is rewritten.  *)
(***************************************************************************)
Sold(t) == txn[t].lines

\* Mutant: the quantity of a partial refund is not capped.
PicksUncapped(t) ==
    {Sold(t)} \cup {<<[row |-> Sold(t)[k].row, qty |-> Sold(t)[k].qty + 1]>> :
                       k \in DOMAIN Sold(t)}

\* The item lists a refund may carry: all items, or products of the sale with
\* a quantity of at most what the line sold.  Nothing forbids naming a
\* product twice.
Picks(t) ==
    LET firsts == {k \in DOMAIN Sold(t) :
                       \A j \in 1..(k-1) : Sold(t)[j].row # Sold(t)[k].row}
        some   == UNION {[row : {Sold(t)[k].row}, qty : 1..Sold(t)[k].qty] :
                           k \in firsts}
    IN  {Sold(t)} \cup UNION {[1..n -> some] : n \in 1..MaxPicks}

VoidArrive(r) ==
    \E t \in Request :
        /\ txn[t].status \notin {"none", "VOIDED"}
        /\ Arrive(r, "void", "claim", Sold(t), t)

RefundArrive(r) ==
    \E t \in Request :
        /\ txn[t].status = "COMPLETED"
        /\ \E picks \in Picks(t) : Arrive(r, "refund", "claim", picks, t)

\* A refund of a record without items inserts an empty item list: it throws.
NoItems(r) == req[r].kind = "refund" /\ req[r].lines = <<>>

\* Mutant: the status read before the transaction is trusted.
ClaimUnguarded(r) ==
    /\ At(r, "claim") /\ req[r].kind \in RestoreKinds
    /\ txnLock[req[r].target] = NoRequest
    /\ txnLock' = [txnLock EXCEPT ![req[r].target] = r]
    /\ req' = [req EXCEPT ![r].pc = IF req[r].lines = <<>> THEN "commit"
                                                           ELSE "read"]
    /\ UNCHANGED <<qty, work, lock, ledger, txn>>

\* Mutant: losing the claim is not an error.
ClaimNoConflict(r) ==
    /\ At(r, "claim")
    /\ txn[req[r].target].status = "COMPLETED"
    /\ ClaimUnguarded(r)

\* UPDATE transactions SET status WHERE id AND status = 'COMPLETED'
Claim(r) ==
    LET t == req[r].target IN
    /\ At(r, "claim") /\ req[r].kind \in RestoreKinds
    /\ txnLock[t] = NoRequest
    /\ \/ /\ \/ txn[t].status # "COMPLETED"     \* CONFLICT
             \/ NoItems(r)
          /\ Fail(r)
       \/ /\ txn[t].status = "COMPLETED"
          /\ ~NoItems(r)
          /\ txnLock' = [txnLock EXCEPT ![t] = r]
          /\ req' = [req EXCEPT ![r].pc = IF req[r].lines = <<>> THEN "commit"
                                                                 ELSE "read"]
          /\ UNCHANGED <<qty, work, lock, ledger, txn>>

Negated(lines) == [k \in DOMAIN lines |-> [lines[k] EXCEPT !.qty = -@]]

\* A refund also inserts its own record, with the quantities negated; that
\* record is COMPLETED and can itself be voided or refunded.
ReverseCommit(r) ==
    LET t == req[r].target IN
    /\ At(r, "commit") /\ req[r].kind \in RestoreKinds
    /\ txn' = IF req[r].kind = "void"
              THEN [txn EXCEPT ![t].status = "VOIDED"]
              ELSE [txn EXCEPT ![t].status = "REFUNDED",
                               ![r] = [status |-> "COMPLETED",
                                       lines  |-> Negated(req[r].lines)]]
    /\ CommitRows(r)
    /\ req' = [req EXCEPT ![r].pc = "done"]

(***************************************************************************)
(* POST /payments/void/:id and POST /payments/refunds: the same status     *)
(* claim, no inventory statement; a refund record carries no items.  The   *)
(* refunded amount must be positive and at most the total, which a refund  *)
(* record (negative total) never allows.                                   *)
(***************************************************************************)
PositiveTotal(t) == Sold(t) # <<>> /\ Sold(t)[1].qty > 0

PaymentReverse(r) ==
    \E t \in Request, kind \in PaymentKinds \cap Kinds :
        /\ At(r, "idle")
        /\ txn[t].status = "COMPLETED"
        /\ kind = "payRefund" => PositiveTotal(t)
        /\ txnLock[t] = NoRequest
        /\ txn' = IF kind = "payVoid"
                  THEN [txn EXCEPT ![t].status = "VOIDED"]
                  ELSE [txn EXCEPT ![t].status = "REFUNDED",
                                   ![r] = [status |-> "COMPLETED",
                                           lines  |-> <<>>]]
        /\ req' = [req EXCEPT ![r] = [Fresh EXCEPT !.kind = kind,
                                                   !.pc = "done",
                                                   !.target = t]]
        /\ UNCHANGED <<qty, work, lock, ledger, txnLock>>

-----------------------------------------------------------------------------
(***************************************************************************)
(* The loop over the items that moves stock, the same in every handler:    *)
(* findFirst without a lock, then UPDATE with a value computed from it and *)
(* INSERT of the movement.  A cash sale clamps at zero, a credit sale does *)
(* not; a transfer starts at the UPDATE, its reads were the locking ones.  *)
(***************************************************************************)
SaleNewQty(q, n)    == NonNeg(q - n)
CreditNewQty(q, n)  == q - n
RestoreNewQty(q, n) == q + n

NewQty(kind, q, n) == CASE kind = "sale"          -> SaleNewQty(q, n)
                        [] kind \in RestoreKinds  -> RestoreNewQty(q, n)
                        [] OTHER                  -> CreditNewQty(q, n)

\* The quantity column of the movement, IN positive and OUT negative.
Signed(kind, n) == IF kind \in RestoreKinds THEN n ELSE -n

ReadRow(r) ==
    /\ At(r, "read")
    /\ req' = [req EXCEPT ![r].seen[Current(r).row] = Sees(r, Current(r).row),
                          ![r].pc = "write"]
    /\ UNCHANGED <<qty, work, lock, ledger, txn, txnLock>>

WriteRow(r) ==
    /\ At(r, "write")
    /\ LET l    == Current(r)
           kind == req[r].kind
           seen == req[r].seen[l.row]
           new  == NewQty(kind, seen, l.qty)
           next == IF kind = "transfer" THEN "write" ELSE "read"
       IN  /\ UpdateRow(r, l.row, new)
           /\ req' = [req EXCEPT ![r] =
                 WithMovement(Advance(r, next, "commit"), l.row,
                              new - seen, Signed(kind, l.qty))]
    /\ UNCHANGED <<qty, ledger, txn, txnLock>>

-----------------------------------------------------------------------------
(***************************************************************************)
(* What PostgreSQL and the platform do to a transaction in flight.         *)
(***************************************************************************)
InTransaction(r) == req[r].pc \notin {"idle", "done", "failed"}

\* The owner of the row r is waiting for, NoRequest when it can go on.
BlockedBy(r) ==
    CASE req[r].pc \in {"lock", "write"} ->
             IF Lockable(r, Current(r).row) THEN NoRequest
                                            ELSE lock[Current(r).row]
      [] req[r].pc = "claim" -> txnLock[req[r].target]
      [] OTHER               -> NoRequest

\* A set of transactions that wait for each other in a ring.
Ring(S) ==
    /\ \A a \in S : BlockedBy(a) \in S
    /\ \A a, b \in S : a # b => BlockedBy(a) # BlockedBy(b)

\* deadlock_timeout: one transaction of the ring is aborted.
DeadlockVictim(r) ==
    /\ \E S \in SUBSET Request : r \in S /\ Ring(S)
    /\ Fail(r)

\* The process dies, the connection drops or a statement throws.
Crash(r) == InTransaction(r) /\ Fail(r)

Step(r) ==
    \/ SaleLock(r) \/ TransferLock(r) \/ Claim(r)
    \/ ReadRow(r) \/ WriteRow(r)
    \/ SaleCommit(r) \/ TransferCommit(r) \/ ReverseCommit(r)
    \/ DeadlockVictim(r)

Arrival(r) ==
    \/ SaleArrive(r) \/ TransferArrive(r) \/ VoidArrive(r) \/ RefundArrive(r)
    \/ Adjust(r) \/ PaymentReverse(r)

Next == \E r \in Request : Arrival(r) \/ Step(r) \/ Crash(r)

Spec == Init /\ [][Next]_vars

(***************************************************************************)
(* A handler that has begun keeps executing its statements and PostgreSQL  *)
(* breaks every ring; clients are under no obligation to send anything and *)
(* a crash need not happen.                                                *)
(***************************************************************************)
Fairness == \A r \in Request : WF_vars(Step(r))

FairSpec == Spec /\ Fairness
-----------------------------------------------------------------------------
(***************************************************************************)
(* Properties.                                                             *)
(***************************************************************************)
Ended(r)     == req[r].pc \in {"idle", "done", "failed"}
Committed(r) == req[r].pc = "done"

(***************************************************************************)
(* Stock is neither created nor destroyed by interleaving: the quantity of *)
(* every row is its opening quantity plus what the committed movements say *)
(* they changed.  A write computed from a stale read breaks it.            *)
(***************************************************************************)
NoLostUpdate == \A x \in Row : qty[x] = InitQty[x] + ledger[x]

(***************************************************************************)
(* No interleaving of sales, credit sales, transfers and adjustments sells *)
(* stock that is not there: the check under the row lock still holds when  *)
(* the deduction of the same transaction commits.                          *)
(***************************************************************************)
StockNeverNegative == \A x \in Row : qty[x] >= 0

(***************************************************************************)
(* A committed sale took off the shelf exactly what its movements say it   *)
(* sold; the clamp at zero never hides units that were not there.          *)
(***************************************************************************)
SaleTakesWhatItSold ==
    \A r \in Request :
        Committed(r) /\ req[r].kind \in {"sale", "credit"}
            => req[r].moved = req[r].booked

(***************************************************************************)
(* The four routes that reverse a sale (void and refund, in the sales and  *)
(* in the payments module) exclude each other: a transaction is reversed   *)
(* at most once, and its status tells whether it was.                      *)
(***************************************************************************)
Reverses(r, t) == Committed(r) /\ req[r].target = t

OneReversal ==
    \A t \in Request :
        /\ \A a, b \in Request : Reverses(a, t) /\ Reverses(b, t) => a = b
        /\ txn[t].status = "COMPLETED" => \A a \in Request : ~Reverses(a, t)
        /\ txn[t].status \in {"VOIDED", "REFUNDED"}
               => \E a \in Request : Reverses(a, t)

(***************************************************************************)
(* A void or a refund of a sale puts back at most what the sale took, when *)
(* the refund lists all items or each product once: the quantity is capped *)
(* per entry of the list, not per product.                                 *)
(***************************************************************************)
NamesOnce(lines) == \A i, j \in DOMAIN lines : lines[i].row = lines[j].row => i = j

RestoredWithinSold ==
    \A r, t \in Request :
        (/\ Reverses(r, t)
         /\ req[r].kind \in RestoreKinds
         /\ req[t].kind \in {"sale", "credit"}
         /\ req[r].lines = Sold(t) \/ NamesOnce(req[r].lines))
            => \A x \in Row : req[r].booked[x] <= -req[t].booked[x]

(***************************************************************************)
(* A request that has ended, by commit, error, crash or as the victim of a *)
(* deadlock, owns no row, and a row nobody owns has no uncommitted value.  *)
(***************************************************************************)
LocksReleased ==
    /\ \A x \in Row : /\ lock[x] \in Request => ~Ended(lock[x])
                      /\ lock[x] = NoRequest => work[x] = qty[x]
    /\ \A t \in Request : txnLock[t] \in Request => ~Ended(txnLock[t])

(***************************************************************************)
(* Every request that opened a transaction is answered, although sales     *)
(* lock their rows in cart order and transfers source first.               *)
(***************************************************************************)
Answered == \A r \in Request : InTransaction(r) ~> Ended(r)

-----------------------------------------------------------------------------
(***************************************************************************)
(* The inductive strengthenings the proofs use.                            *)
(***************************************************************************)
Looping(r) == req[r].pc \in {"lock", "read", "write"}

\* A request that looks at a line has one to look at.
Indexed ==
    \A r \in Request :
        /\ Looping(r) => req[r].i <= Len(req[r].lines)
        /\ req[r].pc = "claim" => req[r].i = 1

\* A row that r has changed is owned by it, and its movements say by how much.
Pending(r) ==
    /\ InTransaction(r) => \A x \in Row : lock[x] # r => req[r].moved[x] = 0
    /\ \A x \in Row : lock[x] = r => work[x] = qty[x] + req[r].moved[x]

\* The lines whose row r has locked, and those of them still to be written.
LockedLines(r) ==
    CASE At(r, "lock") -> 1 .. (req[r].i - 1)
      [] OTHER         -> DOMAIN req[r].lines

Unwritten(r) ==
    CASE At(r, "lock") -> 1 .. (req[r].i - 1)
      [] OTHER         -> req[r].i .. Len(req[r].lines)

\* The quantity the next write is computed from is the quantity of the row.
SeenIsCurrent(r) ==
    Looping(r) =>
        /\ \A k \in LockedLines(r) : lock[req[r].lines[k].row] = r
        /\ At(r, "write") =>
              req[r].seen[Current(r).row] = work[Current(r).row]
        /\ req[r].kind = "transfer" =>
              /\ ~At(r, "read") /\ NamesOnce(req[r].lines)
              /\ \A k \in Unwritten(r) :
                    req[r].seen[req[r].lines[k].row] = work[req[r].lines[k].row]

\* With only the row-locked routes offered, this is inductive.
LedgerInv ==
    /\ TypeOK /\ Indexed /\ LocksReleased
    /\ \A r \in Request :
          /\ req[r].kind \notin RestoreKinds
          /\ Pending(r) /\ SeenIsCurrent(r)
    /\ NoLostUpdate

\* What was checked under the lock still covers what is to be deducted (the
\* destination of a transfer gives nothing), and what a sale has deducted is
\* what it sold.
Covered(r) ==
    /\ Looping(r) =>
          /\ NamesOnce(req[r].lines)
          /\ \A k \in Unwritten(r) :
                work[req[r].lines[k].row] >= req[r].lines[k].qty
          /\ req[r].kind = "transfer" =>
                \A k \in DOMAIN req[r].lines : k # 1 => req[r].lines[k].qty <= 0
    /\ req[r].kind \in {"sale", "credit"} => req[r].moved = req[r].booked

\* Inductive when, besides, no cart names a product twice.
StockInv ==
    /\ LedgerInv
    /\ StockNeverNegative /\ \A x \in Row : work[x] >= 0
    /\ \A r \in Request : Covered(r)

\* A request that has claimed a transaction owns its record until it ends.
Reversing(r) == /\ req[r].kind \in RestoreKinds
                /\ req[r].pc \in {"read", "write", "commit"}

ClaimInv ==
    /\ \A t \in Request : txnLock[t] \in Request =>
          Reversing(txnLock[t]) /\ req[txnLock[t]].target = t
    /\ \A r \in Request : Reversing(r) =>
          txnLock[req[r].target] = r /\ txn[req[r].target].status = "COMPLETED"
    /\ \A r \in Request :
          /\ txn[r].status = "none" => \A a \in Request : req[a].target # r
          /\ txn[r].status # "none" => Committed(r)
          /\ req[r].kind \in RestoreKinds => req[r].target \in Request
          /\ req[r].kind \in LockedKinds \cup {"none"} =>
                 req[r].target = NoRequest
          /\ req[r].kind = "none" <=> req[r].pc = "idle"

ReversalInv == TypeOK /\ Indexed /\ ClaimInv /\ OneReversal
=============================================================================
