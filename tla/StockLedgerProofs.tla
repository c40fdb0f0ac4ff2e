------------------------- MODULE StockLedgerProofs -------------------------
(***************************************************************************)
(* Theorems about StockLedger, for every set of rows, requests and carts.  *)
(***************************************************************************)
EXTENDS StockLedger, SequenceTheorems, TLAPS

(***************************************************************************)
(* Steps that only rewrite the record of one request.                      *)
(***************************************************************************)
LEMMA FreshType == Fresh \in RequestState
BY RequestAssumption DEF Fresh, RequestState, AllKinds, PCs, LockedKinds, Line

LEMMA AdvanceType ==
    ASSUME TypeOK, NEW r \in Request, NEW a \in PCs, NEW b \in PCs
    PROVE  Advance(r, a, b) \in RequestState
<1> DEFINE next == IF LastLine(r) THEN 1 ELSE req[r].i + 1
           at   == IF LastLine(r) THEN b ELSE a
<1>1. req[r] \in RequestState
  BY DEF TypeOK
<1>2. req[r].i + 1 \in Nat \ {0}
  BY <1>1 DEF RequestState
<1>3. next \in Nat \ {0} /\ at \in PCs
  BY <1>2
<1>4. Advance(r, a, b) = [req[r] EXCEPT !.i = next, !.pc = at]
  BY <1>1 DEF Advance, RequestState
<1> HIDE DEF next, at
<1>. QED
  BY <1>1, <1>3, <1>4 DEF RequestState

LEMMA MovementType ==
    ASSUME NEW rec \in RequestState, NEW x \in Row, NEW d \in Int, NEW s \in Int
    PROVE  WithMovement(rec, x, d, s) \in RequestState
<1> DEFINE m == [rec.moved EXCEPT ![x] = rec.moved[x] + d]
           b == [rec.booked EXCEPT ![x] = rec.booked[x] + s]
<1>1. m \in [Row -> Int] /\ b \in [Row -> Int]
  BY DEF RequestState
<1>2. WithMovement(rec, x, d, s) = [rec EXCEPT !.moved = m, !.booked = b]
  BY DEF WithMovement
<1> HIDE DEF m, b
<1>. QED
  BY <1>1, <1>2 DEF RequestState

LEMMA SetPcType ==
    ASSUME NEW rec \in RequestState, NEW p \in PCs
    PROVE  [rec EXCEPT !.pc = p] \in RequestState
BY DEF RequestState

LEMMA FreeLocksType ==
    ASSUME TypeOK, NEW r \in Request, FreeLocks(r)
    PROVE  /\ lock' \in [Row -> Request \cup {NoRequest}]
           /\ txnLock' \in [Request -> Request \cup {NoRequest}]
BY DEF TypeOK, FreeLocks

LEMMA FailType ==
    ASSUME TypeOK, NEW r \in Request, Fail(r)
    PROVE  TypeOK'
<1>1. work' \in [Row -> Int]
  BY DEF TypeOK, Fail, RollbackRows
<1>2. req' \in [Request -> RequestState]
  <2>1. [req[r] EXCEPT !.pc = "failed"] \in RequestState
    BY SetPcType DEF TypeOK, PCs
  <2>. QED
    BY <2>1 DEF TypeOK, Fail
<1>. QED
  BY <1>1, <1>2, FreeLocksType DEF TypeOK, Fail, RollbackRows

LEMMA CommitType ==
    ASSUME TypeOK, NEW r \in Request, CommitRows(r)
    PROVE  /\ qty' \in [Row -> Int]
           /\ work' \in [Row -> Int]
           /\ ledger' \in [Row -> Int]
<1>1. req[r].moved \in [Row -> Int]
  BY DEF TypeOK, RequestState
<1>. QED
  BY <1>1 DEF TypeOK, CommitRows

(***************************************************************************)
(* The line a request is at is a line, and what it sees of it a number.    *)
(***************************************************************************)
LEMMA CurrentType ==
    ASSUME TypeOK, Indexed, NEW r \in Request, Looping(r)
    PROVE  /\ Current(r) \in Line
           /\ Current(r).row \in Row
           /\ Current(r).qty \in Int
           /\ Sees(r, Current(r).row) \in Int
           /\ req[r].seen[Current(r).row] \in Int
<1>1. req[r] \in RequestState
  BY DEF TypeOK
<1>2. req[r].i \in 1 .. Len(req[r].lines)
  BY <1>1 DEF Indexed, RequestState
<1>3. Current(r) \in Line
  BY <1>1, <1>2 DEF Current, RequestState
<1>4. Current(r).row \in Row /\ Current(r).qty \in Int
  BY <1>3 DEF Line
<1>. QED
  BY <1>1, <1>3, <1>4 DEF TypeOK, Sees, RequestState

LEMMA CartType ==
    ASSUME NEW c \in Carts
    PROVE  c \in Seq(Line) /\ c # <<>> /\ Len(c) \in Nat \ {0} /\ c[1].qty \in Nat \ {0}
<1> DEFINE CartLine == [row : Row, qty : Nat \ {0}]
<1>1. c \in Seq(CartLine) /\ c # <<>>
  BY CartsAssumption
<1>2. CartLine \subseteq Line /\ \A l \in CartLine : l.qty \in Nat \ {0}
  BY DEF Line
<1> HIDE DEF CartLine
<1>3. Len(c) \in Nat \ {0}
  BY <1>1, EmptySeq
<1>4. \A k \in 1 .. Len(c) : c[k] \in CartLine
  BY <1>1, ElementOfSeq
<1>5. c \in Seq(Line)
  BY <1>1, <1>2, <1>4, SeqDef
<1>. QED
  BY <1>1, <1>2, <1>3, <1>4, <1>5

LEMMA PicksType ==
    ASSUME TypeOK, NEW t \in Request
    PROVE  Picks(t) \subseteq Seq(Line)
<1>1. Sold(t) \in Seq(Line)
  BY DEF TypeOK, TxnRecord, Sold
<1> DEFINE firsts == {k \in DOMAIN Sold(t) :
                       \A j \in 1..(k-1) : Sold(t)[j].row # Sold(t)[k].row}
           some   == UNION {[row : {Sold(t)[k].row}, qty : 1..Sold(t)[k].qty] :
                           k \in firsts}
<1>2. some \subseteq Line
  <2>1. ASSUME NEW k \in firsts
        PROVE  [row : {Sold(t)[k].row}, qty : 1..Sold(t)[k].qty] \subseteq Line
    <3>1. Sold(t)[k] \in Line
      BY <1>1
    <3>. QED
      BY <3>1 DEF Line
  <2>. QED
    BY <2>1
<1> HIDE DEF some
<1>3. ASSUME NEW n \in 1 .. MaxPicks, NEW p \in [1..n -> some]
      PROVE  p \in Seq(Line)
  <2>1. n \in Nat
    BY PicksAssumption
  <2>2. p \in [1..n -> Line]
    BY <1>2
  <2>. QED
    BY <2>1, <2>2
<1>4. Picks(t) = {Sold(t)} \cup UNION {[1..n -> some] : n \in 1..MaxPicks}
  BY DEF Picks, some
<1>. QED
  BY <1>1, <1>3, <1>4

-----------------------------------------------------------------------------
(***************************************************************************)
(* Type correctness, together with the bounds of the line index.           *)
(***************************************************************************)
TypeInv == TypeOK /\ Indexed

WellFormed(rec) ==
    /\ rec \in RequestState
    /\ rec.pc \in {"lock", "read", "write"} => rec.i <= Len(rec.lines)
    /\ rec.pc = "claim" => rec.i = 1

LEMMA AdvanceWellFormed ==
    ASSUME TypeInv, NEW r \in Request, Looping(r),
           NEW a \in PCs \ {"claim"}, NEW b \in PCs \ {"claim"}
    PROVE  WellFormed(Advance(r, a, b))
<1>1. req[r] \in RequestState /\ req[r].i \in 1 .. Len(req[r].lines)
  BY DEF TypeInv, TypeOK, Indexed, RequestState
<1>2. Advance(r, a, b) \in RequestState
  BY AdvanceType DEF TypeInv
<1>3. Advance(r, a, b).lines = req[r].lines
  BY <1>1 DEF Advance, RequestState
<1>4. Advance(r, a, b).i = IF req[r].i = Len(req[r].lines) THEN 1 ELSE req[r].i + 1
  BY <1>1 DEF Advance, RequestState, LastLine
<1>5. Advance(r, a, b).pc = IF LastLine(r) THEN b ELSE a
  BY <1>1 DEF Advance, RequestState
<1>6. Len(req[r].lines) \in Nat /\ req[r].i \in Nat
  BY <1>1 DEF RequestState
<1>7. Advance(r, a, b).i <= Len(req[r].lines)
  BY <1>1, <1>4, <1>6
<1>. QED
  BY <1>2, <1>3, <1>5, <1>7 DEF WellFormed

LEMMA RequestStep ==
    ASSUME TypeInv, NEW r \in Request, NEW rec, WellFormed(rec),
           req' = [req EXCEPT ![r] = rec]
    PROVE  req' \in [Request -> RequestState] /\ Indexed'
<1>1. req' \in [Request -> RequestState]
  BY DEF TypeInv, TypeOK, WellFormed
<1>2. ASSUME NEW q \in Request
      PROVE  (/\ Looping(q) => req[q].i <= Len(req[q].lines)
              /\ req[q].pc = "claim" => req[q].i = 1)'
  <2>1. CASE q = r
    <3>1. req'[q] = rec
      BY <2>1 DEF TypeInv, TypeOK
    <3>. QED
      BY <3>1 DEF WellFormed, Looping
  <2>2. CASE q # r
    <3>1. req'[q] = req[q]
      BY <2>2 DEF TypeInv, TypeOK
    <3>. QED
      BY <3>1 DEF TypeInv, Indexed, Looping
  <2>. QED
    BY <2>1, <2>2
<1>. QED
  BY <1>1, <1>2 DEF Indexed

\* The record of a request whose transaction ends, or that leaves the loop.
LEMMA SetPcWellFormed ==
    ASSUME NEW rec \in RequestState, NEW p \in {"done", "failed", "commit"}
    PROVE  WellFormed([rec EXCEPT !.pc = p])
<1>1. [rec EXCEPT !.pc = p] \in RequestState
  BY SetPcType DEF PCs
<1>2. [rec EXCEPT !.pc = p].pc = p
  BY DEF RequestState
<1>. QED
  BY <1>1, <1>2 DEF WellFormed

LEMMA FailTypeInv ==
    ASSUME TypeInv, NEW r \in Request, Fail(r)
    PROVE  TypeInv'
<1>1. req[r] \in RequestState
  BY DEF TypeInv, TypeOK
<1>2. req' = [req EXCEPT ![r] = [req[r] EXCEPT !.pc = "failed"]]
  BY DEF Fail
<1>3. Indexed'
  BY <1>1, <1>2, SetPcWellFormed, RequestStep
<1>. QED
  BY <1>3, FailType DEF TypeInv

LEMMA ArriveTypeInv ==
    ASSUME TypeInv, NEW r \in Request, NEW kind \in AllKinds,
           NEW pc \in {"lock", "claim"}, NEW lines \in Seq(Line),
           pc = "lock" => Len(lines) >= 1,
           NEW target \in Request \cup {NoRequest},
           Arrive(r, kind, pc, lines, target)
    PROVE  TypeInv'
<1> DEFINE rec == [Fresh EXCEPT !.kind = kind, !.pc = pc,
                                !.lines = lines, !.target = target]
<1>1. rec \in RequestState /\ rec.pc = pc /\ rec.i = 1 /\ rec.lines = lines
  BY FreshType DEF Fresh, RequestState, PCs
<1>2. WellFormed(rec)
  BY <1>1 DEF WellFormed
<1>3. req' = [req EXCEPT ![r] = rec]
  BY DEF Arrive
<1>4. req' \in [Request -> RequestState] /\ Indexed'
  BY <1>2, <1>3, RequestStep
<1>. QED
  BY <1>4 DEF TypeInv, TypeOK, Arrive

LEMMA SaleLockType ==
    ASSUME TypeInv, NEW r \in Request, SaleLock(r)
    PROVE  TypeInv'
<1>1. CASE Fail(r)
  BY <1>1, FailTypeInv
<1>2. CASE ~Fail(r)
  <2>1. /\ lock' = [lock EXCEPT ![Current(r).row] = r]
        /\ req' = [req EXCEPT ![r] = Advance(r, "lock", "read")]
        /\ UNCHANGED <<qty, work, ledger, txn, txnLock>>
    BY <1>2 DEF SaleLock, lockInventoryRow
  <2>2. WellFormed(Advance(r, "lock", "read"))
    BY AdvanceWellFormed DEF SaleLock, At, Looping, PCs
  <2>3. req' \in [Request -> RequestState] /\ Indexed'
    BY <2>1, <2>2, RequestStep
  <2>. QED
    BY <2>1, <2>3 DEF TypeInv, TypeOK
<1>. QED
  BY <1>1, <1>2

LEMMA TransferLockType ==
    ASSUME TypeInv, NEW r \in Request, TransferLock(r)
    PROVE  TypeInv'
<1>1. CASE Fail(r)
  BY <1>1, FailTypeInv
<1>2. CASE ~Fail(r)
  <2> DEFINE adv == Advance(r, "lock", "write")
             rec == [adv EXCEPT !.seen[Current(r).row] = Sees(r, Current(r).row)]
             seen == [adv.seen EXCEPT ![Current(r).row] = Sees(r, Current(r).row)]
  <2>1. /\ lock' = [lock EXCEPT ![Current(r).row] = r]
        /\ req' = [req EXCEPT ![r] = rec]
        /\ UNCHANGED <<qty, work, ledger, txn, txnLock>>
    BY <1>2 DEF TransferLock, lockInventoryRow
  <2>2. WellFormed(adv) /\ Sees(r, Current(r).row) \in Int
    BY AdvanceWellFormed, CurrentType DEF TransferLock, At, Looping, PCs, TypeInv
  <2>3. rec = [adv EXCEPT !.seen = seen]
    OBVIOUS
  <2> HIDE DEF adv, rec
  <2>4. seen \in [Row -> Int]
    BY <2>2 DEF WellFormed, RequestState
  <2>5. WellFormed(rec)
    BY <2>2, <2>3, <2>4 DEF WellFormed, RequestState
  <2>6. req' \in [Request -> RequestState] /\ Indexed'
    BY <2>1, <2>5, RequestStep
  <2>. QED
    BY <2>1, <2>6 DEF TypeInv, TypeOK
<1>. QED
  BY <1>1, <1>2

LEMMA ClaimType ==
    ASSUME TypeInv, NEW r \in Request, Claim(r)
    PROVE  TypeInv'
<1>1. CASE Fail(r)
  BY <1>1, FailTypeInv
<1>2. CASE ~Fail(r)
  <2> DEFINE p == IF req[r].lines = <<>> THEN "commit" ELSE "read"
             rec == [req[r] EXCEPT !.pc = p]
  <2>1. /\ txnLock' = [txnLock EXCEPT ![req[r].target] = r]
        /\ req' = [req EXCEPT ![r] = rec]
        /\ UNCHANGED <<qty, work, lock, ledger, txn>>
    BY <1>2 DEF Claim
  <2>2. req[r] \in RequestState /\ req[r].i = 1
    BY DEF TypeInv, TypeOK, Indexed, Claim, At
  <2>3. rec \in RequestState
    BY <2>2, SetPcType DEF PCs
  <2>. rec.pc = p /\ rec.i = 1 /\ rec.lines = req[r].lines
    BY <2>2 DEF RequestState
  <2>4. p # "commit" => Len(req[r].lines) >= 1
    <3>1. req[r].lines \in Seq(Line)
      BY <2>2 DEF RequestState
    <3>2. p # "commit" => Len(req[r].lines) \in Nat \ {0}
      BY <3>1, EmptySeq
    <3>. QED
      BY <3>2
  <2>5. WellFormed(rec)
    BY <2>3, <2>4 DEF WellFormed
  <2>6. req' \in [Request -> RequestState] /\ Indexed'
    BY <2>1, <2>5, RequestStep
  <2>. QED
    BY <2>1, <2>6 DEF TypeInv, TypeOK
<1>. QED
  BY <1>1, <1>2

LEMMA ReadRowType ==
    ASSUME TypeInv, NEW r \in Request, ReadRow(r)
    PROVE  TypeInv'
<1> DEFINE x    == Current(r).row
           seen == [req[r].seen EXCEPT ![x] = Sees(r, x)]
           rec  == [req[r] EXCEPT !.seen = seen, !.pc = "write"]
<1>1. req[r] \in RequestState /\ Sees(r, x) \in Int /\ req[r].i <= Len(req[r].lines)
  BY CurrentType DEF TypeInv, TypeOK, Indexed, ReadRow, At, Looping
<1>2. req' = [req EXCEPT ![r] = rec]
  BY DEF ReadRow, TypeInv, TypeOK
<1> HIDE DEF x
<1>3. seen \in [Row -> Int]
  BY <1>1 DEF RequestState
<1>4. WellFormed(rec)
  BY <1>1, <1>3 DEF WellFormed, RequestState, PCs
<1>5. req' \in [Request -> RequestState] /\ Indexed'
  BY <1>2, <1>4, RequestStep
<1>. QED
  BY <1>5 DEF TypeInv, TypeOK, ReadRow

LEMMA NewQtyType ==
    ASSUME NEW kind, NEW q \in Int, NEW n \in Int
    PROVE  NewQty(kind, q, n) \in Int /\ Signed(kind, n) \in Int
BY DEF NewQty, Signed, SaleNewQty, CreditNewQty, RestoreNewQty, NonNeg

LEMMA WriteRowType ==
    ASSUME TypeInv, NEW r \in Request, WriteRow(r)
    PROVE  TypeInv'
<1> DEFINE l    == Current(r)
           kind == req[r].kind
           seen == req[r].seen[l.row]
           new  == NewQty(kind, seen, l.qty)
           next == IF kind = "transfer" THEN "write" ELSE "read"
           adv  == Advance(r, next, "commit")
           rec  == WithMovement(adv, l.row, new - seen, Signed(kind, l.qty))
<1>1. /\ lock' = [lock EXCEPT ![l.row] = r]
      /\ work' = [work EXCEPT ![l.row] = new]
      /\ req' = [req EXCEPT ![r] = rec]
      /\ UNCHANGED <<qty, ledger, txn, txnLock>>
  BY DEF WriteRow, UpdateRow
<1>2. l.row \in Row /\ l.qty \in Int /\ seen \in Int
  BY CurrentType DEF WriteRow, At, Looping, TypeInv
<1>3. new \in Int /\ new - seen \in Int /\ Signed(kind, l.qty) \in Int
  BY <1>2, NewQtyType
<1>4. WellFormed(adv)
  BY AdvanceWellFormed DEF WriteRow, At, Looping, PCs
<1> HIDE DEF adv, new, seen, l, kind
<1>5. rec \in RequestState
  BY <1>2, <1>3, <1>4, MovementType DEF WellFormed
<1>6. rec.i = adv.i /\ rec.pc = adv.pc /\ rec.lines = adv.lines
  BY <1>4 DEF WellFormed, WithMovement, RequestState
<1>7. WellFormed(rec)
  BY <1>4, <1>5, <1>6 DEF WellFormed
<1>8. req' \in [Request -> RequestState] /\ Indexed'
  BY <1>1, <1>7, RequestStep
<1>. QED
  BY <1>1, <1>2, <1>3, <1>8 DEF TypeInv, TypeOK

LEMMA EndType ==
    ASSUME TypeInv, NEW r \in Request, CommitRows(r),
           req' = [req EXCEPT ![r].pc = "done"],
           txn' \in [Request -> TxnRecord]
    PROVE  TypeInv'
<1>1. req[r] \in RequestState
  BY DEF TypeInv, TypeOK
<1>2. req' = [req EXCEPT ![r] = [req[r] EXCEPT !.pc = "done"]]
  OBVIOUS
<1>3. req' \in [Request -> RequestState] /\ Indexed'
  BY <1>1, <1>2, SetPcWellFormed, RequestStep
<1>4. /\ lock' \in [Row -> Request \cup {NoRequest}]
      /\ txnLock' \in [Request -> Request \cup {NoRequest}]
  BY FreeLocksType DEF TypeInv, CommitRows
<1>. QED
  BY <1>3, <1>4, CommitType DEF TypeInv, TypeOK

LEMMA NegatedType ==
    ASSUME NEW lines \in Seq(Line)
    PROVE  Negated(lines) \in Seq(Line)
<1>1. Len(lines) \in Nat /\ DOMAIN lines = 1 .. Len(lines)
  BY LenProperties
<1>2. ASSUME NEW k \in 1 .. Len(lines)
      PROVE  [lines[k] EXCEPT !.qty = -lines[k].qty] \in Line
  <2>1. lines[k] \in Line
    BY ElementOfSeq
  <2>. QED
    BY <2>1 DEF Line
<1>3. Negated(lines) \in [1 .. Len(lines) -> Line]
  BY <1>1, <1>2 DEF Negated
<1>. QED
  BY <1>1, <1>3, SeqDef

LEMMA CommitsType ==
    ASSUME TypeInv, NEW r \in Request,
           SaleCommit(r) \/ TransferCommit(r) \/ ReverseCommit(r)
    PROVE  TypeInv'
<1>1. req[r].lines \in Seq(Line) /\ req[r].target \in Request \cup {NoRequest}
  BY DEF TypeInv, TypeOK, RequestState
<1>2. \A t \in Request : txn[t] \in TxnRecord
  BY DEF TypeInv, TypeOK
<1>3. CommitRows(r) /\ req' = [req EXCEPT ![r].pc = "done"]
  BY DEF SaleCommit, TransferCommit, ReverseCommit
<1>4. txn' \in [Request -> TxnRecord]
  <2>1. CASE SaleCommit(r)
    BY <1>1, <2>1 DEF SaleCommit, TypeInv, TypeOK, TxnRecord
  <2>2. CASE TransferCommit(r)
    BY <2>2 DEF TransferCommit, TypeInv, TypeOK
  <2>3. CASE ReverseCommit(r)
    <3> DEFINE record == [status |-> "COMPLETED", lines |-> Negated(req[r].lines)]
               VoidedTxn(t)   == [txn[t] EXCEPT !.status = "VOIDED"]
               RefundedTxn(t) == [txn[t] EXCEPT !.status = "REFUNDED"]
    <3>1. record \in TxnRecord
      BY <1>1, NegatedType DEF TxnRecord
    <3>2. \A t \in Request : VoidedTxn(t) \in TxnRecord /\ RefundedTxn(t) \in TxnRecord
      BY <1>2 DEF TxnRecord
    <3>3. CASE req[r].kind = "void"
      <4>1. txn' = [txn EXCEPT ![req[r].target] = VoidedTxn(req[r].target)]
        BY <2>3, <3>3 DEF ReverseCommit
      <4>. QED
        BY <3>2, <4>1 DEF TypeInv, TypeOK
    <3>4. CASE req[r].kind # "void"
      <4>1. txn' = [txn EXCEPT ![req[r].target] = RefundedTxn(req[r].target),
                               ![r] = record]
        BY <2>3, <3>4 DEF ReverseCommit
      <4>. QED
        BY <3>1, <3>2, <4>1 DEF TypeInv, TypeOK
    <3>. QED
      BY <3>3, <3>4
  <2>. QED
    BY <2>1, <2>2, <2>3
<1>. QED
  BY <1>3, <1>4, EndType

LEMMA ArrivalTypeInv ==
    ASSUME TypeInv, NEW r \in Request,
           SaleArrive(r) \/ TransferArrive(r) \/ VoidArrive(r) \/ RefundArrive(r)
    PROVE  TypeInv'
<1>1. \A t \in Request : Sold(t) \in Seq(Line)
  BY DEF TypeInv, TypeOK, TxnRecord, Sold
<1>2. CASE SaleArrive(r)
  <2>1. PICK kind \in {"sale", "credit"}, c \in Carts :
            Arrive(r, kind, "lock", c, NoRequest)
    BY <1>2 DEF SaleArrive
  <2>2. c \in Seq(Line) /\ Len(c) >= 1
    BY CartType
  <2>3. kind \in AllKinds
    BY DEF AllKinds, LockedKinds
  <2>. QED
    BY <2>1, <2>2, <2>3, ArriveTypeInv
<1>3. CASE TransferArrive(r)
  <2>1. PICK from \in Row, to \in Row, c \in Carts :
            Arrive(r, "transfer", "lock", TransferLines(from, to, c[1].qty), NoRequest)
    BY <1>3 DEF TransferArrive
  <2> DEFINE a == [row |-> from, qty |-> c[1].qty]
             b == [row |-> to, qty |-> -c[1].qty]
  <2>2. a \in Line /\ b \in Line
    BY CartType DEF Line
  <2>3. TransferLines(from, to, c[1].qty) = <<a, b>>
    BY DEF TransferLines
  <2> HIDE DEF a, b
  <2>4. <<a, b>> \in Seq(Line) /\ Len(<<a, b>>) >= 1
    BY <2>2
  <2>5. "transfer" \in AllKinds
    BY DEF AllKinds, LockedKinds
  <2>. QED
    BY <2>1, <2>3, <2>4, <2>5, ArriveTypeInv
<1>4. CASE VoidArrive(r)
  <2>1. PICK t \in Request : Arrive(r, "void", "claim", Sold(t), t)
    BY <1>4 DEF VoidArrive
  <2>2. "void" \in AllKinds
    BY DEF AllKinds, RestoreKinds
  <2>. QED
    BY <1>1, <2>1, <2>2, ArriveTypeInv
<1>5. CASE RefundArrive(r)
  <2>1. PICK t \in Request : \E picks \in Picks(t) :
            Arrive(r, "refund", "claim", picks, t)
    BY <1>5 DEF RefundArrive
  <2>2. PICK picks \in Picks(t) : Arrive(r, "refund", "claim", picks, t)
    BY <2>1
  <2>3. "refund" \in AllKinds /\ picks \in Seq(Line)
    BY PicksType DEF AllKinds, RestoreKinds, TypeInv
  <2>. QED
    BY <2>2, <2>3, ArriveTypeInv
<1>. QED
  BY <1>2, <1>3, <1>4, <1>5

LEMMA AdjustType ==
    ASSUME TypeInv, NEW r \in Request, Adjust(r)
    PROVE  TypeInv'
<1>1. PICK x \in Row, n \in Adjustments :
         LET new == NonNeg(qty[x] + n) IN
        /\ qty'    = [qty EXCEPT ![x] = new]
        /\ work'   = [work EXCEPT ![x] = new]
        /\ ledger' = [ledger EXCEPT ![x] = @ + (new - qty[x])]
        /\ req'    = [req EXCEPT ![r] =
                         WithMovement([Fresh EXCEPT !.kind = "adjust",
                                                    !.pc = "done"],
                                      x, new - qty[x], n)]
        /\ UNCHANGED <<lock, txn, txnLock>>
  BY DEF Adjust
<1> DEFINE new  == NonNeg(qty[x] + n)
           base == [Fresh EXCEPT !.kind = "adjust", !.pc = "done"]
           rec  == WithMovement(base, x, new - qty[x], n)
<1>2. n \in Int /\ qty[x] \in Int /\ new \in Int /\ new - qty[x] \in Int
  BY AdjustAssumption DEF NonNeg, TypeInv, TypeOK
<1>3. base \in RequestState /\ base.pc = "done"
  BY FreshType DEF RequestState, AllKinds, LockedKinds, PCs
<1>4. req' = [req EXCEPT ![r] = rec]
  BY <1>1
<1> HIDE DEF new, base
<1>5. rec \in RequestState
  BY <1>2, <1>3, MovementType
<1>6. rec.pc = "done"
  BY <1>3 DEF WithMovement, RequestState
<1>7. req' \in [Request -> RequestState] /\ Indexed'
  BY <1>4, <1>5, <1>6, RequestStep DEF WellFormed
<1>8. /\ qty'    = [qty EXCEPT ![x] = new]
      /\ work'   = [work EXCEPT ![x] = new]
      /\ ledger' = [ledger EXCEPT ![x] = ledger[x] + (new - qty[x])]
      /\ UNCHANGED <<lock, txn, txnLock>>
  BY <1>1 DEF new
<1>. QED
  BY <1>2, <1>7, <1>8 DEF TypeInv, TypeOK

LEMMA PaymentReverseType ==
    ASSUME TypeInv, NEW r \in Request, PaymentReverse(r)
    PROVE  TypeInv'
<1>1. PICK t \in Request, kind \in PaymentKinds \cap Kinds :
        /\ txn' = IF kind = "payVoid"
                  THEN [txn EXCEPT ![t].status = "VOIDED"]
                  ELSE [txn EXCEPT ![t].status = "REFUNDED",
                                   ![r] = [status |-> "COMPLETED",
                                           lines  |-> <<>>]]
        /\ req' = [req EXCEPT ![r] = [Fresh EXCEPT !.kind = kind,
                                                   !.pc = "done",
                                                   !.target = t]]
        /\ UNCHANGED <<qty, work, lock, ledger, txnLock>>
  BY DEF PaymentReverse
<1> DEFINE rec    == [Fresh EXCEPT !.kind = kind, !.pc = "done", !.target = t]
           none   == [status |-> "COMPLETED", lines |-> <<>>]
           voided == [txn[t] EXCEPT !.status = "VOIDED"]
           refund == [txn[t] EXCEPT !.status = "REFUNDED"]
<1>2. WellFormed(rec)
  BY FreshType DEF WellFormed, RequestState, AllKinds, PCs
<1>3. req' \in [Request -> RequestState] /\ Indexed'
  BY <1>1, <1>2, RequestStep
<1>4. none \in TxnRecord /\ voided \in TxnRecord /\ refund \in TxnRecord
  <2>1. txn[t] \in TxnRecord
    BY DEF TypeInv, TypeOK
  <2>2. none \in TxnRecord
    BY DEF TxnRecord
  <2>. QED
    BY <2>1, <2>2 DEF TxnRecord
<1>5. txn' = IF kind = "payVoid" THEN [txn EXCEPT ![t] = voided]
                                 ELSE [txn EXCEPT ![t] = refund, ![r] = none]
  BY <1>1
<1>6. txn' \in [Request -> TxnRecord]
  BY <1>4, <1>5 DEF TypeInv, TypeOK
<1>. QED
  BY <1>1, <1>3, <1>6 DEF TypeInv, TypeOK

LEMMA InitTypeInv == Init => TypeInv
<1> SUFFICES ASSUME Init PROVE TypeInv
  OBVIOUS
<1>1. NoTxn \in TxnRecord
  BY DEF NoTxn, TxnRecord
<1>2. InitQty \in [Row -> Int]
  BY StockAssumption
<1>3. TypeOK
  BY <1>1, <1>2, FreshType DEF Init, TypeOK
<1>4. Indexed
  BY DEF Init, Indexed, Looping, Fresh
<1>. QED
  BY <1>3, <1>4 DEF TypeInv

LEMMA NextTypeInv == TypeInv /\ [Next]_vars => TypeInv'
<1> SUFFICES ASSUME TypeInv, [Next]_vars PROVE TypeInv'
  OBVIOUS
<1>1. CASE UNCHANGED vars
  BY <1>1 DEF vars, TypeInv, TypeOK, Indexed, Looping
<1>2. ASSUME NEW r \in Request, Arrival(r)
      PROVE  TypeInv'
  BY <1>2, ArrivalTypeInv, AdjustType, PaymentReverseType DEF Arrival
<1>3. ASSUME NEW r \in Request, Step(r)
      PROVE  TypeInv'
  BY <1>3, SaleLockType, TransferLockType, ClaimType, ReadRowType, WriteRowType,
     CommitsType, FailTypeInv DEF Step, DeadlockVictim
<1>4. ASSUME NEW r \in Request, Crash(r)
      PROVE  TypeInv'
  BY <1>4, FailTypeInv DEF Crash
<1>. QED
  BY <1>1, <1>2, <1>3, <1>4 DEF Next

\* Every reachable state is well typed, and no request looks past its last line.
THEOREM TypeInvariant == Spec => []TypeInv
BY InitTypeInv, NextTypeInv, PTL DEF Spec

\* The type invariant of the runs, for every set of rows, requests and carts.
THEOREM TypeCorrect == Spec => []TypeOK
<1>1. TypeInv => TypeOK
  BY DEF TypeInv
<1>. QED
  BY <1>1, TypeInvariant, PTL

-----------------------------------------------------------------------------
(***************************************************************************)
(* Whatever ends a request also frees its rows and discards or publishes   *)
(* what it wrote.                                                          *)
(***************************************************************************)
EndedPC == {"idle", "done", "failed"}

\* What a step of r may do to the locks while r stays in its transaction.
OnlyTakes(r) ==
    /\ \A x \in Row : lock'[x] \in {lock[x], r}
    /\ \A t \in Request : txnLock'[t] \in {txnLock[t], r}
    /\ \A x \in Row : lock'[x] = r \/ (work'[x] = work[x] /\ qty'[x] = qty[x])

LEMMA TakeLocks ==
    ASSUME TypeOK, LocksReleased, NEW r \in Request, OnlyTakes(r),
           NEW rec, rec.pc \notin EndedPC, req' = [req EXCEPT ![r] = rec]
    PROVE  LocksReleased'
<1>1. \A q \in Request : Ended(q)' => q # r /\ Ended(q)
  BY DEF TypeOK, Ended, EndedPC
<1>2. ASSUME NEW x \in Row
      PROVE  (/\ lock[x] \in Request => ~Ended(lock[x])
              /\ lock[x] = NoRequest => work[x] = qty[x])'
  <2>1. lock'[x] \in {lock[x], r}
    BY DEF OnlyTakes
  <2>2. lock[x] \in Request => ~Ended(lock[x])
    BY DEF LocksReleased
  <2>3. (lock[x] \in Request => ~Ended(lock[x]))'
    BY <1>1, <2>1, <2>2 DEF Ended
  <2>4. lock'[x] = NoRequest => work'[x] = qty'[x]
    BY <2>1, RequestAssumption DEF OnlyTakes, LocksReleased
  <2>. QED
    BY <2>3, <2>4 DEF Ended
<1>3. ASSUME NEW t \in Request
      PROVE  (txnLock[t] \in Request => ~Ended(txnLock[t]))'
  <2>1. txnLock'[t] \in {txnLock[t], r}
    BY DEF OnlyTakes
  <2>2. txnLock[t] \in Request => ~Ended(txnLock[t])
    BY DEF LocksReleased
  <2>. QED
    BY <1>1, <2>1, <2>2 DEF Ended
<1>. QED
  BY <1>2, <1>3 DEF LocksReleased

\* Both ways to end: the rows of r are freed and agree with what others see.
LEMMA EndLocks ==
    ASSUME TypeOK, LocksReleased, NEW r \in Request, FreeLocks(r),
           \A x \in Row : lock[x] = r => work'[x] = qty'[x],
           \A x \in Row : lock[x] # r => work'[x] = work[x] /\ qty'[x] = qty[x],
           NEW rec, req' = [req EXCEPT ![r] = rec]
    PROVE  LocksReleased'
<1>1. \A q \in Request : q # r => (Ended(q)' <=> Ended(q))
  BY DEF TypeOK, Ended
<1>2. ASSUME NEW x \in Row
      PROVE  (/\ lock[x] \in Request => ~Ended(lock[x])
              /\ lock[x] = NoRequest => work[x] = qty[x])'
  <2>1. lock'[x] = IF lock[x] = r THEN NoRequest ELSE lock[x]
    BY DEF FreeLocks
  <2>2. lock[x] \in Request => ~Ended(lock[x])
    BY DEF LocksReleased
  <2>3. lock'[x] = NoRequest => work'[x] = qty'[x]
    BY <2>1 DEF LocksReleased
  <2>4. lock'[x] \in Request => lock'[x] # r /\ ~Ended(lock'[x])
    BY <2>1, <2>2, RequestAssumption
  <2>. QED
    BY <1>1, <2>3, <2>4 DEF Ended
<1>3. ASSUME NEW t \in Request
      PROVE  (txnLock[t] \in Request => ~Ended(txnLock[t]))'
  <2>1. txnLock'[t] = IF txnLock[t] = r THEN NoRequest ELSE txnLock[t]
    BY DEF FreeLocks
  <2>2. txnLock[t] \in Request => ~Ended(txnLock[t])
    BY DEF LocksReleased
  <2>3. txnLock'[t] \in Request => txnLock'[t] # r /\ ~Ended(txnLock'[t])
    BY <2>1, <2>2, RequestAssumption
  <2>. QED
    BY <1>1, <2>3 DEF Ended
<1>. QED
  BY <1>2, <1>3 DEF LocksReleased

LEMMA FailLocks ==
    ASSUME TypeOK, LocksReleased, NEW r \in Request, Fail(r)
    PROVE  LocksReleased'
<1>1. /\ FreeLocks(r)
      /\ \A x \in Row : lock[x] = r => work'[x] = qty'[x]
      /\ \A x \in Row : lock[x] # r => work'[x] = work[x] /\ qty'[x] = qty[x]
  BY DEF Fail, RollbackRows
<1>2. req' = [req EXCEPT ![r] = [req[r] EXCEPT !.pc = "failed"]]
  BY DEF Fail
<1>. QED
  BY <1>1, <1>2, EndLocks

LEMMA CommitLocks ==
    ASSUME TypeOK, LocksReleased, NEW r \in Request, CommitRows(r),
           req' = [req EXCEPT ![r].pc = "done"]
    PROVE  LocksReleased'
<1>1. /\ FreeLocks(r)
      /\ \A x \in Row : lock[x] = r => work'[x] = qty'[x]
      /\ \A x \in Row : lock[x] # r => work'[x] = work[x] /\ qty'[x] = qty[x]
  BY DEF CommitRows, TypeOK
<1>2. req' = [req EXCEPT ![r] = [req[r] EXCEPT !.pc = "done"]]
  OBVIOUS
<1>. QED
  BY <1>1, <1>2, EndLocks

\* A request that is not in a transaction owns nothing.
LEMMA IdleOwnsNothing ==
    ASSUME LocksReleased, NEW r \in Request, At(r, "idle")
    PROVE  /\ \A x \in Row : lock[x] # r
           /\ \A t \in Request : txnLock[t] # r
BY DEF LocksReleased, Ended, At

LEMMA ArrivalLocks ==
    ASSUME TypeInv, LocksReleased, NEW r \in Request, Arrival(r)
    PROVE  LocksReleased'
<1>1. ASSUME NEW kind, NEW pc \in {"lock", "claim"}, NEW lines, NEW target,
             Arrive(r, kind, pc, lines, target)
      PROVE  LocksReleased'
  <2> DEFINE rec == [Fresh EXCEPT !.kind = kind, !.pc = pc,
                                  !.lines = lines, !.target = target]
  <2>1. rec.pc \notin EndedPC /\ req' = [req EXCEPT ![r] = rec]
    BY <1>1 DEF Arrive, Fresh, EndedPC
  <2>2. OnlyTakes(r)
    BY <1>1 DEF Arrive, OnlyTakes
  <2>. QED
    BY <2>1, <2>2, TakeLocks DEF TypeInv
<1>2. CASE SaleArrive(r) \/ TransferArrive(r) \/ VoidArrive(r) \/ RefundArrive(r)
  BY <1>1, <1>2 DEF SaleArrive, TransferArrive, VoidArrive, RefundArrive
<1>3. ASSUME NEW rec, req' = [req EXCEPT ![r] = rec], At(r, "idle"),
             UNCHANGED <<lock, txnLock>>,
             \A x \in Row : lock[x] = NoRequest /\ work[x] = qty[x]
                                => work'[x] = qty'[x]
      PROVE  LocksReleased'
  <2>1. \A q \in Request : q # r => (Ended(q)' <=> Ended(q))
    BY <1>3 DEF TypeInv, TypeOK, Ended
  <2>2. ASSUME NEW x \in Row
        PROVE  (/\ lock[x] \in Request => ~Ended(lock[x])
                /\ lock[x] = NoRequest => work[x] = qty[x])'
    BY <1>3, <2>1, IdleOwnsNothing DEF LocksReleased, Ended
  <2>3. ASSUME NEW t \in Request
        PROVE  (txnLock[t] \in Request => ~Ended(txnLock[t]))'
    BY <1>3, <2>1, IdleOwnsNothing DEF LocksReleased, Ended
  <2>. QED
    BY <2>2, <2>3 DEF LocksReleased
<1>4. CASE Adjust(r)
  <2>1. PICK x \in Row, n \in Adjustments :
            /\ qty'  = [qty EXCEPT ![x] = NonNeg(qty[x] + n)]
            /\ work' = [work EXCEPT ![x] = NonNeg(qty[x] + n)]
    BY <1>4 DEF Adjust
  <2>2. \A y \in Row : work[y] = qty[y] => work'[y] = qty'[y]
    BY <2>1 DEF TypeInv, TypeOK
  <2>3. \E rec : req' = [req EXCEPT ![r] = rec]
    BY <1>4 DEF Adjust
  <2>. QED
    BY <1>3, <1>4, <2>2, <2>3 DEF Adjust
<1>5. CASE PaymentReverse(r)
  <2>1. \E rec : req' = [req EXCEPT ![r] = rec]
    BY <1>5 DEF PaymentReverse
  <2>. QED
    BY <1>3, <1>5, <2>1 DEF PaymentReverse
<1>. QED
  BY <1>2, <1>4, <1>5 DEF Arrival

LEMMA StepLocks ==
    ASSUME TypeInv, LocksReleased, NEW r \in Request, Step(r) \/ Crash(r)
    PROVE  LocksReleased'
<1>1. CASE Fail(r)
  BY <1>1, FailLocks DEF TypeInv
<1>2. CASE CommitRows(r) /\ req' = [req EXCEPT ![r].pc = "done"]
  BY <1>2, CommitLocks DEF TypeInv
<1>3. req[r] \in RequestState
  BY DEF TypeInv, TypeOK
<1>4. \A a, b : /\ Advance(r, a, b).pc \in {a, b}
                /\ \A x, d, s : WithMovement(Advance(r, a, b), x, d, s).pc
                                    = Advance(r, a, b).pc
  BY <1>3 DEF Advance, WithMovement, RequestState
<1>5. CASE SaleLock(r) /\ ~Fail(r)
  <2>1. req' = [req EXCEPT ![r] = Advance(r, "lock", "read")] /\ OnlyTakes(r)
    BY <1>5 DEF SaleLock, lockInventoryRow, OnlyTakes, TypeInv, TypeOK
  <2>2. Advance(r, "lock", "read").pc \notin EndedPC
    BY <1>4 DEF EndedPC
  <2>. QED
    BY <2>1, <2>2, TakeLocks DEF TypeInv
<1>6. CASE TransferLock(r) /\ ~Fail(r)
  <2> DEFINE rec == [Advance(r, "lock", "write")
                        EXCEPT !.seen[Current(r).row] = Sees(r, Current(r).row)]
  <2>1. req' = [req EXCEPT ![r] = rec] /\ OnlyTakes(r)
    BY <1>6 DEF TransferLock, lockInventoryRow, OnlyTakes, TypeInv, TypeOK
  <2>2. rec.pc \notin EndedPC
    BY <1>3, <1>4 DEF EndedPC, Advance, RequestState
  <2>. QED
    BY <2>1, <2>2, TakeLocks DEF TypeInv
<1>7. CASE Claim(r) /\ ~Fail(r)
  <2> DEFINE rec == [req[r] EXCEPT !.pc = IF req[r].lines = <<>> THEN "commit" ELSE "read"]
  <2>1. req' = [req EXCEPT ![r] = rec] /\ OnlyTakes(r)
    BY <1>7 DEF Claim, OnlyTakes, TypeInv, TypeOK
  <2>2. rec.pc \notin EndedPC
    BY <1>3 DEF EndedPC, RequestState
  <2>. QED
    BY <2>1, <2>2, TakeLocks DEF TypeInv
<1>8. CASE ReadRow(r)
  <2> DEFINE rec == [req[r] EXCEPT !.seen[Current(r).row] = Sees(r, Current(r).row),
                                   !.pc = "write"]
  <2>1. req' = [req EXCEPT ![r] = rec] /\ OnlyTakes(r)
    BY <1>8 DEF ReadRow, OnlyTakes, TypeInv, TypeOK
  <2>2. rec.pc \notin EndedPC
    BY <1>3 DEF EndedPC, RequestState
  <2>. QED
    BY <2>1, <2>2, TakeLocks DEF TypeInv
<1>9. CASE WriteRow(r)
  <2> DEFINE l    == Current(r)
             kind == req[r].kind
             new  == NewQty(kind, req[r].seen[l.row], l.qty)
             next == IF kind = "transfer" THEN "write" ELSE "read"
             rec  == WithMovement(Advance(r, next, "commit"), l.row,
                                  new - req[r].seen[l.row], Signed(kind, l.qty))
  <2>1. req' = [req EXCEPT ![r] = rec] /\ lock' = [lock EXCEPT ![l.row] = r]
        /\ work' = [work EXCEPT ![l.row] = new] /\ UNCHANGED <<qty, txnLock>>
    BY <1>9 DEF WriteRow, UpdateRow
  <2>2. OnlyTakes(r)
    BY <2>1 DEF OnlyTakes, TypeInv, TypeOK
  <2>3. rec.pc \notin EndedPC
    BY <1>4 DEF EndedPC
  <2>. QED
    BY <2>1, <2>2, <2>3, TakeLocks DEF TypeInv
<1>. QED
  BY <1>1, <1>2, <1>5, <1>6, <1>7, <1>8, <1>9
     DEF Step, Crash, DeadlockVictim, SaleCommit, TransferCommit, ReverseCommit

\* No request that has ended, in whatever way, keeps a row, and a free row has
\* no uncommitted value: the rows a crashed request had locked are usable again.
THEOREM LocksAreReleased == Spec => []LocksReleased
<1>1. Init => LocksReleased
  BY RequestAssumption DEF Init, LocksReleased
<1>2. TypeInv /\ LocksReleased /\ [Next]_vars => LocksReleased'
  <2>1. ASSUME TypeInv, LocksReleased, UNCHANGED vars
        PROVE  LocksReleased'
    BY <2>1 DEF vars, LocksReleased, Ended
  <2>. QED
    BY <2>1, ArrivalLocks, StepLocks DEF Next
<1>. QED
  BY <1>1, <1>2, TypeInvariant, PTL DEF Spec

-----------------------------------------------------------------------------
(***************************************************************************)
(* One reversal per transaction.  The conditional UPDATE of the status is  *)
(* what makes it true: whoever has claimed a transaction owns its record,  *)
(* and an unclaimed, COMPLETED transaction has not been reversed by anyone *)
(* (ClaimInv).  Each lemma below takes one kind of step.                   *)
(***************************************************************************)
ReversingPC == {"read", "write", "commit"}

\* The record of a request while it is neither waiting to start nor done.
Running(rec) == rec.pc \notin {"idle", "done"}

\* A step that ends nothing and claims nothing.
LEMMA InternalReversal ==
    ASSUME ReversalInv, NEW r \in Request, NEW rec,
           req' = [req EXCEPT ![r] = rec], UNCHANGED <<txn, txnLock>>,
           rec.kind = req[r].kind, rec.target = req[r].target,
           Running(rec), Running(req[r]),
           rec.kind \in RestoreKinds =>
               (rec.pc \in ReversingPC <=> req[r].pc \in ReversingPC)
    PROVE  ClaimInv' /\ OneReversal'
<1>1. req'[r] = rec /\ \A q \in Request : q # r => req'[q] = req[q]
  BY DEF ReversalInv, TypeOK
<1>2. \A q \in Request : /\ req'[q].kind = req[q].kind
                         /\ req'[q].target = req[q].target
                         /\ Committed(q)' <=> Committed(q)
                         /\ Reversing(q)' <=> Reversing(q)
                         /\ req'[q].pc = "idle" <=> req[q].pc = "idle"
  BY <1>1 DEF Committed, Reversing, Running, ReversingPC
<1>3. ClaimInv'
  BY <1>2 DEF ReversalInv, ClaimInv
<1>4. OneReversal'
  BY <1>2 DEF ReversalInv, OneReversal, Reverses
<1>. QED
  BY <1>3, <1>4

LEMMA FailReversal ==
    ASSUME ReversalInv, NEW r \in Request, Fail(r), Running(req[r])
    PROVE  ClaimInv' /\ OneReversal'
<1>1. /\ req'[r] = [req[r] EXCEPT !.pc = "failed"]
      /\ \A q \in Request : q # r => req'[q] = req[q]
      /\ req[r] \in RequestState
  BY DEF ReversalInv, TypeOK, Fail
<1>2. \A q \in Request : /\ req'[q].kind = req[q].kind
                         /\ req'[q].target = req[q].target
                         /\ Committed(q)' <=> Committed(q)
                         /\ Reversing(q)' <=> (Reversing(q) /\ q # r)
                         /\ req'[q].pc = "idle" <=> req[q].pc = "idle"
  <2>1. /\ req'[r].kind = req[r].kind
        /\ req'[r].target = req[r].target
        /\ req'[r].pc = "failed"
    BY <1>1 DEF RequestState
  <2>2. /\ Committed(r)' <=> Committed(r)
        /\ ~Reversing(r)'
        /\ req'[r].pc = "idle" <=> req[r].pc = "idle"
    BY <2>1 DEF Committed, Reversing, Running
  <2>3. ASSUME NEW q \in Request, q # r
        PROVE  /\ Committed(q)' <=> Committed(q)
               /\ Reversing(q)' <=> Reversing(q)
    BY <1>1, <2>3 DEF Committed, Reversing
  <2>. QED
    BY <1>1, <2>1, <2>2, <2>3
<1>3. /\ \A t \in Request : txnLock'[t] = IF txnLock[t] = r THEN NoRequest
                                                            ELSE txnLock[t]
      /\ txn' = txn
  BY DEF Fail, RollbackRows, FreeLocks
<1>4. ClaimInv'
  <2>1. \A q \in Request : Reversing(q) => req[q].target \in Request
    BY DEF ReversalInv, ClaimInv, Reversing
  <2>2. (\A t \in Request : txnLock[t] \in Request =>
            Reversing(txnLock[t]) /\ req[txnLock[t]].target = t)'
    BY <1>2, <1>3, RequestAssumption DEF ReversalInv, ClaimInv
  <2>3. (\A q \in Request : Reversing(q) =>
            txnLock[req[q].target] = q /\ txn[req[q].target].status = "COMPLETED")'
    BY <1>2, <1>3, <2>1 DEF ReversalInv, ClaimInv
  <2>. QED
    BY <1>2, <1>3, <2>2, <2>3 DEF ReversalInv, ClaimInv
<1>5. OneReversal'
  BY <1>2, <1>3 DEF ReversalInv, OneReversal, Reverses
<1>. QED
  BY <1>4, <1>5

LEMMA ArriveReversal ==
    ASSUME ReversalInv, NEW r \in Request,
           NEW kind \in AllKinds, NEW pc \in {"lock", "claim"}, NEW lines,
           NEW target, Arrive(r, kind, pc, lines, target),
           \/ kind \in LockedKinds /\ target = NoRequest
           \/ /\ kind \in RestoreKinds
              /\ target \in Request
              /\ txn[target].status # "none"
    PROVE  ClaimInv' /\ OneReversal'
<1>1. /\ req'[r].kind = kind /\ req'[r].pc = pc /\ req'[r].target = target
      /\ \A q \in Request : q # r => req'[q] = req[q]
      /\ UNCHANGED <<txn, txnLock>>
  BY DEF Arrive, ReversalInv, TypeOK, Fresh
<1>2. /\ req[r].pc = "idle" /\ req[r].kind = "none"
      /\ req[r].target = NoRequest
      /\ kind # "none" /\ (kind \in LockedKinds => kind \notin RestoreKinds)
  BY DEF Arrive, At, ReversalInv, ClaimInv, LockedKinds, RestoreKinds, AllKinds,
         PaymentKinds
<1>3. \A q \in Request : /\ Committed(q)' <=> Committed(q)
                         /\ Reversing(q)' <=> Reversing(q)
                         /\ q # r => req'[q] = req[q]
  BY <1>1, <1>2 DEF Committed, Reversing
<1>4. ~Committed(r) /\ ~Reversing(r)
  BY <1>2 DEF Committed, Reversing
<1>5. ClaimInv'
  BY <1>1, <1>2, <1>3, <1>4, RequestAssumption
     DEF ReversalInv, ClaimInv, LockedKinds, RestoreKinds
<1>6. OneReversal'
  BY <1>1, <1>3, <1>4 DEF ReversalInv, OneReversal, Reverses
<1>. QED
  BY <1>5, <1>6

\* Winning the claim: the record is locked and its status is COMPLETED.
LEMMA ClaimReversal ==
    ASSUME ReversalInv, NEW r \in Request, Claim(r)
    PROVE  ClaimInv' /\ OneReversal'
<1>1. CASE Fail(r)
  BY <1>1, FailReversal DEF Claim, At, Running
<1>2. CASE ~Fail(r)
  <2> DEFINE p == IF req[r].lines = <<>> THEN "commit" ELSE "read"
             t == req[r].target
  <2>1. /\ txnLock[t] = NoRequest
        /\ txn[t].status = "COMPLETED"
        /\ txnLock' = [txnLock EXCEPT ![t] = r]
        /\ req' = [req EXCEPT ![r].pc = p]
        /\ UNCHANGED txn
    BY <1>2 DEF Claim
  <2>2. req[r].pc = "claim" /\ req[r].kind \in RestoreKinds /\ t \in Request
    BY DEF Claim, At, ReversalInv, ClaimInv
  <2>3. p \in {"commit", "read"}
    OBVIOUS
  <2> HIDE DEF p
  <2>4. /\ req'[r] = [req[r] EXCEPT !.pc = p]
        /\ \A q \in Request : q # r => req'[q] = req[q]
        /\ req[r] \in RequestState
    BY <2>1 DEF ReversalInv, TypeOK
  <2>5. \A q \in Request : /\ req'[q].kind = req[q].kind
                           /\ req'[q].target = req[q].target
                           /\ Committed(q)' <=> Committed(q)
                           /\ Reversing(q)' <=> (Reversing(q) \/ q = r)
                           /\ req'[q].pc = "idle" <=> req[q].pc = "idle"
    <3>1. /\ req'[r].kind = req[r].kind
          /\ req'[r].target = req[r].target
          /\ req'[r].pc = p
      BY <2>4 DEF RequestState
    <3>2. /\ Committed(r)' <=> Committed(r)
          /\ Reversing(r)' <=> (Reversing(r) \/ r = r)
          /\ req'[r].pc = "idle" <=> req[r].pc = "idle"
      BY <2>2, <2>3, <3>1 DEF Committed, Reversing
    <3>3. ASSUME NEW q \in Request, q # r
          PROVE  /\ Committed(q)' <=> Committed(q)
                 /\ Reversing(q)' <=> (Reversing(q) \/ q = r)
      BY <2>4, <3>3 DEF Committed, Reversing
    <3>. QED
      BY <2>4, <3>1, <3>2, <3>3
  <2>6. \A u \in Request : txnLock'[u] = IF u = t THEN r ELSE txnLock[u]
    BY <2>1, <2>2 DEF ReversalInv, TypeOK
  <2>7. ClaimInv'
    BY <2>1, <2>2, <2>5, <2>6, RequestAssumption DEF ReversalInv, ClaimInv
  <2>8. OneReversal'
    BY <2>1, <2>5 DEF ReversalInv, OneReversal, Reverses
  <2>. QED
    BY <2>7, <2>8
<1>. QED
  BY <1>1, <1>2

Ends(r) ==
    /\ \A q \in Request : /\ req'[q].kind = req[q].kind
                          /\ req'[q].target = req[q].target
                          /\ Committed(q)' <=> (Committed(q) \/ q = r)
                          /\ Reversing(q)' <=> (Reversing(q) /\ q # r)
                          /\ req'[q].pc = "idle" <=> req[q].pc = "idle"
    /\ \A t \in Request : txnLock'[t] = IF txnLock[t] = r THEN NoRequest
                                                          ELSE txnLock[t]
    /\ txn[r].status = "none" /\ ~Committed(r)
    /\ \A q \in Request : req[q].target # r
    /\ \A q \in Request : Reversing(q) => req[q].target \in Request

\* Ending with COMMIT, in general: r becomes done, its record locks are freed,
\* the transactions it owned or that bear its name are the only ones it changed.
LEMMA DoneReversal ==
    ASSUME ReversalInv, NEW r \in Request, Running(req[r]), FreeLocks(r),
           req' = [req EXCEPT ![r].pc = "done"]
    PROVE  Ends(r)
<1>1. /\ req'[r] = [req[r] EXCEPT !.pc = "done"]
      /\ \A q \in Request : q # r => req'[q] = req[q]
      /\ req[r] \in RequestState
  BY DEF ReversalInv, TypeOK
<1>2. ~Committed(r) /\ txn[r].status = "none"
  BY DEF ReversalInv, ClaimInv, Running, Committed
<1>3. \A q \in Request : req[q].target # r
  BY <1>2 DEF ReversalInv, ClaimInv
<1>4. \A q \in Request : Reversing(q) => req[q].target \in Request
  BY DEF ReversalInv, ClaimInv, Reversing
<1>. QED
  BY <1>1, <1>2, <1>3, <1>4 DEF Ends, Committed, Reversing, Running, RequestState, FreeLocks

LEMMA ForwardCommitReversal ==
    ASSUME ReversalInv, NEW r \in Request, SaleCommit(r) \/ TransferCommit(r)
    PROVE  ClaimInv' /\ OneReversal'
<1>1. /\ Running(req[r]) /\ FreeLocks(r) /\ req' = [req EXCEPT ![r].pc = "done"]
      /\ req[r].kind \in LockedKinds
  BY DEF SaleCommit, TransferCommit, CommitRows, At, Running, LockedKinds
<1>9. Ends(r)
  BY <1>1, DoneReversal
<1>2. /\ \A q \in Request : q # r => txn'[q] = txn[q]
      /\ txn'[r].status \in {txn[r].status, "COMPLETED"}
  BY DEF SaleCommit, TransferCommit, ReversalInv, TypeOK
<1>3. req[r].target = NoRequest /\ ~Reversing(r)
  BY <1>1 DEF ReversalInv, ClaimInv, Reversing, LockedKinds, RestoreKinds
<1>4. \A q \in Request : Reversing(q) => req[q].target # r
  BY <1>1, <1>9 DEF Ends
<1>5. ClaimInv'
  <2>1. (\A t \in Request : txnLock[t] \in Request =>
            Reversing(txnLock[t]) /\ req[txnLock[t]].target = t)'
    BY <1>1, <1>9, RequestAssumption DEF Ends, ReversalInv, ClaimInv
  <2>2. (\A q \in Request : Reversing(q) =>
            txnLock[req[q].target] = q /\ txn[req[q].target].status = "COMPLETED")'
    BY <1>1, <1>2, <1>9 DEF Ends, ReversalInv, ClaimInv
  <2>3. (\A q \in Request :
          /\ txn[q].status = "none" => \A a \in Request : req[a].target # q
          /\ txn[q].status # "none" => Committed(q)
          /\ req[q].kind \in RestoreKinds => req[q].target \in Request
          /\ req[q].kind \in LockedKinds \cup {"none"} =>
                 req[q].target = NoRequest
          /\ req[q].kind = "none" <=> req[q].pc = "idle")'
    BY <1>1, <1>2, <1>9 DEF Ends, ReversalInv, ClaimInv
  <2>. QED
    BY <2>1, <2>2, <2>3 DEF ClaimInv
<1>6. \A a, t \in Request : Reverses(a, t)' <=> Reverses(a, t)
  BY <1>1, <1>3, <1>9, RequestAssumption DEF Ends, Reverses
<1>7. \A a \in Request : ~Reverses(a, r)
  BY <1>1, <1>9 DEF Ends, Reverses
<1>8. OneReversal'
  BY <1>2, <1>6, <1>7 DEF ReversalInv, OneReversal
<1>. QED
  BY <1>5, <1>8

LEMMA ReverseCommitReversal ==
    ASSUME ReversalInv, NEW r \in Request, ReverseCommit(r)
    PROVE  ClaimInv' /\ OneReversal'
<1> DEFINE t == req[r].target
<1>1. /\ Running(req[r]) /\ FreeLocks(r) /\ req' = [req EXCEPT ![r].pc = "done"]
      /\ Reversing(r) /\ req[r].kind \in RestoreKinds
  BY DEF ReverseCommit, CommitRows, At, Running, Reversing
<1>9. Ends(r)
  BY <1>1, DoneReversal
<1>2. t \in Request /\ txn[t].status = "COMPLETED" /\ txnLock[t] = r /\ t # r
  BY <1>1, <1>9 DEF Ends, ReversalInv, ClaimInv
<1>3. /\ \A q \in Request \ {t, r} : txn'[q] = txn[q]
      /\ txn'[t].status \in {"VOIDED", "REFUNDED"}
      /\ txn'[r].status \in {"none", "COMPLETED"}
  <2>1. txn[t] \in TxnRecord /\ txn \in [Request -> TxnRecord]
    BY <1>2 DEF ReversalInv, TypeOK
  <2>2. CASE req[r].kind = "void"
    BY <1>1, <1>2, <2>1, <2>2, <1>9 DEF Ends, ReverseCommit, TxnRecord
  <2>3. CASE req[r].kind # "void"
    BY <1>1, <1>2, <2>1, <2>3 DEF ReverseCommit, TxnRecord
  <2>. QED
    BY <2>2, <2>3
<1>4. \A q \in Request : Reversing(q) /\ q # r => req[q].target \notin {t, r}
  BY <1>1, <1>2, <1>9 DEF Ends, ReversalInv, ClaimInv
<1>5. ClaimInv'
  <2>1. (\A u \in Request : txnLock[u] \in Request =>
            Reversing(txnLock[u]) /\ req[txnLock[u]].target = u)'
    BY <1>1, <1>9, RequestAssumption DEF Ends, ReversalInv, ClaimInv
  <2>2. (\A q \in Request : Reversing(q) =>
            txnLock[req[q].target] = q /\ txn[req[q].target].status = "COMPLETED")'
    BY <1>1, <1>3, <1>4, <1>9 DEF Ends, ReversalInv, ClaimInv
  <2>3. (\A q \in Request :
          /\ txn[q].status = "none" => \A a \in Request : req[a].target # q
          /\ txn[q].status # "none" => Committed(q))'
    BY <1>1, <1>2, <1>3, <1>9 DEF Ends, ReversalInv, ClaimInv
  <2>4. (\A q \in Request :
          /\ req[q].kind \in RestoreKinds => req[q].target \in Request
          /\ req[q].kind \in LockedKinds \cup {"none"} =>
                 req[q].target = NoRequest
          /\ req[q].kind = "none" <=> req[q].pc = "idle")'
    BY <1>1, <1>9 DEF Ends, ReversalInv, ClaimInv
  <2>. QED
    BY <2>1, <2>2, <2>3, <2>4 DEF ClaimInv
<1>6. \A a, u \in Request : Reverses(a, u)' <=> (Reverses(a, u) \/ (a = r /\ u = t))
  BY <1>1, <1>9 DEF Ends, Reverses
<1>7. \A a \in Request : ~Reverses(a, r) /\ ~Reverses(a, t)
  BY <1>1, <1>2, <1>9 DEF Ends, Reverses, ReversalInv, OneReversal
<1>8. OneReversal'
  BY <1>2, <1>3, <1>6, <1>7 DEF ReversalInv, OneReversal
<1>. QED
  BY <1>5, <1>8

LEMMA AdjustReversal ==
    ASSUME ReversalInv, NEW r \in Request, Adjust(r)
    PROVE  ClaimInv' /\ OneReversal'
<1>1. PICK x \in Row, n \in Adjustments :
         /\ req' = [req EXCEPT ![r] = WithMovement([Fresh EXCEPT !.kind = "adjust",
                                                                 !.pc = "done"],
                                                   x, NonNeg(qty[x] + n) - qty[x], n)]
         /\ UNCHANGED <<txn, txnLock>>
  BY DEF Adjust
<1>2. /\ req'[r].kind = "adjust" /\ req'[r].pc = "done"
      /\ req'[r].target = NoRequest
      /\ \A q \in Request : q # r => req'[q] = req[q]
  BY <1>1 DEF ReversalInv, TypeOK, WithMovement, Fresh
<1>3. req[r].pc = "idle" /\ req[r].target = NoRequest
  BY DEF Adjust, At, ReversalInv, ClaimInv
<1>4. \A q \in Request : /\ Reversing(q)' <=> Reversing(q)
                         /\ Committed(q)' <=> (Committed(q) \/ q = r)
                         /\ req'[q].target = req[q].target
  BY <1>2, <1>3 DEF Reversing, Committed, RestoreKinds
<1>5. ClaimInv'
  BY <1>1, <1>2, <1>3, <1>4, RequestAssumption
     DEF ReversalInv, ClaimInv, LockedKinds, RestoreKinds
<1>6. \A a, t \in Request : Reverses(a, t)' <=> Reverses(a, t)
  BY <1>3, <1>4, RequestAssumption DEF Reverses
<1>7. OneReversal'
  BY <1>1, <1>6 DEF ReversalInv, OneReversal
<1>. QED
  BY <1>5, <1>7

LEMMA PaymentReversal ==
    ASSUME ReversalInv, NEW r \in Request, PaymentReverse(r)
    PROVE  ClaimInv' /\ OneReversal'
<1>1. PICK t \in Request, kind \in PaymentKinds \cap Kinds :
        /\ txn[t].status = "COMPLETED"
        /\ txnLock[t] = NoRequest
        /\ txn' = IF kind = "payVoid"
                  THEN [txn EXCEPT ![t].status = "VOIDED"]
                  ELSE [txn EXCEPT ![t].status = "REFUNDED",
                                   ![r] = [status |-> "COMPLETED",
                                           lines  |-> <<>>]]
        /\ req' = [req EXCEPT ![r] = [Fresh EXCEPT !.kind = kind,
                                                   !.pc = "done",
                                                   !.target = t]]
        /\ UNCHANGED txnLock
  BY DEF PaymentReverse
<1>2. /\ req'[r].kind = kind /\ req'[r].pc = "done" /\ req'[r].target = t
      /\ \A q \in Request : q # r => req'[q] = req[q]
      /\ kind \in PaymentKinds
  BY <1>1 DEF ReversalInv, TypeOK, Fresh
<1>3. /\ req[r].pc = "idle" /\ req[r].target = NoRequest
      /\ ~Committed(r) /\ ~Reversing(r) /\ txn[r].status = "none" /\ t # r
  BY <1>1 DEF PaymentReverse, At, ReversalInv, ClaimInv, Committed, Reversing
<1>4. \A q \in Request : /\ Reversing(q)' <=> Reversing(q)
                         /\ Committed(q)' <=> (Committed(q) \/ q = r)
                         /\ q # r => req'[q] = req[q]
  BY <1>2, <1>3 DEF Reversing, Committed
<1>5. /\ \A q \in Request \ {t, r} : txn'[q] = txn[q]
      /\ txn'[t].status \in {"VOIDED", "REFUNDED"}
      /\ txn'[r].status \in {"none", "COMPLETED"}
  <2>1. txn[t] \in TxnRecord /\ txn \in [Request -> TxnRecord]
    BY DEF ReversalInv, TypeOK
  <2>2. CASE kind = "payVoid"
    BY <1>1, <1>3, <2>1, <2>2 DEF TxnRecord
  <2>3. CASE kind # "payVoid"
    BY <1>1, <1>3, <2>1, <2>3 DEF TxnRecord
  <2>. QED
    BY <2>2, <2>3
<1>6. \A q \in Request : req[q].target # r
  BY <1>3 DEF ReversalInv, ClaimInv
<1>7. \A q \in Request : Reversing(q) => /\ req[q].target \in Request \ {t, r}
                                         /\ q # r
  <2>1. \A q \in Request : Reversing(q) => req[q].target \in Request
    BY DEF ReversalInv, ClaimInv, Reversing
  <2>2. \A q \in Request : Reversing(q) => req[q].target # t
    BY <1>1, RequestAssumption DEF ReversalInv, ClaimInv
  <2>. QED
    BY <1>3, <1>6, <2>1, <2>2
<1>8. ClaimInv'
  <2>1. (\A u \in Request : txnLock[u] \in Request =>
            Reversing(txnLock[u]) /\ req[txnLock[u]].target = u)'
    <3>1. \A u \in Request : txnLock[u] \in Request =>
              Reversing(txnLock[u]) /\ req[txnLock[u]].target = u
      BY DEF ReversalInv, ClaimInv
    <3>2. \A q \in Request : Reversing(q) =>
              Reversing(q)' /\ req'[q].target = req[q].target
      BY <1>4, <1>7
    <3>3. txnLock' = txnLock
      BY <1>1
    <3>. QED
      BY <3>1, <3>2, <3>3
  <2>2. (\A q \in Request : Reversing(q) =>
            txnLock[req[q].target] = q /\ txn[req[q].target].status = "COMPLETED")'
    <3>1. \A q \in Request : Reversing(q)' =>
              Reversing(q) /\ req'[q].target = req[q].target
      BY <1>4, <1>7
    <3>2. \A q \in Request : Reversing(q) =>
              txn'[req[q].target] = txn[req[q].target]
      BY <1>5, <1>7
    <3>. QED
      <4>1. \A q \in Request : Reversing(q) =>
            txnLock[req[q].target] = q /\ txn[req[q].target].status = "COMPLETED"
        BY DEF ReversalInv, ClaimInv
      <4>2. txnLock' = txnLock
        BY <1>1
      <4>. QED
        BY <3>1, <3>2, <4>1, <4>2
  <2>3. (\A q \in Request :
          /\ txn[q].status = "none" => \A a \in Request : req[a].target # q
          /\ txn[q].status # "none" => Committed(q))'
    <3>1. \A q \in Request : txn'[q].status # "none" => Committed(q)'
      <4>1. \A q \in Request : txn[q].status # "none" => Committed(q)
        BY DEF ReversalInv, ClaimInv
      <4>2. txn[t].status # "none"
        BY <1>1
      <4>. QED
        BY <1>4, <1>5, <4>1, <4>2
    <3>2. \A q, a \in Request : txn'[q].status = "none" => req'[a].target # q
      <4>1. \A q, a \in Request : txn[q].status = "none" => req[a].target # q
        BY DEF ReversalInv, ClaimInv
      <4>2. \A q \in Request : txn'[q].status = "none" => q = r \/ txn[q].status = "none"
        BY <1>5
      <4>3. \A q \in Request : txn'[q].status = "none" => q # t
        BY <1>5
      <4>4. \A a \in Request : req'[a].target \in {req[a].target, t}
        BY <1>2, <1>4
      <4>. QED
        BY <1>6, <4>1, <4>2, <4>3, <4>4
    <3>. QED
      BY <3>1, <3>2
  <2>4. (\A q \in Request :
          /\ req[q].kind \in RestoreKinds => req[q].target \in Request
          /\ req[q].kind \in LockedKinds \cup {"none"} =>
                 req[q].target = NoRequest
          /\ req[q].kind = "none" <=> req[q].pc = "idle")'
    BY <1>2, <1>4 DEF ReversalInv, ClaimInv, PaymentKinds, LockedKinds, RestoreKinds
  <2>. QED
    BY <2>1, <2>2, <2>3, <2>4 DEF ClaimInv
<1>9. \A a, u \in Request : Reverses(a, u)' <=> (Reverses(a, u) \/ (a = r /\ u = t))
  BY <1>2, <1>3, <1>4 DEF Reverses
<1>10. \A a \in Request : ~Reverses(a, r) /\ ~Reverses(a, t)
  BY <1>1, <1>6 DEF Reverses, ReversalInv, OneReversal
<1>11. OneReversal'
  BY <1>3, <1>5, <1>9, <1>10 DEF ReversalInv, OneReversal
<1>. QED
  BY <1>8, <1>11

LEMMA ArrivalReversal ==
    ASSUME ReversalInv, NEW r \in Request, Arrival(r)
    PROVE  ClaimInv' /\ OneReversal'
<1>1. CASE SaleArrive(r)
  <2>1. \A kind \in {"sale", "credit"} : kind \in AllKinds /\ kind \in LockedKinds
    BY DEF AllKinds, LockedKinds
  <2>. QED
    BY <1>1, <2>1, ArriveReversal DEF SaleArrive
<1>2. CASE TransferArrive(r)
  <2>1. "transfer" \in AllKinds /\ "transfer" \in LockedKinds
    BY DEF AllKinds, LockedKinds
  <2>. QED
    BY <1>2, <2>1, ArriveReversal DEF TransferArrive
<1>3. "void" \in AllKinds /\ "void" \in RestoreKinds
      /\ "refund" \in AllKinds /\ "refund" \in RestoreKinds
  BY DEF AllKinds, RestoreKinds
<1>4. CASE VoidArrive(r)
  BY <1>3, <1>4, ArriveReversal DEF VoidArrive
<1>5. CASE RefundArrive(r)
  BY <1>3, <1>5, ArriveReversal DEF RefundArrive
<1>. QED
  BY <1>1, <1>2, <1>4, <1>5, AdjustReversal, PaymentReversal DEF Arrival

LEMMA StepReversal ==
    ASSUME ReversalInv, NEW r \in Request, Step(r) \/ Crash(r)
    PROVE  ClaimInv' /\ OneReversal'
<1>1. req[r] \in RequestState
  BY DEF ReversalInv, TypeOK
<1>2. \A a, b : /\ Advance(r, a, b).pc \in {a, b}
                /\ Advance(r, a, b).kind = req[r].kind
                /\ Advance(r, a, b).target = req[r].target
  BY <1>1 DEF Advance, RequestState
<1>3. CASE Fail(r) /\ Running(req[r])
  BY <1>3, FailReversal
<1>4. CASE SaleLock(r) /\ ~Fail(r)
  <2>1. /\ req' = [req EXCEPT ![r] = Advance(r, "lock", "read")]
        /\ UNCHANGED <<txn, txnLock>>
        /\ req[r].pc = "lock" /\ req[r].kind \notin RestoreKinds
    BY <1>4 DEF SaleLock, At, RestoreKinds
  <2> DEFINE rec == Advance(r, "lock", "read")
  <2>2. rec.pc \in {"lock", "read"} /\ rec.kind = req[r].kind
        /\ rec.target = req[r].target
    BY <1>2
  <2> HIDE DEF rec
  <2>. QED
    BY <2>1, <2>2, InternalReversal DEF Running, rec
<1>5. CASE TransferLock(r) /\ ~Fail(r)
  <2> DEFINE rec == [Advance(r, "lock", "write")
                        EXCEPT !.seen[Current(r).row] = Sees(r, Current(r).row)]
  <2>1. /\ req' = [req EXCEPT ![r] = rec]
        /\ UNCHANGED <<txn, txnLock>>
        /\ req[r].pc = "lock" /\ req[r].kind \notin RestoreKinds
    BY <1>5 DEF TransferLock, At, RestoreKinds
  <2>2. rec.pc \in {"lock", "write"} /\ rec.kind = req[r].kind
        /\ rec.target = req[r].target
    BY <1>1, <1>2 DEF Advance, RequestState
  <2>. QED
    BY <2>1, <2>2, InternalReversal DEF Running
<1>6. CASE ReadRow(r)
  <2> DEFINE rec == [req[r] EXCEPT !.seen[Current(r).row] = Sees(r, Current(r).row),
                                   !.pc = "write"]
  <2>1. /\ req' = [req EXCEPT ![r] = rec]
        /\ UNCHANGED <<txn, txnLock>>
        /\ req[r].pc = "read"
    BY <1>6 DEF ReadRow, At, ReversalInv, TypeOK
  <2>2. rec.pc = "write" /\ rec.kind = req[r].kind /\ rec.target = req[r].target
    BY <1>1 DEF RequestState
  <2>. QED
    BY <2>1, <2>2, InternalReversal DEF Running, ReversingPC
<1>7. CASE WriteRow(r)
  <2> DEFINE l    == Current(r)
             kind == req[r].kind
             new  == NewQty(kind, req[r].seen[l.row], l.qty)
             next == IF kind = "transfer" THEN "write" ELSE "read"
             rec  == WithMovement(Advance(r, next, "commit"), l.row,
                                  new - req[r].seen[l.row], Signed(kind, l.qty))
  <2>1. /\ req' = [req EXCEPT ![r] = rec]
        /\ UNCHANGED <<txn, txnLock>>
        /\ req[r].pc = "write"
    BY <1>7 DEF WriteRow, At
  <2>2. \A a, b, x, d, s : /\ WithMovement(Advance(r, a, b), x, d, s).pc \in {a, b}
                           /\ WithMovement(Advance(r, a, b), x, d, s).kind = req[r].kind
                           /\ WithMovement(Advance(r, a, b), x, d, s).target
                                  = req[r].target
    BY <1>1 DEF WithMovement, Advance, RequestState
  <2>3. rec.pc \in {next, "commit"} /\ rec.kind = kind /\ rec.target = req[r].target
    BY <2>2
  <2>4. next \in {"read", "write"}
    OBVIOUS
  <2> HIDE DEF rec, next
  <2>. QED
    BY <2>1, <2>3, <2>4, InternalReversal DEF Running, ReversingPC
<1>8. DeadlockVictim(r) => Running(req[r])
  BY RequestAssumption DEF DeadlockVictim, Ring, BlockedBy, Running
<1>9. /\ Crash(r) => Fail(r) /\ Running(req[r])
      /\ SaleLock(r) \/ TransferLock(r) => Running(req[r])
      /\ DeadlockVictim(r) => Fail(r)
  BY DEF Crash, InTransaction, SaleLock, TransferLock, At, Running, DeadlockVictim
<1>. QED
  BY <1>3, <1>4, <1>5, <1>6, <1>7, <1>8, <1>9,
     ClaimReversal, ForwardCommitReversal, ReverseCommitReversal DEF Step

\* The invariant of the reversals holds.
LEMMA ReversalInvariant == Spec => []ReversalInv
<1>1. Init => ClaimInv /\ OneReversal
  BY RequestAssumption
     DEF Init, ClaimInv, OneReversal, Reverses, Reversing, Committed, Fresh, NoTxn,
         RestoreKinds
<1>2. TypeInv /\ ClaimInv /\ OneReversal /\ [Next]_vars => (ClaimInv /\ OneReversal)'
  <2> SUFFICES ASSUME TypeInv, ClaimInv, OneReversal, [Next]_vars
               PROVE  ClaimInv' /\ OneReversal'
    OBVIOUS
  <2>1. ReversalInv
    BY DEF ReversalInv, TypeInv
  <2>2. CASE UNCHANGED vars
    BY <2>2 DEF vars, ClaimInv, OneReversal, Reverses, Reversing, Committed
  <2>3. CASE \E r \in Request : Arrival(r)
    BY <2>1, <2>3, ArrivalReversal
  <2>4. CASE \E r \in Request : Step(r) \/ Crash(r)
    BY <2>1, <2>4, StepReversal
  <2>. QED
    BY <2>2, <2>3, <2>4 DEF Next
<1>3. TypeInv /\ ClaimInv /\ OneReversal => ReversalInv
  BY DEF ReversalInv, TypeInv
<1>. QED
  BY <1>1, <1>2, <1>3, TypeInvariant, PTL DEF Spec

\* However voids, refunds and their payment counterparts interleave, fail and
\* crash, a transaction is reversed by at most one of them, and its status says
\* whether it was.
THEOREM ReversedOnce == Spec => []OneReversal
<1>1. ReversalInv => OneReversal
  BY DEF ReversalInv
<1>. QED
  BY <1>1, ReversalInvariant, PTL
-----------------------------------------------------------------------------
(***************************************************************************)
(* What a void or a refund puts back.  A sale's movements are the running  *)
(* sums of its lines, and so are those of a reversal of all its items; a   *)
(* refund that names a product once has booked, for it, one entry that a   *)
(* line of the sale covers.                                                *)
(***************************************************************************)
Sells(r)    == req[r].kind \in {"sale", "credit"}
Restores(r) == req[r].kind \in RestoreKinds

\* The lines r has written, and booked.
Written(r) ==
    CASE req[r].pc \in {"read", "write"}  -> req[r].i - 1
      [] req[r].pc \in {"commit", "done"} -> Len(req[r].lines)
      [] OTHER                            -> 0

\* B[k] is what the first k lines, up to n of them, take from each row.
Sums(lines, n, B) ==
    /\ B \in [Nat -> [Row -> Int]]
    /\ \A x \in Row : B[0][x] = 0
    /\ \A k \in 1 .. n, x \in Row :
          B[k][x] = B[k - 1][x] + IF lines[k].row = x THEN lines[k].qty ELSE 0

SoldAsBooked(r) ==
    /\ \A k \in 1 .. Len(req[r].lines) : req[r].lines[k].qty > 0
    /\ \E B : Sums(req[r].lines, Written(r), B) /\ \A x \in Row : req[r].booked[x] = -B[Written(r)][x]
    /\ \A x \in Row : req[r].booked[x] <= 0
    /\ \A k \in 1 .. Written(r) : req[r].lines[k].qty <= -req[r].booked[req[r].lines[k].row]
    /\ Committed(r) => Sold(r) = req[r].lines

\* Every entry of the list of r is one that a line of t covers.
CoveredBy(r, t) ==
    \A k \in 1 .. Len(req[r].lines) : \E j \in 1 .. Len(Sold(t)) :
        Sold(t)[j].row = req[r].lines[k].row /\ req[r].lines[k].qty <= Sold(t)[j].qty

InPartsOf(r, t) ==
    req[r].lines = Sold(t) =>
        \E B : /\ Sums(Sold(t), Len(Sold(t)), B)
               /\ \A x \in Row : /\ req[t].booked[x] = -B[Len(Sold(t))][x]
                                 /\ req[r].booked[x] = B[Written(r)][x]

BookedByEntry(r) ==
    NamesOnce(req[r].lines) =>
        \A x \in Row :
            \/ req[r].booked[x] = 0
            \/ \E k \in 1 .. Written(r) :
                  req[r].lines[k].row = x /\ req[r].booked[x] = req[r].lines[k].qty

RestoredAsBooked(r) ==
    LET t == req[r].target IN
    Sells(t) => CoveredBy(r, t) /\ InPartsOf(r, t) /\ BookedByEntry(r)

BookedAsListed(r) ==
    req[r].pc # "failed" => /\ Sells(r) => SoldAsBooked(r)
                            /\ Restores(r) => RestoredAsBooked(r)

RestoreInv == \A r \in Request : BookedAsListed(r)

-----------------------------------------------------------------------------
\* The reversals' invariant gives a target that is done, whose record stays.
LEMMA TargetIsDone ==
    ASSUME ReversalInv, NEW r \in Request, Restores(r)
    PROVE  req[r].target \in Request /\ Committed(req[r].target)
BY DEF ReversalInv, ClaimInv, Restores

\* A step of r disturbs nobody else.
LEMMA OthersKeepBooked ==
    ASSUME ReversalInv, NEW r \in Request, NEW q \in Request, q # r, BookedAsListed(q),
           ~Committed(r),
           \A u \in Request : u # r => req'[u] = req[u],
           \A u \in Request : Committed(u) => Sold(u)' = Sold(u)
    PROVE  BookedAsListed(q)'
<1>1. req'[q] = req[q] /\ Written(q)' = Written(q)
  BY DEF Written
<1>2. ASSUME Sells(q), SoldAsBooked(q) PROVE SoldAsBooked(q)'
  BY <1>1, <1>2 DEF SoldAsBooked, Committed
<1>3. ASSUME Restores(q), RestoredAsBooked(q) PROVE RestoredAsBooked(q)'
  <2>0. PICK t : t = req[q].target
    OBVIOUS
  <2>1. t \in Request /\ t # r /\ req'[t] = req[t] /\ Sold(t)' = Sold(t) /\ req'[q].target = t
    BY <1>1, <1>3, <2>0, TargetIsDone
  <2>2. SUFFICES ASSUME Sells(t) PROVE (CoveredBy(q, t) /\ InPartsOf(q, t) /\ BookedByEntry(q))'
    BY <2>1 DEF RestoredAsBooked, Sells
  <2>3. CoveredBy(q, t) /\ InPartsOf(q, t) /\ BookedByEntry(q)
    BY <1>3, <2>0, <2>2 DEF RestoredAsBooked
  <2>4. CoveredBy(q, t)'
    BY <1>1, <2>1, <2>3 DEF CoveredBy
  <2>5. InPartsOf(q, t)'
    BY <1>1, <2>1, <2>3 DEF InPartsOf
  <2>6. BookedByEntry(q)'
    BY <1>1, <2>3 DEF BookedByEntry
  <2> QED BY <2>4, <2>5, <2>6
<1> QED BY <1>1, <1>2, <1>3 DEF BookedAsListed, Sells, Restores

\* A step of r that writes no line.
LEMMA WritesNothing ==
    ASSUME ReversalInv, NEW r \in Request, BookedAsListed(r), req[r].pc \notin {"failed", "done"},
           req'[r].kind = req[r].kind, req'[r].lines = req[r].lines, req'[r].booked = req[r].booked,
           req'[r].target = req[r].target, Written(r)' = Written(r),
           \A u \in Request : u # r => req'[u] = req[u],
           \A u \in Request : Committed(u) => Sold(u)' = Sold(u),
           Sells(r) => (Committed(r)' => Sold(r)' = req[r].lines)
    PROVE  BookedAsListed(r)'
<1>1. ASSUME Sells(r), SoldAsBooked(r) PROVE SoldAsBooked(r)'
  BY <1>1 DEF SoldAsBooked
<1>2. ASSUME Restores(r), RestoredAsBooked(r) PROVE RestoredAsBooked(r)'
  <2>0. PICK t : t = req[r].target
    OBVIOUS
  <2>1. t \in Request /\ t # r /\ req'[t] = req[t] /\ Sold(t)' = Sold(t) /\ req'[r].target = t
    BY <1>2, <2>0, TargetIsDone DEF Committed
  <2>2. SUFFICES ASSUME Sells(t) PROVE (CoveredBy(r, t) /\ InPartsOf(r, t) /\ BookedByEntry(r))'
    BY <2>1 DEF RestoredAsBooked, Sells
  <2>3. CoveredBy(r, t) /\ InPartsOf(r, t) /\ BookedByEntry(r)
    BY <1>2, <2>0, <2>2 DEF RestoredAsBooked
  <2>4. CoveredBy(r, t)'
    BY <2>1, <2>3 DEF CoveredBy
  <2>5. InPartsOf(r, t)'
    BY <2>1, <2>3 DEF InPartsOf
  <2>6. BookedByEntry(r)'
    BY <2>3 DEF BookedByEntry
  <2> QED BY <2>4, <2>5, <2>6
<1> QED BY <1>1, <1>2 DEF BookedAsListed, Sells, Restores

(***************************************************************************)
(* Arrivals.                                                               *)
(***************************************************************************)
LEMMA NoSums ==
    ASSUME NEW lines
    PROVE  \E B : Sums(lines, 0, B) /\ \A x \in Row : B[0][x] = 0
<1> DEFINE B == [k \in Nat |-> [x \in Row |-> 0]]
<1>1. B \in [Nat -> [Row -> Int]] /\ \A x \in Row : B[0][x] = 0
  OBVIOUS
<1>2. 1 .. 0 = {}
  OBVIOUS
<1> HIDE DEF B
<1>3. Sums(lines, 0, B)
  BY <1>1, <1>2 DEF Sums
<1> QED BY <1>1, <1>3

LEMMA ArrivedRow ==
    ASSUME ReversalInv, NEW r \in Request, NEW kind, NEW pc \in {"lock", "claim"}, NEW lines, NEW target,
           Arrive(r, kind, pc, lines, target)
    PROVE  /\ req'[r].kind = kind /\ req'[r].pc = pc /\ req'[r].lines = lines /\ req'[r].target = target
           /\ \A x \in Row : req'[r].booked[x] = 0
           /\ Written(r)' = 0 /\ ~Committed(r)
           /\ \A u \in Request : u # r => req'[u] = req[u]
           /\ txn' = txn
BY DEF Arrive, At, ReversalInv, TypeOK, Fresh, Written, Committed

LEMMA SaleArriveRestore ==
    ASSUME ReversalInv, NEW r \in Request, SaleArrive(r)
    PROVE  BookedAsListed(r)'
<1>1. PICK kind \in {"sale", "credit"}, c \in Carts : Arrive(r, kind, "lock", c, NoRequest)
  BY DEF SaleArrive
<1>2. \A k \in 1 .. Len(c) : c[k].qty > 0
  <2>1. c \in Seq([row : Row, qty : Nat \ {0}])
    BY CartsAssumption
  <2>2. \A k \in 1 .. Len(c) : c[k] \in [row : Row, qty : Nat \ {0}]
    BY <2>1, ElementOfSeq
  <2> QED BY <2>2
<1>3. /\ req'[r].kind = kind /\ req'[r].lines = c /\ \A x \in Row : req'[r].booked[x] = 0
      /\ Written(r)' = 0 /\ req'[r].pc \in {"lock", "claim"}
  <2>1. req'[r].lines = c
    BY <1>1 DEF Arrive, ReversalInv, TypeOK, Fresh
  <2>2. /\ req'[r].kind = kind /\ \A x \in Row : req'[r].booked[x] = 0
        /\ Written(r)' = 0 /\ req'[r].pc \in {"lock", "claim"}
    BY <1>1, ArrivedRow
  <2> QED BY <2>1, <2>2
<1>4. SoldAsBooked(r)'
  <2>1. PICK B : Sums(c, 0, B) /\ \A x \in Row : B[0][x] = 0
    BY NoSums
  <2> QED BY <1>2, <1>3, <2>1 DEF SoldAsBooked, Committed
<1>5. ~Restores(r)'
  BY <1>3 DEF Restores, RestoreKinds
<1> QED BY <1>4, <1>5 DEF BookedAsListed

\* What may be picked of a record is covered by its lines.
LEMMA PicksAreCovered ==
    ASSUME NEW t \in Request, Sold(t) \in Seq(Line), NEW p \in Picks(t),
           NEW k \in 1 .. Len(p)
    PROVE  \E j \in 1 .. Len(Sold(t)) : Sold(t)[j].row = p[k].row /\ p[k].qty <= Sold(t)[j].qty
<1> DEFINE firsts == {j \in DOMAIN Sold(t) :
                       \A i \in 1..(j-1) : Sold(t)[i].row # Sold(t)[j].row}
           some   == UNION {[row : {Sold(t)[j].row}, qty : 1..Sold(t)[j].qty] :
                           j \in firsts}
<1>1. Picks(t) = {Sold(t)} \cup UNION {[1..n -> some] : n \in 1..MaxPicks}
  BY DEF Picks
<1>2. \A s \in some : \E j \in 1 .. Len(Sold(t)) : Sold(t)[j].row = s.row /\ s.qty <= Sold(t)[j].qty
  <2> TAKE s \in some
  <2>1. PICK j \in firsts : s \in [row : {Sold(t)[j].row}, qty : 1..Sold(t)[j].qty]
    OBVIOUS
  <2>2. j \in 1 .. Len(Sold(t)) /\ s.row = Sold(t)[j].row /\ s.qty <= Sold(t)[j].qty
    BY <2>1
  <2> QED BY <2>2
<1> HIDE DEF some, firsts
<1>3. CASE p = Sold(t)
  <2>1. Sold(t)[k] \in Line
    BY <1>3
  <2> QED BY <1>3, <2>1 DEF Line
<1>4. CASE \E n \in 1 .. MaxPicks : p \in [1 .. n -> some]
  <2>1. PICK n \in 1 .. MaxPicks : p \in [1 .. n -> some]
    BY <1>4
  <2>2. n \in Nat /\ Len(p) = n
    BY <2>1, PicksAssumption
  <2>3. p[k] \in some
    BY <2>1, <2>2
  <2> QED BY <1>2, <2>3
<1> QED BY <1>1, <1>3, <1>4

\* The sums of a sale that is done are those of its record.
LEMMA RecordSums ==
    ASSUME NEW t \in Request, Sells(t), Committed(t), BookedAsListed(t)
    PROVE  /\ \E B : Sums(Sold(t), Len(Sold(t)), B) /\ \A x \in Row : req[t].booked[x] = -B[Len(Sold(t))][x]
           /\ \A x \in Row : req[t].booked[x] <= 0
           /\ \A k \in 1 .. Len(Sold(t)) : Sold(t)[k].qty <= -req[t].booked[Sold(t)[k].row]
BY DEF Committed, BookedAsListed, SoldAsBooked, Written

LEMMA ReverseArriveRestore ==
    ASSUME ReversalInv, RestoreInv, NEW r \in Request, VoidArrive(r) \/ RefundArrive(r)
    PROVE  BookedAsListed(r)'
<1>0. PICK t \in Request : \E kind \in {"void", "refund"}, lines \in Picks(t) :
          txn[t].status # "none" /\ Arrive(r, kind, "claim", lines, t)
  BY DEF VoidArrive, RefundArrive, Picks
<1>1. PICK kind \in {"void", "refund"}, lines \in Picks(t) :
          txn[t].status # "none" /\ Arrive(r, kind, "claim", lines, t)
  BY <1>0
<1>2. /\ req'[r].kind = kind /\ req'[r].lines = lines /\ req'[r].target = t
      /\ \A x \in Row : req'[r].booked[x] = 0
      /\ Written(r)' = 0 /\ ~Committed(r)
      /\ \A u \in Request : u # r => req'[u] = req[u]
      /\ txn' = txn
  BY <1>1, ArrivedRow
<1>3. Committed(t) /\ t # r /\ req'[t] = req[t] /\ Sold(t)' = Sold(t)
  BY <1>1, <1>2 DEF ReversalInv, ClaimInv, Sold
<1>4. ~Sells(r)'
  BY <1>2 DEF Sells
<1>5. ASSUME Sells(t) PROVE (CoveredBy(r, t) /\ InPartsOf(r, t) /\ BookedByEntry(r))'
  <2>1. CoveredBy(r, t)'
    <3>1. Sold(t) \in Seq(Line)
      BY DEF ReversalInv, TypeOK, TxnRecord, Sold
    <3> QED BY <1>2, <1>3, <3>1, PicksAreCovered DEF CoveredBy
  <2>2. InPartsOf(r, t)'
    <3>1. PICK B : Sums(Sold(t), Len(Sold(t)), B) /\ \A x \in Row : req[t].booked[x] = -B[Len(Sold(t))][x]
      BY <1>3, <1>5, RecordSums DEF RestoreInv
    <3>2. \A x \in Row : B[0][x] = 0
      BY <3>1 DEF Sums
    <3> QED BY <1>2, <1>3, <3>1, <3>2 DEF InPartsOf
  <2>3. BookedByEntry(r)'
    BY <1>2 DEF BookedByEntry
  <2> QED BY <2>1, <2>2, <2>3
<1>6. RestoredAsBooked(r)'
  BY <1>2, <1>3, <1>5 DEF RestoredAsBooked, Sells
<1> QED BY <1>4, <1>6 DEF BookedAsListed

(***************************************************************************)
(* Writing a line.                                                         *)
(***************************************************************************)
\* r has written a line and booked d for its row.
WroteLine(r, d) ==
    /\ req[r].i \in 1 .. Len(req[r].lines) /\ Current(r).row \in Row /\ Current(r).qty \in Int
    /\ \A k \in 1 .. Len(req[r].lines) : req[r].lines[k] \in Line
    /\ req[r].booked \in [Row -> Int]
    /\ Written(r) = req[r].i - 1 /\ Written(r)' = req[r].i
    /\ req'[r].kind = req[r].kind /\ req'[r].lines = req[r].lines /\ req'[r].target = req[r].target
    /\ req'[r].pc \notin {"failed", "done"} /\ req[r].pc \notin {"failed", "done"}
    /\ \A x \in Row : req'[r].booked[x] =
          IF Current(r).row = x THEN req[r].booked[x] + d ELSE req[r].booked[x]
    /\ \A u \in Request : u # r => req'[u] = req[u]
    /\ txn' = txn

LEMMA WroteLineHolds ==
    ASSUME ReversalInv, NEW r \in Request, WriteRow(r)
    PROVE  /\ Sells(r) => WroteLine(r, -Current(r).qty)
           /\ Restores(r) => WroteLine(r, Current(r).qty)
<1> DEFINE l    == Current(r)
           kind == req[r].kind
           seen == req[r].seen[l.row]
           new  == NewQty(kind, seen, l.qty)
           next == IF kind = "transfer" THEN "write" ELSE "read"
           adv  == Advance(r, next, "commit")
           d    == Signed(kind, l.qty)
           rec  == WithMovement(adv, l.row, new - seen, d)
<1>1. /\ req' = [req EXCEPT ![r] = rec] /\ txn' = txn /\ req[r].pc = "write"
  BY DEF WriteRow, At
<1>2. /\ l.row \in Row /\ l.qty \in Int /\ req[r] \in RequestState
      /\ req[r].i \in 1 .. Len(req[r].lines)
  BY <1>1, CurrentType DEF Looping, ReversalInv, TypeOK, Indexed, RequestState
<1>3. /\ adv.kind = kind /\ adv.lines = req[r].lines /\ adv.target = req[r].target
      /\ adv.booked = req[r].booked
      /\ LastLine(r) => adv.pc = "commit"
      /\ ~LastLine(r) => adv.pc = next /\ adv.i = req[r].i + 1
  BY <1>2 DEF Advance, RequestState
<1>4. next \in {"read", "write"}
  OBVIOUS
<1> HIDE DEF adv, next
<1>5. adv \in RequestState
  BY <1>4, AdvanceType DEF adv, ReversalInv, PCs
<1> HIDE DEF l, kind, seen, new, d
<1>6. /\ rec.kind = adv.kind /\ rec.lines = adv.lines /\ rec.target = adv.target
      /\ rec.pc = adv.pc /\ rec.i = adv.i
      /\ rec.booked = [adv.booked EXCEPT ![l.row] = @ + d]
  BY <1>5 DEF WithMovement, RequestState
<1> HIDE DEF rec
<1>7. req'[r] = rec /\ \A u \in Request : u # r => req'[u] = req[u]
  BY <1>1 DEF ReversalInv, TypeOK
<1>8. Written(r) = req[r].i - 1
  BY <1>1 DEF Written
<1>9. Written(r)' = req[r].i
  <2>1. Written(r)' = IF LastLine(r) THEN Len(req[r].lines) ELSE req[r].i
    BY <1>2, <1>3, <1>4, <1>6, <1>7 DEF Written
  <2> QED BY <2>1 DEF LastLine
<1>10. req[r].booked \in [Row -> Int]
  BY <1>2 DEF RequestState
<1>11. \A x \in Row : rec.booked[x] = IF l.row = x THEN req[r].booked[x] + d ELSE req[r].booked[x]
  BY <1>2, <1>3, <1>6, <1>10
<1>12. rec.pc \in {"commit", "read", "write"}
  BY <1>3, <1>4, <1>6
<1>13. Sells(r) => d = -l.qty
  BY DEF Sells, d, kind, Signed, RestoreKinds
<1>14. Restores(r) => d = l.qty
  BY DEF Restores, d, kind, Signed
<1>15. \A k \in 1 .. Len(req[r].lines) : req[r].lines[k] \in Line
  BY <1>2, ElementOfSeq DEF RequestState
<1>16. WroteLine(r, d)
  <2>1. /\ rec.kind = req[r].kind /\ rec.lines = req[r].lines /\ rec.target = req[r].target
    BY <1>3, <1>6 DEF kind
  <2> QED
    BY <1>1, <1>2, <1>7, <1>8, <1>9, <1>10, <1>11, <1>12, <1>15, <2>1 DEF WroteLine, l
<1> QED BY <1>13, <1>14, <1>16 DEF l

\* The sums of one line more.
LEMMA SumsGoOn ==
    ASSUME NEW lines, NEW n \in Nat, NEW B, Sums(lines, n, B), lines[n + 1].qty \in Int
    PROVE  \E C : Sums(lines, n + 1, C) /\ \A x \in Row :
              C[n + 1][x] = B[n][x] + IF lines[n + 1].row = x THEN lines[n + 1].qty ELSE 0
<1> DEFINE top == [x \in Row |-> B[n][x] + IF lines[n + 1].row = x THEN lines[n + 1].qty ELSE 0]
           C   == [B EXCEPT ![n + 1] = top]
<1>1. top \in [Row -> Int]
  BY DEF Sums
<1>2. /\ C \in [Nat -> [Row -> Int]] /\ C[n + 1] = top
      /\ \A k \in Nat : k # n + 1 => C[k] = B[k]
  BY <1>1 DEF Sums
<1>3. \A x \in Row : top[x] = B[n][x] + IF lines[n + 1].row = x THEN lines[n + 1].qty ELSE 0
  OBVIOUS
<1> HIDE DEF C, top
<1>4. \A x \in Row : C[0][x] = 0
  BY <1>2 DEF Sums
<1>5. ASSUME NEW k \in 1 .. n + 1, NEW x \in Row
      PROVE  C[k][x] = C[k - 1][x] + IF lines[k].row = x THEN lines[k].qty ELSE 0
  <2>1. CASE k = n + 1
    <3>1. C[k - 1] = B[n]
      BY <1>2, <2>1
    <3> QED BY <1>2, <1>3, <2>1, <3>1
  <2>2. CASE k # n + 1
    <3>1. k \in 1 .. n /\ C[k] = B[k] /\ C[k - 1] = B[k - 1]
      BY <1>2, <2>2
    <3> QED BY <3>1 DEF Sums
  <2> QED BY <2>1, <2>2
<1>6. Sums(lines, n + 1, C)
  BY <1>2, <1>4, <1>5 DEF Sums
<1> QED BY <1>2, <1>3, <1>6

LEMMA WriteSaleRestore ==
    ASSUME ReversalInv, NEW r \in Request, BookedAsListed(r), Sells(r), WroteLine(r, -Current(r).qty)
    PROVE  BookedAsListed(r)'
<1> DEFINE n == req[r].i
           lines == req[r].lines
           old == req[r].booked
           new == req'[r].booked
           add(x) == IF lines[n].row = x THEN lines[n].qty ELSE 0
<1>1. /\ n \in 1 .. Len(lines) /\ lines[n].row \in Row /\ lines[n].qty \in Int
      /\ old \in [Row -> Int]
      /\ Written(r) = n - 1 /\ Written(r)' = n /\ req'[r].lines = lines
      /\ Sells(r)' /\ req'[r].pc \notin {"failed", "done"}
      /\ \A x \in Row : new[x] = IF lines[n].row = x THEN old[x] - lines[n].qty ELSE old[x]
      /\ \A k \in 1 .. Len(lines) : lines[k] \in Line
  BY DEF WroteLine, Current, Sells
<1>2. SoldAsBooked(r)
  BY DEF BookedAsListed, WroteLine
<1>3. lines[n].qty > 0
  BY <1>1, <1>2 DEF SoldAsBooked
<1>4. \A x \in Row : add(x) \in Nat /\ new[x] = old[x] - add(x) /\ new[x] <= old[x] /\ new[x] \in Int
  <2> TAKE x \in Row
  <2>1. old[x] \in Int
    BY <1>1
  <2>2. PICK q \in Nat : q = lines[n].qty
    BY <1>1, <1>3
  <2>3. CASE lines[n].row = x
    <3>1. add(x) = q /\ new[x] = old[x] - q
      BY <1>1, <2>2, <2>3
    <3> QED BY <2>1, <3>1
  <2>4. CASE lines[n].row # x
    <3>1. add(x) = 0 /\ new[x] = old[x]
      BY <1>1, <2>4
    <3> QED BY <2>1, <3>1
  <2> QED BY <2>3, <2>4
<1>5. \E C : Sums(lines, n, C) /\ \A x \in Row : new[x] = -C[n][x]
  <2>1. PICK B : Sums(lines, n - 1, B) /\ \A x \in Row : old[x] = -B[n - 1][x]
    BY <1>1, <1>2 DEF SoldAsBooked
  <2>2. n - 1 \in Nat /\ (n - 1) + 1 = n
    BY <1>1
  <2>3. PICK C : Sums(lines, n, C) /\ \A x \in Row : C[n][x] = B[n - 1][x] + add(x)
    <3>1. lines[(n - 1) + 1].qty \in Int
      BY <1>1, <2>2
    <3>2. \E C : Sums(lines, (n - 1) + 1, C) /\ \A x \in Row :
             C[(n - 1) + 1][x] = B[n - 1][x] + IF lines[(n - 1) + 1].row = x THEN lines[(n - 1) + 1].qty ELSE 0
      BY <2>1, <2>2, <3>1, SumsGoOn
    <3> QED BY <2>2, <3>2
  <2>4. \A x \in Row : B[n - 1][x] \in Int
    BY <2>1, <2>2 DEF Sums
  <2>5. \A x \in Row : new[x] = -C[n][x]
    BY <1>4, <2>1, <2>3, <2>4
  <2> QED BY <2>3, <2>5
<1>6. \A x \in Row : old[x] <= 0 /\ new[x] <= 0
  BY <1>1, <1>2, <1>4 DEF SoldAsBooked
<1>7. \A k \in 1 .. n : lines[k].qty <= -new[lines[k].row]
  <2> SUFFICES ASSUME NEW k \in 1 .. n PROVE lines[k].qty <= -new[lines[k].row]
    OBVIOUS
  <2>1. CASE k = n
    <3>1. lines[n].row \in Row /\ add(lines[n].row) = lines[n].qty
      BY <1>1
    <3>2. new[lines[n].row] = old[lines[n].row] - lines[n].qty /\ old[lines[n].row] <= 0
      BY <1>4, <1>6, <3>1
    <3>3. old[lines[n].row] \in Int /\ lines[n].qty \in Int
      BY <1>1, <3>1
    <3>4. lines[n].qty <= -new[lines[n].row]
      BY <3>2, <3>3
    <3> QED BY <2>1, <3>4
  <2>2. CASE k # n
    <3>1. k \in 1 .. Written(r) /\ k \in 1 .. Len(lines)
      BY <1>1, <2>2
    <3>2. lines[k].qty <= -old[lines[k].row]
      BY <1>2, <3>1 DEF SoldAsBooked
    <3>3. lines[k].row \in Row /\ lines[k].qty \in Int
      BY <1>1, <3>1 DEF Line
    <3>4. PICK x \in Row : x = lines[k].row
      BY <3>3
    <3>5. new[x] <= old[x] /\ new[x] \in Int /\ old[x] \in Int /\ lines[k].qty <= -old[x]
      BY <1>1, <1>4, <3>2, <3>4
    <3>6. lines[k].qty <= -new[x]
      BY <3>3, <3>5
    <3> QED BY <3>4, <3>6
  <2> QED BY <2>1, <2>2
<1> HIDE DEF n, lines, old, new, add
<1>8. SoldAsBooked(r)'
  BY <1>1, <1>2, <1>5, <1>6, <1>7 DEF SoldAsBooked, lines, new, Committed
<1>9. ~Restores(r)'
  BY <1>1 DEF Restores, Sells, RestoreKinds
<1> QED BY <1>8, <1>9 DEF BookedAsListed

LEMMA WriteRestoreRestore ==
    ASSUME ReversalInv, RestoreInv, NEW r \in Request, Restores(r), WroteLine(r, Current(r).qty)
    PROVE  BookedAsListed(r)'
<1>1. /\ Restores(r)' /\ ~Sells(r)' /\ ~Committed(r) /\ req[r].pc # "failed"
      /\ req'[r].lines = req[r].lines
  BY DEF WroteLine, Restores, Sells, RestoreKinds, Committed
<1>2. PICK t : t = req[r].target
  OBVIOUS
<1>3. t \in Request /\ t # r /\ req'[t] = req[t] /\ Sold(t)' = Sold(t) /\ req'[r].target = t
  BY <1>1, <1>2, TargetIsDone DEF WroteLine, Sold
<1>4. SUFFICES ASSUME Sells(t) PROVE (CoveredBy(r, t) /\ InPartsOf(r, t) /\ BookedByEntry(r))'
  BY <1>1, <1>3 DEF BookedAsListed, RestoredAsBooked, Sells
<1>5. CoveredBy(r, t) /\ InPartsOf(r, t) /\ BookedByEntry(r)
  BY <1>1, <1>2, <1>4 DEF RestoreInv, BookedAsListed, RestoredAsBooked
<1>6. PICK lines : lines = req[r].lines
  OBVIOUS
<1>7. PICK n \in 1 .. Len(lines) : n = req[r].i
  BY <1>6 DEF WroteLine
<1>8. PICK q \in Int : q = lines[n].qty
  BY <1>6, <1>7 DEF WroteLine, Current
<1>9. /\ Len(lines) \in Nat /\ \A k \in 1 .. Len(lines) : lines[k] \in Line
      /\ Written(r) = n - 1 /\ Written(r)' = n
      /\ \A x \in Row : req[r].booked[x] \in Int
      /\ \A x \in Row : req'[r].booked[x] =
            IF lines[n].row = x THEN req[r].booked[x] + q ELSE req[r].booked[x]
  <2>1. Len(lines) \in Nat
    BY <1>6, LenProperties DEF ReversalInv, TypeOK, RequestState
  <2> QED BY <1>6, <1>7, <1>8, <2>1 DEF WroteLine, Current
<1>10. CoveredBy(r, t)'
  BY <1>1, <1>3, <1>5 DEF CoveredBy
<1>11. InPartsOf(r, t)'
  <2> SUFFICES ASSUME lines = Sold(t)
               PROVE  \E B : /\ Sums(Sold(t), Len(Sold(t)), B)
                             /\ \A x \in Row : /\ req[t].booked[x] = -B[Len(Sold(t))][x]
                                               /\ req'[r].booked[x] = B[n][x]
    BY <1>1, <1>3, <1>6, <1>9 DEF InPartsOf
  <2>1. PICK B : /\ Sums(Sold(t), Len(Sold(t)), B)
                 /\ \A x \in Row : /\ req[t].booked[x] = -B[Len(Sold(t))][x]
                                   /\ req[r].booked[x] = B[n - 1][x]
    BY <1>5, <1>6, <1>9 DEF InPartsOf
  <2>2. \A x \in Row : B[n][x] = B[n - 1][x] + IF lines[n].row = x THEN lines[n].qty ELSE 0
    BY <2>1 DEF Sums
  <2>3. ASSUME NEW x \in Row PROVE req'[r].booked[x] = B[n][x]
    <3>1. CASE lines[n].row = x
      BY <1>8, <1>9, <2>1, <2>2, <3>1
    <3>2. CASE lines[n].row # x
      <4>1. req'[r].booked[x] = B[n - 1][x] /\ B[n][x] = B[n - 1][x] + 0 /\ B[n - 1][x] \in Int
        BY <1>9, <2>1, <2>2, <3>2
      <4> QED BY <4>1
    <3> QED BY <3>1, <3>2
  <2> QED BY <2>1, <2>3
<1>12. BookedByEntry(r)'
  <2> SUFFICES ASSUME NamesOnce(lines), NEW x \in Row
               PROVE  \/ req'[r].booked[x] = 0
                      \/ \E k \in 1 .. n : lines[k].row = x /\ req'[r].booked[x] = lines[k].qty
    BY <1>1, <1>6, <1>9 DEF BookedByEntry
  <2>1. \/ req[r].booked[x] = 0
        \/ \E k \in 1 .. (n - 1) : lines[k].row = x /\ req[r].booked[x] = lines[k].qty
    BY <1>5, <1>6, <1>9 DEF BookedByEntry
  <2>2. CASE lines[n].row # x
    <3>1. req'[r].booked[x] = req[r].booked[x] /\ \A k \in 1 .. (n - 1) : k \in 1 .. n
      BY <1>9, <2>2
    <3> QED BY <2>1, <3>1
  <2>3. CASE lines[n].row = x
    <3>1. ~ \E k \in 1 .. (n - 1) : lines[k].row = x
      <4> SUFFICES ASSUME NEW k \in 1 .. (n - 1), lines[k].row = x PROVE FALSE
        OBVIOUS
      <4>1. DOMAIN lines = 1 .. Len(lines)
        BY <1>6, LenProperties DEF ReversalInv, TypeOK, RequestState
      <4>2. k \in DOMAIN lines /\ n \in DOMAIN lines /\ k # n
        BY <1>9, <4>1
      <4> QED BY <2>3, <4>2 DEF NamesOnce
    <3>2. req[r].booked[x] = 0
      BY <2>1, <3>1
    <3>3. req'[r].booked[x] = 0 + q
      BY <1>9, <2>3, <3>2
    <3>4. n \in 1 .. n /\ req'[r].booked[x] = lines[n].qty
      BY <1>8, <1>9, <3>3
    <3> QED BY <2>3, <3>4
  <2> QED BY <2>2, <2>3
<1> QED BY <1>10, <1>11, <1>12

(***************************************************************************)
(* The steps.                                                              *)
(***************************************************************************)
\* What r does next, when it books nothing that the invariant speaks of.
NoLineOf(r) ==
    \/ req'[r].pc = "failed"
    \/ req'[r].kind \notin {"sale", "credit"} \cup RestoreKinds

LEMMA NoLineRestore ==
    ASSUME NEW r \in Request, NoLineOf(r)
    PROVE  BookedAsListed(r)'
BY DEF NoLineOf, BookedAsListed, Sells, Restores

\* A step that takes r on, and writes no line.
TakesOn(r) ==
    /\ req[r].pc \notin {"failed", "done"}
    /\ req'[r].kind = req[r].kind /\ req'[r].lines = req[r].lines /\ req'[r].booked = req[r].booked
    /\ req'[r].target = req[r].target /\ Written(r)' = Written(r)
    /\ Sells(r) => (Committed(r)' => Sold(r)' = req[r].lines)

\* A step of r, by what it does to r's record and to the records of others.
LEMMA StepOfOne ==
    ASSUME ReversalInv, RestoreInv, NEW r \in Request, ~Committed(r),
           \A u \in Request : u # r => req'[u] = req[u],
           \A u \in Request : Committed(u) => Sold(u)' = Sold(u),
           BookedAsListed(r)' \/ NoLineOf(r) \/ TakesOn(r)
    PROVE  RestoreInv'
<1>1. BookedAsListed(r)'
  <2>1. CASE NoLineOf(r)
    BY <2>1, NoLineRestore
  <2>2. CASE TakesOn(r)
    BY <2>2, WritesNothing DEF TakesOn, RestoreInv
  <2> QED BY <2>1, <2>2
<1>2. ASSUME NEW q \in Request, q # r PROVE BookedAsListed(q)'
  BY <1>2, OthersKeepBooked DEF RestoreInv
<1> QED BY <1>1, <1>2 DEF RestoreInv

LEMMA FailRestore ==
    ASSUME ReversalInv, RestoreInv, NEW r \in Request, ~Committed(r), Fail(r)
    PROVE  RestoreInv'
<1>1. /\ req'[r].pc = "failed" /\ \A u \in Request : u # r => req'[u] = req[u]
      /\ txn' = txn
  BY DEF Fail, RollbackRows, ReversalInv, TypeOK, RequestState
<1> QED BY <1>1, StepOfOne DEF NoLineOf, Sold

LEMMA ArrivalRestore ==
    ASSUME ReversalInv, RestoreInv, NEW r \in Request, Arrival(r)
    PROVE  RestoreInv'
<1>1. req[r].pc = "idle" /\ ~Committed(r)
  BY DEF Arrival, SaleArrive, TransferArrive, VoidArrive, RefundArrive, Adjust, PaymentReverse,
         Arrive, At, Committed
<1>2. \A u \in Request : u # r => req'[u] = req[u]
  BY DEF Arrival, SaleArrive, TransferArrive, VoidArrive, RefundArrive, Adjust, PaymentReverse,
         Arrive, ReversalInv, TypeOK
<1>3. \A u \in Request : Committed(u) => Sold(u)' = Sold(u)
  <2>1. CASE txn' = txn
    BY <2>1 DEF Sold
  <2>2. CASE PaymentReverse(r)
    <3>1. PICK t \in Request :
             \/ txn' = [txn EXCEPT ![t].status = "VOIDED"]
             \/ txn' = [txn EXCEPT ![t].status = "REFUNDED",
                                   ![r] = [status |-> "COMPLETED", lines |-> <<>>]]
      BY <2>2 DEF PaymentReverse
    <3>2. txn \in [Request -> TxnRecord]
      BY DEF ReversalInv, TypeOK
    <3>3. ASSUME NEW u \in Request, u # r PROVE txn'[u].lines = txn[u].lines
      <4>1. txn[u] \in TxnRecord
        BY <3>2
      <4>2. \/ txn'[u] = txn[u]
            \/ txn'[u] = [txn[u] EXCEPT !.status = "VOIDED"]
            \/ txn'[u] = [txn[u] EXCEPT !.status = "REFUNDED"]
        BY <3>1, <3>2, <3>3
      <4> QED BY <4>1, <4>2 DEF TxnRecord
    <3> QED BY <1>1, <3>3 DEF Sold, Committed
  <2> QED BY <2>1, <2>2
     DEF Arrival, SaleArrive, TransferArrive, VoidArrive, RefundArrive, Adjust, Arrive
<1>4. BookedAsListed(r)' \/ NoLineOf(r)
  <2>1. CASE SaleArrive(r)
    BY <2>1, SaleArriveRestore
  <2>2. CASE VoidArrive(r) \/ RefundArrive(r)
    BY <2>2, ReverseArriveRestore
  <2>3. CASE TransferArrive(r)
    <3>1. req'[r].kind = "transfer"
      BY <2>3 DEF TransferArrive, Arrive, Fresh, ReversalInv, TypeOK
    <3> QED BY <3>1 DEF NoLineOf, RestoreKinds
  <2>4. CASE Adjust(r)
    <3>1. req'[r].kind = "adjust"
      BY <2>4 DEF Adjust, WithMovement, Fresh, ReversalInv, TypeOK
    <3> QED BY <3>1 DEF NoLineOf, RestoreKinds
  <2>5. CASE PaymentReverse(r)
    <3>1. req'[r].kind \in PaymentKinds
      BY <2>5 DEF PaymentReverse, Fresh, ReversalInv, TypeOK
    <3> QED BY <3>1 DEF NoLineOf, RestoreKinds, PaymentKinds
  <2> QED BY <2>1, <2>2, <2>3, <2>4, <2>5 DEF Arrival
<1> QED BY <1>1, <1>2, <1>3, <1>4, StepOfOne

\* A step of r that writes no line and leaves the records alone.
LEMMA InternalRestore ==
    ASSUME ReversalInv, RestoreInv, NEW r \in Request, NEW rec,
           req' = [req EXCEPT ![r] = rec], txn' = txn,
           req[r].pc \in {"lock", "claim", "read", "write", "commit"},
           rec.pc \in {"lock", "read", "write", "commit"},
           rec.kind = req[r].kind, rec.lines = req[r].lines, rec.booked = req[r].booked,
           rec.target = req[r].target, Written(r)' = Written(r)
    PROVE  RestoreInv'
<1>1. req'[r] = rec /\ \A u \in Request : u # r => req'[u] = req[u]
  BY DEF ReversalInv, TypeOK
<1>2. TakesOn(r) /\ ~Committed(r)
  BY <1>1 DEF TakesOn, Committed
<1>3. \A u \in Request : Sold(u)' = Sold(u)
  BY DEF Sold
<1> QED BY <1>1, <1>2, <1>3, StepOfOne

LEMMA SaleLockRestore ==
    ASSUME ReversalInv, RestoreInv, NEW r \in Request, SaleLock(r), ~Fail(r)
    PROVE  RestoreInv'
<1> DEFINE rec == Advance(r, "lock", "read")
<1>1. req' = [req EXCEPT ![r] = rec] /\ txn' = txn /\ req[r].pc = "lock"
  BY DEF SaleLock, At
<1>2. req[r] \in RequestState
  BY DEF ReversalInv, TypeOK
<1>3. /\ rec.kind = req[r].kind /\ rec.lines = req[r].lines /\ rec.booked = req[r].booked
      /\ rec.target = req[r].target /\ rec.pc \in {"lock", "read"}
      /\ rec.pc = "read" => rec.i = 1
  BY <1>2 DEF Advance, RequestState
<1> HIDE DEF rec
<1>4. Written(r) = 0
  BY <1>1 DEF Written
<1>5. req'[r] = rec
  BY <1>1 DEF ReversalInv, TypeOK
<1>6. Written(r)' = 0
  BY <1>3, <1>5 DEF Written
<1> QED BY <1>1, <1>3, <1>4, <1>6, InternalRestore

LEMMA ClaimRestore ==
    ASSUME ReversalInv, RestoreInv, NEW r \in Request, Claim(r), ~Fail(r)
    PROVE  RestoreInv'
<1> DEFINE rec == [req[r] EXCEPT !.pc = IF req[r].lines = <<>> THEN "commit" ELSE "read"]
<1>1. req' = [req EXCEPT ![r] = rec] /\ txn' = txn /\ req[r].pc = "claim"
  BY DEF Claim, At, ReversalInv, TypeOK
<1>2. req[r] \in RequestState /\ req[r].i = 1
  BY <1>1 DEF ReversalInv, TypeOK, Indexed
<1>3. /\ rec.kind = req[r].kind /\ rec.lines = req[r].lines /\ rec.booked = req[r].booked
      /\ rec.target = req[r].target /\ rec.i = 1
      /\ rec.pc = IF req[r].lines = <<>> THEN "commit" ELSE "read"
  BY <1>2 DEF RequestState
<1> HIDE DEF rec
<1>4. Written(r) = 0
  BY <1>1 DEF Written
<1>5. req'[r] = rec
  BY <1>1 DEF ReversalInv, TypeOK
<1>6. Written(r)' = 0
  BY <1>3, <1>5 DEF Written
<1>7. rec.pc \in {"commit", "read"}
  BY <1>3
<1> QED BY <1>1, <1>3, <1>4, <1>6, <1>7, InternalRestore

LEMMA ReadRowRestore ==
    ASSUME ReversalInv, RestoreInv, NEW r \in Request, ReadRow(r)
    PROVE  RestoreInv'
<1> DEFINE rec == [req[r] EXCEPT !.seen[Current(r).row] = Sees(r, Current(r).row),
                                 !.pc = "write"]
<1>1. req' = [req EXCEPT ![r] = rec] /\ txn' = txn /\ req[r].pc = "read"
  BY DEF ReadRow, At, ReversalInv, TypeOK
<1>2. req[r] \in RequestState
  BY DEF ReversalInv, TypeOK
<1>3. /\ rec.kind = req[r].kind /\ rec.lines = req[r].lines /\ rec.booked = req[r].booked
      /\ rec.target = req[r].target /\ rec.i = req[r].i /\ rec.pc = "write"
  BY <1>2 DEF RequestState
<1> HIDE DEF rec
<1>4. Written(r) = req[r].i - 1
  BY <1>1 DEF Written
<1>5. req'[r] = rec
  BY <1>1 DEF ReversalInv, TypeOK
<1>6. Written(r)' = req[r].i - 1
  BY <1>3, <1>5 DEF Written
<1> QED BY <1>1, <1>3, <1>4, <1>6, InternalRestore

LEMMA WriteRowRestore ==
    ASSUME ReversalInv, RestoreInv, NEW r \in Request, WriteRow(r)
    PROVE  RestoreInv'
<1>1. \/ Sells(r) /\ WroteLine(r, -Current(r).qty)
      \/ Restores(r) /\ WroteLine(r, Current(r).qty)
      \/ ~Sells(r) /\ ~Restores(r)
  BY WroteLineHolds
<1>2. req[r].pc = "write" /\ txn' = txn
  BY DEF WriteRow, At
<1>3. \A u \in Request : u # r => req'[u] = req[u]
  BY DEF WriteRow, ReversalInv, TypeOK
<1>4. BookedAsListed(r)' \/ NoLineOf(r)
  <2>1. CASE Sells(r) /\ WroteLine(r, -Current(r).qty)
    BY <2>1, WriteSaleRestore DEF RestoreInv
  <2>2. CASE Restores(r) /\ WroteLine(r, Current(r).qty)
    BY <2>2, WriteRestoreRestore
  <2>3. CASE ~Sells(r) /\ ~Restores(r)
    <3>1. req'[r].kind = req[r].kind
      BY DEF WriteRow, WithMovement, Advance, ReversalInv, TypeOK, RequestState
    <3> QED BY <2>3, <3>1 DEF NoLineOf, Sells, Restores
  <2> QED BY <1>1, <2>1, <2>2, <2>3
<1>5. \A u \in Request : Sold(u)' = Sold(u)
  BY <1>2 DEF Sold
<1>6. ~Committed(r)
  BY <1>2 DEF Committed
<1> QED BY <1>3, <1>4, <1>5, <1>6, StepOfOne

LEMMA TransferRestore ==
    ASSUME ReversalInv, RestoreInv, NEW r \in Request,
           (TransferLock(r) /\ ~Fail(r)) \/ TransferCommit(r)
    PROVE  RestoreInv'
<1>1. req[r].kind = "transfer" /\ ~Committed(r) /\ txn' = txn
  BY DEF TransferLock, TransferCommit, At, Committed
<1>2. \A u \in Request : u # r => req'[u] = req[u]
  BY DEF TransferLock, TransferCommit, ReversalInv, TypeOK
<1>3. req'[r].kind = "transfer"
  <2>1. CASE TransferLock(r) /\ ~Fail(r)
    <3> DEFINE rec == [Advance(r, "lock", "write")
                          EXCEPT !.seen[Current(r).row] = Sees(r, Current(r).row)]
    <3>1. req' = [req EXCEPT ![r] = rec]
      BY <2>1 DEF TransferLock
    <3>2. req[r] \in RequestState
      BY DEF ReversalInv, TypeOK
    <3>3. rec.kind = req[r].kind
      BY <3>2 DEF Advance, RequestState
    <3> HIDE DEF rec
    <3>4. req'[r] = rec
      BY <3>1 DEF ReversalInv, TypeOK
    <3> QED BY <1>1, <3>3, <3>4
  <2>2. CASE TransferCommit(r)
    BY <1>1, <2>2 DEF TransferCommit, ReversalInv, TypeOK, RequestState
  <2> QED BY <2>1, <2>2
<1>4. NoLineOf(r)
  BY <1>3 DEF NoLineOf, RestoreKinds
<1>5. \A u \in Request : Sold(u)' = Sold(u)
  BY <1>1 DEF Sold
<1> QED BY <1>1, <1>2, <1>4, <1>5, StepOfOne

\* The commit of a sale writes its record; that of a reversal the status of
\* the record it claimed, and the record of a refund.
LEMMA CommitRestore ==
    ASSUME ReversalInv, RestoreInv, NEW r \in Request, SaleCommit(r) \/ ReverseCommit(r)
    PROVE  RestoreInv'
<1>1. /\ req[r].pc = "commit" /\ req' = [req EXCEPT ![r].pc = "done"]
  BY DEF SaleCommit, ReverseCommit, At
<1>2. /\ req'[r] = [req[r] EXCEPT !.pc = "done"] /\ req[r] \in RequestState
      /\ \A u \in Request : u # r => req'[u] = req[u]
  BY <1>1 DEF ReversalInv, TypeOK
<1>3. /\ req'[r].kind = req[r].kind /\ req'[r].lines = req[r].lines
      /\ req'[r].booked = req[r].booked /\ req'[r].target = req[r].target
      /\ req'[r].pc = "done"
  BY <1>2 DEF RequestState
<1>4. Written(r) = Len(req[r].lines)
  BY <1>1 DEF Written
<1>5. Written(r)' = Len(req[r].lines)
  BY <1>3 DEF Written
<1>6. txn \in [Request -> TxnRecord]
  BY DEF ReversalInv, TypeOK
<1>7. \A u \in Request : Committed(u) => Sold(u)' = Sold(u)
  <2> SUFFICES ASSUME NEW u \in Request, u # r PROVE txn'[u].lines = txn[u].lines
    BY <1>1 DEF Sold, Committed
  <2>1. txn[u] \in TxnRecord
    BY <1>6
  <2>2. \/ txn'[u] = txn[u]
        \/ txn'[u] = [txn[u] EXCEPT !.status = "VOIDED"]
        \/ txn'[u] = [txn[u] EXCEPT !.status = "REFUNDED"]
    <3>1. CASE SaleCommit(r)
      BY <1>6, <3>1 DEF SaleCommit
    <3>2. CASE ReverseCommit(r)
      BY <1>6, <3>2 DEF ReverseCommit
    <3> QED BY <3>1, <3>2
  <2> QED BY <2>1, <2>2 DEF TxnRecord
<1>8. Sells(r) => Sold(r)' = req[r].lines
  <2>1. Sells(r) => SaleCommit(r)
    BY DEF Sells, ReverseCommit, RestoreKinds
  <2>2. SaleCommit(r) => txn'[r] = [status |-> "COMPLETED", lines |-> req[r].lines]
    BY <1>6 DEF SaleCommit
  <2> QED BY <2>1, <2>2 DEF Sold
<1>9. TakesOn(r) /\ ~Committed(r)
  BY <1>1, <1>3, <1>4, <1>5, <1>8 DEF TakesOn, Committed
<1> QED BY <1>2, <1>7, <1>9, StepOfOne

LEMMA StepRestore ==
    ASSUME ReversalInv, RestoreInv, NEW r \in Request, Step(r) \/ Crash(r)
    PROVE  RestoreInv'
<1>1. DeadlockVictim(r) => Running(req[r]) /\ Fail(r)
  BY RequestAssumption DEF DeadlockVictim, Ring, BlockedBy, Running
<1>2. Crash(r) => Running(req[r]) /\ Fail(r)
  BY DEF Crash, InTransaction, Running
<1>3. SaleLock(r) \/ TransferLock(r) \/ Claim(r) => Running(req[r])
  BY DEF SaleLock, TransferLock, Claim, At, Running
<1>4. Running(req[r]) => ~Committed(r)
  BY DEF Running, Committed
<1>5. CASE Fail(r) /\ Running(req[r])
  BY <1>4, <1>5, FailRestore
<1>6. CASE SaleLock(r) /\ ~Fail(r)
  BY <1>6, SaleLockRestore
<1>7. CASE (TransferLock(r) /\ ~Fail(r)) \/ TransferCommit(r)
  BY <1>7, TransferRestore
<1>8. CASE Claim(r) /\ ~Fail(r)
  BY <1>8, ClaimRestore
<1>9. CASE ReadRow(r)
  BY <1>9, ReadRowRestore
<1>10. CASE WriteRow(r)
  BY <1>10, WriteRowRestore
<1>11. CASE SaleCommit(r) \/ ReverseCommit(r)
  BY <1>11, CommitRestore
<1> QED
  BY <1>1, <1>2, <1>3, <1>5, <1>6, <1>7, <1>8, <1>9, <1>10, <1>11 DEF Step

\* A request that does nothing keeps what it booked.
LEMMA StutterRestore == RestoreInv /\ UNCHANGED vars => RestoreInv'
<1> SUFFICES ASSUME RestoreInv, UNCHANGED vars PROVE RestoreInv'
  OBVIOUS
<1>1. req' = req /\ txn' = txn
  BY DEF vars
<1> QED
  BY <1>1 DEF RestoreInv, BookedAsListed, Sells, Restores, SoldAsBooked, RestoredAsBooked,
              CoveredBy, InPartsOf, BookedByEntry, Written, Sold, Committed

\* What the invariant says of a reversal that is done.
LEMMA RestoreWithin ==
    ASSUME ReversalInv, RestoreInv
    PROVE  RestoredWithinSold
<1> SUFFICES ASSUME NEW r \in Request, NEW t \in Request, Reverses(r, t), Restores(r), Sells(t),
                    req[r].lines = Sold(t) \/ NamesOnce(req[r].lines), NEW x \in Row
             PROVE  req[r].booked[x] <= -req[t].booked[x]
  BY DEF RestoredWithinSold, Restores, Sells
<1>1. req[r].target = t /\ req[r].pc = "done" /\ Committed(t)
  BY TargetIsDone DEF Reverses, Committed
<1>2. Written(r) = Len(req[r].lines)
  BY <1>1 DEF Written
<1>3. CoveredBy(r, t) /\ InPartsOf(r, t) /\ BookedByEntry(r)
  BY <1>1 DEF RestoreInv, BookedAsListed, RestoredAsBooked
<1>4. /\ \A y \in Row : req[t].booked[y] <= 0 /\ req[t].booked[y] \in Int
      /\ \A k \in 1 .. Len(Sold(t)) : /\ Sold(t)[k] \in Line
                                      /\ Sold(t)[k].qty <= -req[t].booked[Sold(t)[k].row]
  <2>1. /\ \A y \in Row : req[t].booked[y] <= 0
        /\ \A k \in 1 .. Len(Sold(t)) : Sold(t)[k].qty <= -req[t].booked[Sold(t)[k].row]
    BY <1>1, RecordSums DEF RestoreInv
  <2>2. \A y \in Row : req[t].booked[y] \in Int
    BY DEF ReversalInv, TypeOK, RequestState
  <2>3. Sold(t) \in Seq(Line)
    BY DEF ReversalInv, TypeOK, TxnRecord, Sold
  <2> QED BY <2>1, <2>2, <2>3, ElementOfSeq
<1>5. CASE req[r].lines = Sold(t)
  <2>1. PICK B : /\ Sums(Sold(t), Len(Sold(t)), B)
                 /\ \A y \in Row : /\ req[t].booked[y] = -B[Len(Sold(t))][y]
                                   /\ req[r].booked[y] = B[Written(r)][y]
    BY <1>3, <1>5 DEF InPartsOf
  <2>2. Len(Sold(t)) \in Nat
    BY LenProperties DEF ReversalInv, TypeOK, TxnRecord, Sold
  <2>3. PICK b \in Int : b = B[Len(Sold(t))][x]
    BY <2>1, <2>2 DEF Sums
  <2>4. req[r].booked[x] = b /\ req[t].booked[x] = -b
    BY <1>2, <1>5, <2>1, <2>3
  <2> QED BY <2>4
<1>6. CASE NamesOnce(req[r].lines)
  <2>1. CASE req[r].booked[x] = 0
    BY <1>4, <2>1
  <2>2. CASE \E k \in 1 .. Len(req[r].lines) :
                req[r].lines[k].row = x /\ req[r].booked[x] = req[r].lines[k].qty
    <3>1. PICK k \in 1 .. Len(req[r].lines) :
             req[r].lines[k].row = x /\ req[r].booked[x] = req[r].lines[k].qty
      BY <2>2
    <3>2. PICK j \in 1 .. Len(Sold(t)) :
             Sold(t)[j].row = x /\ req[r].booked[x] <= Sold(t)[j].qty
      BY <1>3, <3>1 DEF CoveredBy
    <3>3. Sold(t)[j].qty <= -req[t].booked[x]
      BY <1>4, <3>2
    <3>4. Sold(t)[j].qty \in Int /\ req[r].booked[x] \in Int /\ req[t].booked[x] \in Int
      <4>1. Sold(t)[j].qty \in Int /\ req[t].booked[x] \in Int
        BY <1>4 DEF Line
      <4>2. req[r] \in RequestState
        BY DEF ReversalInv, TypeOK
      <4> QED BY <4>1, <4>2 DEF RequestState
    <3>5. PICK a \in Int, b \in Int, c \in Int :
             a = req[r].booked[x] /\ b = Sold(t)[j].qty /\ c = req[t].booked[x]
      BY <3>4
    <3> QED BY <3>2, <3>3, <3>5
  <2> QED BY <1>2, <1>3, <1>6, <2>1, <2>2 DEF BookedByEntry
<1> QED BY <1>5, <1>6

\* However sales, voids, refunds and payment reversals interleave, fail and
\* crash, a void or a refund puts back, in each row, at most what its sale took,
\* when the refund lists all items or each product once.
THEOREM RestoredAreSold == Spec => []RestoredWithinSold
<1>1. Init => RestoreInv
  BY DEF Init, RestoreInv, BookedAsListed, Sells, Restores, Fresh, RestoreKinds
<1>2. ReversalInv /\ RestoreInv /\ [Next]_vars => RestoreInv'
  <2> SUFFICES ASSUME ReversalInv, RestoreInv, [Next]_vars PROVE RestoreInv'
    OBVIOUS
  <2>1. CASE UNCHANGED vars
    BY <2>1, StutterRestore
  <2>2. CASE \E r \in Request : Arrival(r)
    BY <2>2, ArrivalRestore
  <2>3. CASE \E r \in Request : Step(r) \/ Crash(r)
    BY <2>3, StepRestore
  <2> QED BY <2>1, <2>2, <2>3 DEF Next
<1>3. ReversalInv /\ RestoreInv => RestoredWithinSold
  BY RestoreWithin
<1> QED
  BY <1>1, <1>2, <1>3, ReversalInvariant, PTL DEF Spec

-----------------------------------------------------------------------------
(***************************************************************************)
(* The quantities: while only the row-locked routes are offered - sales,   *)
(* credit sales, transfers, adjustments - no update is lost and nothing is *)
(* sold that is not there, for every set of rows, requests and carts.      *)
(***************************************************************************)
LEMMA LinesLocked ==
    ASSUME TypeInv, NEW r \in Request, Looping(r)
    PROVE  /\ req[r].i \in DOMAIN req[r].lines
           /\ LockedLines(r) \subseteq DOMAIN req[r].lines
           /\ Unwritten(r) \subseteq LockedLines(r)
           /\ \A k \in DOMAIN req[r].lines :
                 req[r].lines[k].row \in Row /\ req[r].lines[k].qty \in Int
<1>1. /\ req[r].lines \in Seq(Line)
      /\ req[r].i \in Nat \ {0} /\ req[r].i <= Len(req[r].lines)
  BY DEF TypeInv, TypeOK, Indexed, RequestState
<1>2. DOMAIN req[r].lines = 1 .. Len(req[r].lines) /\ Len(req[r].lines) \in Nat
  BY <1>1
<1>3. \A k \in DOMAIN req[r].lines : req[r].lines[k] \in Line
  BY <1>1
<1>. QED
  BY <1>1, <1>2, <1>3 DEF LockedLines, Unwritten, Line

(***************************************************************************)
(* What a step of r leaves alone: rows that another request owns, and      *)
(* nobody but r and its own rows change hands.                             *)
(***************************************************************************)
OwnRowsOnly(r) ==
    \A x \in Row :
        \/ lock'[x] = lock[x] /\ work'[x] = work[x] /\ qty'[x] = qty[x]
        \/ lock[x] \in {r, NoRequest} /\ lock'[x] \in {r, NoRequest}

LEMMA OthersKeep ==
    ASSUME TypeInv, NEW r \in Request, NEW q \in Request, q # r,
           OwnRowsOnly(r), req'[q] = req[q], Pending(q), SeenIsCurrent(q)
    PROVE  Pending(q)' /\ SeenIsCurrent(q)'
<1>1. \A x \in Row : /\ lock'[x] = q <=> lock[x] = q
                     /\ lock[x] = q => work'[x] = work[x] /\ qty'[x] = qty[x]
  BY RequestAssumption DEF OwnRowsOnly
<1>2. Pending(q)'
  BY <1>1 DEF Pending, InTransaction
<1>3. SeenIsCurrent(q)'
  <2>1. CASE ~Looping(q)
    BY <2>1 DEF SeenIsCurrent, Looping
  <2>2. CASE Looping(q)
    <3>1. /\ LockedLines(q)' = LockedLines(q) /\ Unwritten(q)' = Unwritten(q)
          /\ Current(q)' = Current(q) /\ (At(q, "write"))' = At(q, "write")
          /\ (At(q, "read"))' = At(q, "read") /\ Looping(q)'
      BY <2>2 DEF LockedLines, Unwritten, Current, At, Looping
    <3>2. \A k \in LockedLines(q) :
             lock[req[q].lines[k].row] = q /\ req[q].lines[k].row \in Row
      BY <2>2, LinesLocked DEF SeenIsCurrent
    <3>3. At(q, "write") => req[q].i \in LockedLines(q)
      BY <2>2, LinesLocked DEF LockedLines, At
    <3>4. \A k \in Unwritten(q) : k \in LockedLines(q)
      BY <2>2, LinesLocked
    <3>. QED
      BY <1>1, <2>2, <3>1, <3>2, <3>3, <3>4 DEF SeenIsCurrent, Current, At
  <2>. QED
    BY <2>1, <2>2
<1>. QED
  BY <1>2, <1>3

LEMMA AdvanceFields ==
    ASSUME TypeInv, NEW r \in Request, NEW a, NEW b
    PROVE  /\ Advance(r, a, b).pc = IF LastLine(r) THEN b ELSE a
           /\ Advance(r, a, b).i = IF LastLine(r) THEN 1 ELSE req[r].i + 1
           /\ Advance(r, a, b).kind = req[r].kind
           /\ Advance(r, a, b).lines = req[r].lines
           /\ Advance(r, a, b).seen = req[r].seen
           /\ Advance(r, a, b).moved = req[r].moved
           /\ Advance(r, a, b).booked = req[r].booked
           /\ Advance(r, a, b).target = req[r].target
           /\ DOMAIN Advance(r, a, b) = DOMAIN req[r]
BY DEF TypeInv, TypeOK, RequestState, Advance

(***************************************************************************)
(* The part of LedgerInv that speaks of one request, and its preservation: *)
(* a step of r has to be looked at for r only.                             *)
(***************************************************************************)
Booked(r) == req[r].kind \notin RestoreKinds /\ Pending(r) /\ SeenIsCurrent(r)

LEMMA OneStep ==
    ASSUME TypeInv, NEW r \in Request, \A q \in Request : Booked(q),
           NEW rec, req' = [req EXCEPT ![r] = rec], OwnRowsOnly(r), Booked(r)'
    PROVE  \A q \in Request : Booked(q)'
<1> SUFFICES ASSUME NEW q \in Request, q # r PROVE Booked(q)'
  OBVIOUS
<1>1. req'[q] = req[q]
  BY DEF TypeInv, TypeOK
<1>. QED
  BY <1>1, OthersKeep DEF Booked

\* A request that is not in a transaction and owns no row has nothing pending.
LEMMA NothingPending ==
    ASSUME NEW r \in Request, req'[r].kind \notin RestoreKinds,
           req'[r].pc \in EndedPC, \A x \in Row : lock'[x] # r
    PROVE  Booked(r)'
BY DEF Booked, Pending, SeenIsCurrent, InTransaction, Looping, EndedPC

LEMMA BeginsEmpty ==
    ASSUME TypeInv, LocksReleased, NEW r \in Request, NEW kind, kind \notin RestoreKinds,
           NEW lines, kind = "transfer" => NamesOnce(lines), NEW target,
           Arrive(r, kind, "lock", lines, target)
    PROVE  Booked(r)' /\ OwnRowsOnly(r)
<1> DEFINE rec == [Fresh EXCEPT !.kind = kind, !.pc = "lock",
                                !.lines = lines, !.target = target]
<1>1. req'[r] = rec /\ UNCHANGED <<qty, work, lock>> /\ At(r, "idle")
  BY DEF Arrive, TypeInv, TypeOK
<1>2. /\ rec.pc = "lock" /\ rec.i = 1 /\ rec.kind = kind /\ rec.lines = lines
      /\ rec.moved = [x \in Row |-> 0]
  BY DEF Fresh
<1> HIDE DEF rec
<1>3. \A x \in Row : lock'[x] # r
  BY <1>1, IdleOwnsNothing
<1>4. Pending(r)'
  BY <1>1, <1>2, <1>3 DEF Pending
<1>5. SeenIsCurrent(r)'
  BY <1>1, <1>2 DEF SeenIsCurrent, LockedLines, Unwritten, At
<1>. QED
  BY <1>1, <1>2, <1>4, <1>5 DEF Booked, OwnRowsOnly

LEMMA FailKeeps ==
    ASSUME TypeInv, NEW r \in Request, Booked(r), Fail(r)
    PROVE  /\ Booked(r)' /\ OwnRowsOnly(r)
           /\ req' = [req EXCEPT ![r] = [req[r] EXCEPT !.pc = "failed"]]
<1>1. req' = [req EXCEPT ![r] = [req[r] EXCEPT !.pc = "failed"]]
  BY DEF Fail
<1>2. req'[r].pc = "failed" /\ req'[r].kind = req[r].kind
  BY <1>1 DEF TypeInv, TypeOK, RequestState
<1>3. \A x \in Row : lock'[x] # r
  BY RequestAssumption DEF Fail, RollbackRows, FreeLocks
<1>4. OwnRowsOnly(r)
  BY DEF Fail, RollbackRows, FreeLocks, OwnRowsOnly
<1>. QED
  BY <1>1, <1>2, <1>3, <1>4, NothingPending DEF Booked, EndedPC

LEMMA CommitKeeps ==
    ASSUME TypeInv, NEW r \in Request, Booked(r), CommitRows(r),
           req' = [req EXCEPT ![r].pc = "done"]
    PROVE  Booked(r)' /\ OwnRowsOnly(r)
<1>1. req'[r].pc = "done" /\ req'[r].kind = req[r].kind
  BY DEF TypeInv, TypeOK, RequestState
<1>2. \A x \in Row : lock'[x] # r
  BY RequestAssumption DEF CommitRows, FreeLocks
<1>3. OwnRowsOnly(r)
  BY DEF CommitRows, FreeLocks, OwnRowsOnly
<1>. QED
  BY <1>1, <1>2, <1>3, NothingPending DEF Booked, EndedPC

\* A commit publishes what the movements of the transaction say.
LEMMA CommitBooks ==
    ASSUME TypeInv, NEW r \in Request, InTransaction(r), Pending(r), NoLostUpdate,
           CommitRows(r)
    PROVE  NoLostUpdate'
<1> SUFFICES ASSUME NEW x \in Row PROVE qty'[x] = InitQty[x] + ledger'[x]
  BY DEF NoLostUpdate
<1>1. /\ qty'[x] = IF lock[x] = r THEN work[x] ELSE qty[x]
      /\ ledger'[x] = ledger[x] + req[r].moved[x]
  BY DEF CommitRows
<1>2. /\ lock[x] = r => work[x] = qty[x] + req[r].moved[x]
      /\ lock[x] # r => req[r].moved[x] = 0
  BY DEF Pending
<1>3. /\ qty[x] \in Int /\ ledger[x] \in Int /\ req[r].moved[x] \in Int
      /\ InitQty[x] \in Int
  BY StockAssumption DEF TypeInv, TypeOK, RequestState
<1>. QED
  BY <1>1, <1>2, <1>3 DEF NoLostUpdate

(***************************************************************************)
(* SELECT ... FOR UPDATE of the current line.                              *)
(***************************************************************************)
LEMMA LockTaken ==
    ASSUME TypeInv, LocksReleased, NEW r \in Request, Looping(r), Booked(r),
           NEW x \in Row, lockInventoryRow(r, x), UNCHANGED <<qty, work>>,
           req'[r].moved = req[r].moved
    PROVE  /\ OwnRowsOnly(r) /\ Pending(r)'
           /\ lock'[x] = r /\ \A y \in Row : lock[y] = r => lock'[y] = r
           /\ Sees(r, x) = work[x]
<1>1. \A y \in Row : lock'[y] = IF y = x THEN r ELSE lock[y]
  BY DEF lockInventoryRow, TypeInv, TypeOK
<1>2. lock[x] = r \/ (lock[x] = NoRequest /\ work[x] = qty[x])
  BY DEF lockInventoryRow, Lockable, LocksReleased
<1>3. InTransaction(r) /\ r # NoRequest
  BY RequestAssumption DEF InTransaction, Looping
<1>4. lock[x] # r => req[r].moved[x] = 0
  BY <1>3 DEF Booked, Pending
<1>5. qty[x] \in Int
  BY DEF TypeInv, TypeOK
<1>6. Pending(r)'
  BY <1>1, <1>2, <1>3, <1>4, <1>5 DEF Booked, Pending
<1>. QED
  BY <1>1, <1>2, <1>3, <1>6 DEF OwnRowsOnly, Sees

LEMMA SaleLockKeeps ==
    ASSUME TypeInv, LocksReleased, NEW r \in Request, Booked(r),
           SaleLock(r), ~Fail(r)
    PROVE  Booked(r)' /\ OwnRowsOnly(r) /\ \E rec : req' = [req EXCEPT ![r] = rec]
<1> DEFINE x   == Current(r).row
           rec == Advance(r, "lock", "read")
<1>1. /\ At(r, "lock") /\ req[r].kind \in {"sale", "credit"}
      /\ lockInventoryRow(r, x) /\ req' = [req EXCEPT ![r] = rec]
      /\ UNCHANGED <<qty, work>>
  BY DEF SaleLock
<1>2. req'[r] = rec
  BY <1>1 DEF TypeInv, TypeOK
<1>3. Looping(r) /\ x \in Row
  BY <1>1, CurrentType DEF Looping, At, TypeInv
<1> HIDE DEF x
<1>4. /\ rec.pc = (IF LastLine(r) THEN "read" ELSE "lock")
      /\ rec.i = (IF LastLine(r) THEN 1 ELSE req[r].i + 1)
      /\ rec.kind = req[r].kind /\ rec.lines = req[r].lines
      /\ rec.moved = req[r].moved
  BY AdvanceFields
<1>5. /\ OwnRowsOnly(r) /\ Pending(r)'
      /\ lock'[x] = r /\ \A y \in Row : lock[y] = r => lock'[y] = r
  BY <1>1, <1>2, <1>3, <1>4, LockTaken
<1> HIDE DEF rec
<1>6. \A k \in LockedLines(r)' : k \in LockedLines(r) \/ k = req[r].i
  <2>1. /\ DOMAIN req[r].lines = 1 .. Len(req[r].lines) /\ Len(req[r].lines) \in Nat
        /\ req[r].i \in Nat
    BY DEF TypeInv, TypeOK, RequestState
  <2>. QED
    BY <1>1, <1>2, <1>4, <2>1 DEF LockedLines, At, LastLine
<1>7. \A k \in LockedLines(r)' : lock'[req'[r].lines[k].row] = r
  BY <1>1, <1>2, <1>3, <1>4, <1>5, <1>6, LinesLocked
     DEF Booked, SeenIsCurrent, x, Current
<1>8. SeenIsCurrent(r)'
  BY <1>1, <1>2, <1>4, <1>7 DEF SeenIsCurrent, At
<1>. QED
  BY <1>1, <1>2, <1>4, <1>5, <1>8 DEF Booked

LEMMA TransferLockKeeps ==
    ASSUME TypeInv, LocksReleased, NEW r \in Request, Booked(r),
           TransferLock(r), ~Fail(r)
    PROVE  Booked(r)' /\ OwnRowsOnly(r) /\ \E rec : req' = [req EXCEPT ![r] = rec]
<1> DEFINE x   == Current(r).row
           adv == Advance(r, "lock", "write")
           rec == [adv EXCEPT !.seen[x] = Sees(r, x)]
<1>1. /\ At(r, "lock") /\ req[r].kind = "transfer"
      /\ lockInventoryRow(r, x) /\ req' = [req EXCEPT ![r] = rec]
      /\ UNCHANGED <<qty, work>>
  BY DEF TransferLock
<1>2. req'[r] = rec
  BY <1>1 DEF TypeInv, TypeOK
<1>3. Looping(r) /\ x \in Row
  BY <1>1, CurrentType DEF Looping, At, TypeInv
<1>4. /\ rec.pc = (IF LastLine(r) THEN "write" ELSE "lock")
      /\ rec.i = (IF LastLine(r) THEN 1 ELSE req[r].i + 1)
      /\ rec.kind = "transfer" /\ rec.lines = req[r].lines
      /\ rec.moved = req[r].moved
      /\ rec.seen = [req[r].seen EXCEPT ![x] = Sees(r, x)]
  <2> DEFINE seen == [adv.seen EXCEPT ![x] = Sees(r, x)]
  <2>1. adv \in RequestState
    BY AdvanceType DEF TypeInv, PCs
  <2>2. /\ adv.pc = (IF LastLine(r) THEN "write" ELSE "lock")
        /\ adv.i = (IF LastLine(r) THEN 1 ELSE req[r].i + 1)
        /\ adv.kind = "transfer" /\ adv.lines = req[r].lines
        /\ adv.moved = req[r].moved /\ adv.seen = req[r].seen
    BY <1>1, AdvanceFields
  <2>3. rec = [adv EXCEPT !.seen = seen]
    OBVIOUS
  <2>4. seen = [req[r].seen EXCEPT ![x] = Sees(r, x)]
    BY <2>2
  <2> HIDE DEF adv, rec, x, seen
  <2>5. /\ rec.pc = adv.pc /\ rec.i = adv.i /\ rec.kind = adv.kind
        /\ rec.lines = adv.lines /\ rec.moved = adv.moved /\ rec.seen = seen
    BY <2>1, <2>3 DEF RequestState
  <2>. QED
    BY <2>2, <2>4, <2>5
<1> HIDE DEF rec, x
<1>5. /\ OwnRowsOnly(r) /\ Pending(r)'
      /\ lock'[x] = r /\ \A y \in Row : lock[y] = r => lock'[y] = r
      /\ Sees(r, x) = work[x]
  BY <1>1, <1>2, <1>3, <1>4, LockTaken
<1>6. /\ req[r].seen \in [Row -> Int]
      /\ DOMAIN req[r].lines = 1 .. Len(req[r].lines) /\ Len(req[r].lines) \in Nat
      /\ req[r].i \in DOMAIN req[r].lines /\ NamesOnce(req[r].lines)
      /\ \A k \in DOMAIN req[r].lines : req[r].lines[k].row \in Row
  BY <1>1, <1>3, LinesLocked DEF TypeInv, TypeOK, RequestState, Booked, SeenIsCurrent
<1>7. \A k \in DOMAIN req[r].lines : k < req[r].i =>
         /\ lock[req[r].lines[k].row] = r
         /\ req[r].seen[req[r].lines[k].row] = work[req[r].lines[k].row]
  BY <1>1, <1>3, <1>6 DEF Booked, SeenIsCurrent, LockedLines, Unwritten, At
<1>8. \A k \in DOMAIN req[r].lines : k <= req[r].i =>
         /\ lock'[req[r].lines[k].row] = r
         /\ rec.seen[req[r].lines[k].row] = work[req[r].lines[k].row]
  <2> SUFFICES ASSUME NEW k \in DOMAIN req[r].lines, k <= req[r].i
               PROVE  /\ lock'[req[r].lines[k].row] = r
                      /\ rec.seen[req[r].lines[k].row] = work[req[r].lines[k].row]
    OBVIOUS
  <2>1. CASE k = req[r].i
    BY <1>3, <1>4, <1>5, <1>6, <2>1 DEF x, Current
  <2>2. CASE k # req[r].i
    <3>1. req[r].lines[k].row # x
      BY <1>6, <2>2 DEF x, Current, NamesOnce
    <3>. QED
      BY <1>4, <1>5, <1>6, <1>7, <2>2, <3>1
  <2>. QED
    BY <2>1, <2>2
<1>9. \A k \in LockedLines(r)' \cup Unwritten(r)' :
         k \in DOMAIN req[r].lines /\ k <= req[r].i
  BY <1>1, <1>2, <1>4, <1>6 DEF LockedLines, Unwritten, At, LastLine
<1>10. SeenIsCurrent(r)'
  <2>1. At(r, "write")' => Current(r)' = req[r].lines[1] /\ 1 \in DOMAIN req[r].lines
                           /\ 1 <= req[r].i
    BY <1>2, <1>4, <1>6 DEF At, Current
  <2>. QED
    BY <1>1, <1>2, <1>4, <1>6, <1>8, <1>9, <2>1, SMTT(30) DEF SeenIsCurrent, At
<1>. QED
  BY <1>1, <1>2, <1>4, <1>5, <1>10 DEF Booked, RestoreKinds

(***************************************************************************)
(* The loop: a quantity is read, and written, under the row lock.          *)
(***************************************************************************)
LEMMA ReadRowKeeps ==
    ASSUME TypeInv, NEW r \in Request, Booked(r), ReadRow(r)
    PROVE  Booked(r)' /\ OwnRowsOnly(r) /\ \E rec : req' = [req EXCEPT ![r] = rec]
<1> DEFINE x    == Current(r).row
           seen == [req[r].seen EXCEPT ![x] = Sees(r, x)]
           rec  == [req[r] EXCEPT !.seen = seen, !.pc = "write"]
<1>1. /\ At(r, "read") /\ UNCHANGED <<qty, work, lock>>
      /\ req' = [req EXCEPT ![r] = rec]
  BY DEF ReadRow, TypeInv, TypeOK
<1>2. Looping(r) /\ x \in Row /\ req[r] \in RequestState
  BY <1>1, CurrentType DEF Looping, At, TypeInv, TypeOK
<1>3. /\ lock[x] = r /\ req[r].kind # "transfer"
      /\ \A k \in DOMAIN req[r].lines : lock[req[r].lines[k].row] = r
  BY <1>1, <1>2, LinesLocked DEF Booked, SeenIsCurrent, LockedLines, At, x, Current
<1> HIDE DEF x
<1>4. req'[r] = rec
  BY <1>1 DEF TypeInv, TypeOK
<1>5. /\ rec.pc = "write" /\ rec.i = req[r].i /\ rec.kind = req[r].kind
      /\ rec.lines = req[r].lines /\ rec.moved = req[r].moved
      /\ rec.seen[x] = work[x]
  BY <1>2, <1>3 DEF RequestState, Sees
<1> HIDE DEF rec
<1>6. Pending(r)'
  BY <1>1, <1>2, <1>4, <1>5 DEF Booked, Pending, InTransaction, Looping
<1>7. SeenIsCurrent(r)'
  BY <1>1, <1>3, <1>4, <1>5 DEF SeenIsCurrent, LockedLines, At, x, Current
<1>. QED
  BY <1>1, <1>4, <1>5, <1>6, <1>7 DEF Booked, OwnRowsOnly

LEMMA WriteRowKeeps ==
    ASSUME TypeInv, NEW r \in Request, Booked(r), WriteRow(r)
    PROVE  Booked(r)' /\ OwnRowsOnly(r) /\ \E rec : req' = [req EXCEPT ![r] = rec]
<1> DEFINE l    == Current(r)
           x    == l.row
           kind == req[r].kind
           seen == req[r].seen[x]
           new  == NewQty(kind, seen, l.qty)
           next == IF kind = "transfer" THEN "write" ELSE "read"
           adv  == Advance(r, next, "commit")
           signed == Signed(kind, l.qty)
           rec  == WithMovement(adv, x, new - seen, signed)
<1>1. /\ At(r, "write") /\ UNCHANGED qty
      /\ lock' = [lock EXCEPT ![x] = r]
      /\ work' = [work EXCEPT ![x] = new]
      /\ req' = [req EXCEPT ![r] = rec]
  BY DEF WriteRow, UpdateRow
<1>2. Looping(r) /\ x \in Row /\ l.qty \in Int /\ seen \in Int
  BY <1>1, CurrentType DEF Looping, At, TypeInv
<1>3. new \in Int /\ signed \in Int
  BY <1>2, NewQtyType
<1>4. /\ DOMAIN req[r].lines = 1 .. Len(req[r].lines) /\ Len(req[r].lines) \in Nat
      /\ req[r].i \in DOMAIN req[r].lines
      /\ req[r].moved \in [Row -> Int] /\ req[r].seen \in [Row -> Int]
      /\ \A k \in DOMAIN req[r].lines : req[r].lines[k].row \in Row
  BY <1>2, LinesLocked DEF TypeInv, TypeOK, RequestState
<1>5. /\ \A k \in DOMAIN req[r].lines : lock[req[r].lines[k].row] = r
      /\ lock[x] = r /\ seen = work[x]
      /\ kind = "transfer" =>
            /\ NamesOnce(req[r].lines)
            /\ \A k \in req[r].i .. Len(req[r].lines) :
                  req[r].seen[req[r].lines[k].row] = work[req[r].lines[k].row]
  BY <1>1, <1>2, <1>4 DEF Booked, SeenIsCurrent, LockedLines, Unwritten, At, Current
<1>6. /\ rec.pc = (IF LastLine(r) THEN "commit" ELSE next)
      /\ rec.i = (IF LastLine(r) THEN 1 ELSE req[r].i + 1)
      /\ rec.kind = kind /\ rec.lines = req[r].lines /\ rec.seen = req[r].seen
      /\ rec.moved = [req[r].moved EXCEPT ![x] = req[r].moved[x] + (new - seen)]
  <2>1. adv \in RequestState
    BY AdvanceType DEF TypeInv, PCs
  <2>2. /\ adv.pc = (IF LastLine(r) THEN "commit" ELSE next)
        /\ adv.i = (IF LastLine(r) THEN 1 ELSE req[r].i + 1)
        /\ adv.kind = kind /\ adv.lines = req[r].lines
        /\ adv.moved = req[r].moved /\ adv.seen = req[r].seen
    BY AdvanceFields
  <2> HIDE DEF adv, x, new, seen, signed
  <2>3. /\ rec.pc = adv.pc /\ rec.i = adv.i /\ rec.kind = adv.kind
        /\ rec.lines = adv.lines /\ rec.seen = adv.seen
        /\ rec.moved = [adv.moved EXCEPT ![x] = adv.moved[x] + (new - seen)]
    BY <2>1 DEF WithMovement, RequestState
  <2>. QED
    BY <2>2, <2>3
<1>7. req'[r] = rec
  BY <1>1 DEF TypeInv, TypeOK
<1>8. /\ lock' = lock
      /\ \A y \in Row : work'[y] = IF y = x THEN new ELSE work[y]
      /\ work[x] \in Int /\ qty[x] \in Int
  BY <1>1, <1>2, <1>5 DEF TypeInv, TypeOK
<1> HIDE DEF rec, adv, new, seen, signed, kind, next
<1>9. Pending(r)'
  <2>1. work[x] = qty[x] + req[r].moved[x]
    BY <1>2, <1>5 DEF Booked, Pending
  <2>2. InTransaction(r)
    BY <1>1 DEF InTransaction, At
  <2>3. \A y \in Row : lock[y] # r => rec.moved[y] = 0
    BY <1>4, <1>5, <1>6, <2>2 DEF Booked, Pending
  <2>4. work'[x] = qty[x] + rec.moved[x]
    <3> HIDE DEF x
    <3>1. rec.moved[x] = req[r].moved[x] + (new - seen)
      BY <1>2, <1>4, <1>6
    <3>2. req[r].moved[x] \in Int /\ work'[x] = new
      BY <1>2, <1>4, <1>8
    <3>. QED
      BY <1>2, <1>3, <1>5, <1>8, <2>1, <3>1, <3>2
  <2>5. \A y \in Row : lock[y] = r => work'[y] = qty[y] + rec.moved[y]
    BY <1>4, <1>6, <1>8, <2>4 DEF Booked, Pending
  <2>. QED
    BY <1>1, <1>7, <1>8, <2>3, <2>5 DEF Pending
<1>10. SeenIsCurrent(r)'
  <2>1. CASE LastLine(r)
    BY <1>6, <1>7, <2>1 DEF SeenIsCurrent, Looping
  <2>2. CASE ~LastLine(r)
    <3>1. /\ rec.pc = next /\ rec.i = req[r].i + 1 /\ next \in {"read", "write"}
          /\ rec.i \in req[r].i .. Len(req[r].lines)
      BY <1>4, <1>6, <2>2 DEF LastLine, next
    <3>2. kind = "transfer" => \A k \in rec.i .. Len(req[r].lines) :
             rec.seen[req[r].lines[k].row] = work'[req[r].lines[k].row]
      <4> SUFFICES ASSUME kind = "transfer", NEW k \in rec.i .. Len(req[r].lines)
                   PROVE  rec.seen[req[r].lines[k].row] = work'[req[r].lines[k].row]
        OBVIOUS
      <4>1. k \in DOMAIN req[r].lines /\ k # req[r].i /\ k \in req[r].i .. Len(req[r].lines)
        BY <1>4, <3>1
      <4>2. req[r].lines[k].row # x
        BY <1>4, <1>5, <4>1 DEF NamesOnce, x, l, Current
      <4>. QED
        BY <1>4, <1>5, <1>6, <1>8, <4>1, <4>2
    <3>3. next = "write" => kind = "transfer"
      BY DEF next
    <3>4. kind = "transfer" => next = "write"
      BY DEF next
    <3>5. rec.i \in rec.i .. Len(req[r].lines)
      BY <1>4, <3>1
    <3>6. /\ LockedLines(r)' = DOMAIN req[r].lines
          /\ Unwritten(r)' = rec.i .. Len(req[r].lines)
      BY <1>6, <1>7, <3>1 DEF LockedLines, Unwritten, At
    <3>7. (/\ \A k \in LockedLines(r) : lock[req[r].lines[k].row] = r
           /\ req[r].kind = "transfer" =>
                /\ ~At(r, "read") /\ NamesOnce(req[r].lines)
                /\ \A k \in Unwritten(r) :
                      req[r].seen[req[r].lines[k].row] = work[req[r].lines[k].row])'
      BY <1>5, <1>6, <1>7, <1>8, <3>1, <3>2, <3>4, <3>6 DEF At
    <3>8. (At(r, "write") => req[r].seen[Current(r).row] = work[Current(r).row])'
      BY <1>6, <1>7, <3>1, <3>2, <3>3, <3>5 DEF At, Current
    <3>. QED
      BY <3>7, <3>8 DEF SeenIsCurrent
  <2>. QED
    BY <2>1, <2>2
<1>11. rec.kind = kind /\ kind \notin RestoreKinds
  BY <1>6 DEF Booked, kind
<1>. QED
  BY <1>1, <1>7, <1>8, <1>9, <1>10, <1>11, <1>5 DEF Booked, OwnRowsOnly

(***************************************************************************)
(* An adjustment is a whole transaction in one step; a reversal through    *)
(* the payments module touches no row.                                     *)
(***************************************************************************)
LEMMA AdjustKeeps ==
    ASSUME TypeInv, LocksReleased, NoLostUpdate, NEW r \in Request, Adjust(r)
    PROVE  /\ Booked(r)' /\ OwnRowsOnly(r) /\ NoLostUpdate'
           /\ \E rec : req' = [req EXCEPT ![r] = rec]
<1>1. PICK x \in Row, n \in Adjustments :
         LET new == NonNeg(qty[x] + n) IN
        /\ lock[x] = NoRequest
        /\ qty'    = [qty EXCEPT ![x] = new]
        /\ work'   = [work EXCEPT ![x] = new]
        /\ ledger' = [ledger EXCEPT ![x] = @ + (new - qty[x])]
        /\ req'    = [req EXCEPT ![r] =
                         WithMovement([Fresh EXCEPT !.kind = "adjust",
                                                    !.pc = "done"],
                                      x, new - qty[x], n)]
        /\ UNCHANGED lock
  BY DEF Adjust
<1> DEFINE new == NonNeg(qty[x] + n)
<1>2. n \in Int /\ qty[x] \in Int /\ new \in Int
  BY AdjustAssumption DEF NonNeg, TypeInv, TypeOK
<1>3. /\ \A y \in Row : qty'[y] = IF y = x THEN new ELSE qty[y]
      /\ \A y \in Row : work'[y] = IF y = x THEN new ELSE work[y]
      /\ \A y \in Row : ledger'[y] = IF y = x THEN ledger[y] + (new - qty[y])
                                              ELSE ledger[y]
      /\ lock' = lock /\ lock[x] = NoRequest
  BY <1>1 DEF TypeInv, TypeOK
<1>4. req'[r].kind = "adjust" /\ req'[r].pc = "done"
  BY <1>1 DEF TypeInv, TypeOK, WithMovement, Fresh
<1>5. \A y \in Row : lock'[y] # r
  BY <1>3, IdleOwnsNothing DEF Adjust
<1>6. Booked(r)'
  BY <1>4, <1>5, NothingPending DEF RestoreKinds, EndedPC
<1>7. OwnRowsOnly(r)
  BY <1>3 DEF OwnRowsOnly
<1> HIDE DEF new
<1>8. \A y \in Row : qty[y] \in Int /\ ledger[y] \in Int /\ InitQty[y] \in Int
  BY StockAssumption DEF TypeInv, TypeOK
<1>9. NoLostUpdate'
  BY <1>2, <1>3, <1>8 DEF NoLostUpdate
<1>. QED
  BY <1>1, <1>6, <1>7, <1>9

LEMMA PaymentKeeps ==
    ASSUME TypeInv, LocksReleased, NEW r \in Request, PaymentReverse(r)
    PROVE  /\ Booked(r)' /\ OwnRowsOnly(r) /\ UNCHANGED <<qty, ledger>>
           /\ \E rec : req' = [req EXCEPT ![r] = rec]
<1>1. PICK t \in Request, kind \in PaymentKinds \cap Kinds :
        /\ req' = [req EXCEPT ![r] = [Fresh EXCEPT !.kind = kind,
                                                   !.pc = "done",
                                                   !.target = t]]
        /\ UNCHANGED <<qty, work, lock, ledger>>
  BY DEF PaymentReverse
<1>2. req'[r].kind = kind /\ req'[r].pc = "done"
  BY <1>1 DEF TypeInv, TypeOK, Fresh
<1>3. \A x \in Row : lock'[x] # r
  BY <1>1, IdleOwnsNothing DEF PaymentReverse
<1>. QED
  BY <1>1, <1>2, <1>3, NothingPending
     DEF OwnRowsOnly, PaymentKinds, RestoreKinds, EndedPC

-----------------------------------------------------------------------------
(***************************************************************************)
(* One step of one request, whatever it is.                                *)
(***************************************************************************)
LockedOnly == Kinds \cap RestoreKinds = {}

LEMMA ArrivalKeeps ==
    ASSUME LockedOnly, TypeInv, LocksReleased, NoLostUpdate,
           NEW r \in Request, Arrival(r)
    PROVE  /\ Booked(r)' /\ OwnRowsOnly(r) /\ NoLostUpdate'
           /\ \E rec : req' = [req EXCEPT ![r] = rec]
<1>1. ASSUME NEW kind, NEW pc, NEW lines, NEW target,
             Arrive(r, kind, pc, lines, target)
      PROVE  /\ kind \notin RestoreKinds /\ NoLostUpdate'
             /\ \E rec : req' = [req EXCEPT ![r] = rec]
  BY <1>1 DEF Arrive, LockedOnly, NoLostUpdate
<1>2. CASE SaleArrive(r)
  <2>1. PICK kind \in {"sale", "credit"}, c \in Carts :
            Arrive(r, kind, "lock", c, NoRequest)
    BY <1>2 DEF SaleArrive
  <2>. QED
    BY <1>1, <2>1, BeginsEmpty
<1>3. CASE TransferArrive(r)
  <2>1. PICK from \in Row, to \in Row, c \in Carts :
            /\ from # to
            /\ Arrive(r, "transfer", "lock", TransferLines(from, to, c[1].qty),
                      NoRequest)
    BY <1>3 DEF TransferArrive
  <2>2. NamesOnce(TransferLines(from, to, c[1].qty))
    BY <2>1 DEF NamesOnce, TransferLines
  <2>. QED
    BY <1>1, <2>1, <2>2, BeginsEmpty
<1>4. ~VoidArrive(r) /\ ~RefundArrive(r)
  BY <1>1 DEF VoidArrive, RefundArrive, RestoreKinds
<1>5. CASE PaymentReverse(r)
  BY <1>5, PaymentKeeps DEF NoLostUpdate
<1>. QED
  BY <1>2, <1>3, <1>4, <1>5, AdjustKeeps DEF Arrival

LEMMA StepKeeps ==
    ASSUME TypeInv, LocksReleased, NoLostUpdate, NEW r \in Request, Booked(r),
           Step(r) \/ Crash(r)
    PROVE  /\ Booked(r)' /\ OwnRowsOnly(r) /\ NoLostUpdate'
           /\ \E rec : req' = [req EXCEPT ![r] = rec]
<1>1. CASE Fail(r)
  <2>1. UNCHANGED <<qty, ledger>>
    BY <1>1 DEF Fail, RollbackRows
  <2>. QED
    BY <1>1, <2>1, FailKeeps DEF NoLostUpdate
<1>2. CASE SaleCommit(r) \/ TransferCommit(r)
  <2>1. /\ CommitRows(r) /\ req' = [req EXCEPT ![r].pc = "done"]
        /\ InTransaction(r) /\ Pending(r)
    BY <1>2 DEF SaleCommit, TransferCommit, At, InTransaction, Booked
  <2>2. \E rec : req' = [req EXCEPT ![r] = rec]
    BY <2>1
  <2>. QED
    BY <2>1, <2>2, CommitKeeps, CommitBooks
<1>3. ~ReverseCommit(r) /\ (Claim(r) => FALSE)
  BY DEF ReverseCommit, Claim, Booked
<1>4. CASE SaleLock(r) /\ ~Fail(r)
  <2>1. UNCHANGED <<qty, ledger>>
    BY <1>4 DEF SaleLock
  <2>. QED
    BY <1>4, <2>1, SaleLockKeeps DEF NoLostUpdate
<1>5. CASE TransferLock(r) /\ ~Fail(r)
  <2>1. UNCHANGED <<qty, ledger>>
    BY <1>5 DEF TransferLock
  <2>. QED
    BY <1>5, <2>1, TransferLockKeeps DEF NoLostUpdate
<1>6. CASE ReadRow(r)
  <2>1. UNCHANGED <<qty, ledger>>
    BY <1>6 DEF ReadRow
  <2>. QED
    BY <1>6, <2>1, ReadRowKeeps DEF NoLostUpdate
<1>7. CASE WriteRow(r)
  <2>1. UNCHANGED <<qty, ledger>>
    BY <1>7 DEF WriteRow
  <2>. QED
    BY <1>7, <2>1, WriteRowKeeps DEF NoLostUpdate
<1>8. (DeadlockVictim(r) \/ Crash(r)) => Fail(r)
  BY DEF DeadlockVictim, Crash
<1>. QED
  BY <1>1, <1>2, <1>3, <1>4, <1>5, <1>6, <1>7, <1>8 DEF Step

AllBooked == \A r \in Request : Booked(r)

LEMMA BookedInvariant ==
    ASSUME LockedOnly
    PROVE  Spec => [](AllBooked /\ NoLostUpdate)
<1>1. Init => AllBooked /\ NoLostUpdate
  <2> SUFFICES ASSUME Init PROVE AllBooked /\ NoLostUpdate
    OBVIOUS
  <2>1. \A x \in Row : InitQty[x] \in Nat
    BY StockAssumption
  <2>2. NoLostUpdate
    BY <2>1 DEF Init, NoLostUpdate
  <2>3. ASSUME NEW r \in Request
        PROVE  Booked(r)
    BY RequestAssumption
       DEF Init, Booked, Fresh, RestoreKinds, Pending, SeenIsCurrent,
           InTransaction, Looping
  <2>. QED
    BY <2>2, <2>3 DEF AllBooked
<1>2. TypeInv /\ LocksReleased /\ AllBooked /\ NoLostUpdate /\ [Next]_vars
         => (AllBooked /\ NoLostUpdate)'
  <2> SUFFICES ASSUME TypeInv, LocksReleased, AllBooked, NoLostUpdate, [Next]_vars
               PROVE  (AllBooked /\ NoLostUpdate)'
    OBVIOUS
  <2>1. CASE UNCHANGED vars
    BY <2>1 DEF vars, AllBooked, Booked, NoLostUpdate, Pending, SeenIsCurrent,
                InTransaction, Looping, LockedLines, Unwritten, Current, At
  <2>2. ASSUME NEW r \in Request, Arrival(r) \/ Step(r) \/ Crash(r)
        PROVE  (AllBooked /\ NoLostUpdate)'
    <3>1. /\ Booked(r)' /\ OwnRowsOnly(r) /\ NoLostUpdate'
          /\ \E rec : req' = [req EXCEPT ![r] = rec]
      BY <2>2, ArrivalKeeps, StepKeeps DEF AllBooked
    <3>. QED
      BY <3>1, OneStep DEF AllBooked
  <2>. QED
    BY <2>1, <2>2 DEF Next
<1>. QED
  BY <1>1, <1>2, TypeInvariant, LocksAreReleased, PTL DEF Spec

\* While voids and refunds are not offered, no interleaving of sales, credit
\* sales, transfers, adjustments and payment reversals, whatever fails and
\* whoever is aborted, loses an update of a row.
THEOREM NothingLost ==
    ASSUME LockedOnly
    PROVE  Spec => []NoLostUpdate
BY BookedInvariant, PTL

\* The strengthening LedgerInv of StockLedger is an invariant then.
LEMMA LedgerInvariant ==
    ASSUME LockedOnly
    PROVE  Spec => []LedgerInv
<1>1. TypeInv /\ LocksReleased /\ AllBooked /\ NoLostUpdate => LedgerInv
  BY DEF LedgerInv, TypeInv, AllBooked, Booked
<1>. QED
  BY <1>1, BookedInvariant, TypeInvariant, LocksAreReleased, PTL

-----------------------------------------------------------------------------
(***************************************************************************)
(* Nothing is sold that is not there: what the locking read found covers   *)
(* the deduction still, because the row was nobody else's in between and   *)
(* no other line of the same cart has drawn on it.                         *)
(***************************************************************************)
CartsDistinct == \A c \in Carts : NamesOnce(c)

LEMMA OthersCovered ==
    ASSUME TypeInv, NEW r \in Request, NEW q \in Request, q # r,
           OwnRowsOnly(r), req'[q] = req[q], Booked(q), Covered(q)
    PROVE  Covered(q)'
<1>1. \A x \in Row : lock[x] = q => work'[x] = work[x]
  BY RequestAssumption DEF OwnRowsOnly
<1>2. CASE ~Looping(q)
  BY <1>2 DEF Covered, Looping
<1>3. CASE Looping(q)
  <2>1. Unwritten(q)' = Unwritten(q) /\ Looping(q)'
    BY <1>3 DEF Unwritten, At, Looping
  <2>2. \A k \in Unwritten(q) :
           lock[req[q].lines[k].row] = q /\ req[q].lines[k].row \in Row
    BY <1>3, LinesLocked DEF Booked, SeenIsCurrent
  <2>. QED
    BY <1>1, <1>3, <2>1, <2>2 DEF Covered
<1>. QED
  BY <1>2, <1>3

RowsNonNeg == \A x \in Row : qty[x] >= 0 /\ work[x] >= 0

\* A request whose transaction ends keeps the movements it has made.
LEMMA EndCovered ==
    ASSUME TypeInv, NEW r \in Request, Covered(r), NEW p \in {"done", "failed"},
           req' = [req EXCEPT ![r].pc = p]
    PROVE  Covered(r)'
<1>1. /\ req'[r].pc = p /\ req'[r].kind = req[r].kind
      /\ req'[r].moved = req[r].moved /\ req'[r].booked = req[r].booked
  BY DEF TypeInv, TypeOK, RequestState
<1>. QED
  BY <1>1 DEF Covered, Looping

LEMMA BeginsCovered ==
    ASSUME TypeInv, NEW r \in Request, NEW kind, NEW lines, NEW target,
           Arrive(r, kind, "lock", lines, target), NamesOnce(lines),
           kind = "transfer" => \A k \in DOMAIN lines : k # 1 => lines[k].qty <= 0
    PROVE  Covered(r)'
<1> DEFINE rec == [Fresh EXCEPT !.kind = kind, !.pc = "lock",
                                !.lines = lines, !.target = target]
<1>1. req'[r] = rec
  BY DEF Arrive, TypeInv, TypeOK
<1>2. /\ rec.pc = "lock" /\ rec.i = 1 /\ rec.kind = kind /\ rec.lines = lines
      /\ rec.moved = [x \in Row |-> 0] /\ rec.booked = [x \in Row |-> 0]
  BY DEF Fresh
<1> HIDE DEF rec
<1>3. Unwritten(r)' = {}
  BY <1>1, <1>2 DEF Unwritten, At
<1>. QED
  BY <1>1, <1>2, <1>3 DEF Covered

(***************************************************************************)
(* A line is locked: what the locking read saw is the row's quantity.      *)
(***************************************************************************)
LEMMA LockCovers ==
    ASSUME TypeInv, NEW r \in Request, At(r, "lock"), Covered(r), NEW rec,
           NEW after \in {"read", "write"},
           req' = [req EXCEPT ![r] = rec], UNCHANGED work,
           rec.pc = (IF LastLine(r) THEN after ELSE "lock"),
           rec.i = (IF LastLine(r) THEN 1 ELSE req[r].i + 1),
           rec.kind = req[r].kind, rec.lines = req[r].lines,
           rec.moved = req[r].moved, rec.booked = req[r].booked,
           work[Current(r).row] >= Current(r).qty
    PROVE  Covered(r)'
<1>1. req'[r] = rec /\ Looping(r)
  BY DEF TypeInv, TypeOK, Looping, At
<1>2. /\ DOMAIN req[r].lines = 1 .. Len(req[r].lines) /\ Len(req[r].lines) \in Nat
      /\ req[r].i \in DOMAIN req[r].lines
  BY <1>1, LinesLocked DEF TypeInv, TypeOK, RequestState
<1>3. \A k \in Unwritten(r)' : k \in Unwritten(r) \/ k = req[r].i
  BY <1>1, <1>2 DEF Unwritten, At, LastLine
<1>4. \A k \in Unwritten(r)' :
         work'[req'[r].lines[k].row] >= req'[r].lines[k].qty
  BY <1>1, <1>3 DEF Covered, Current
<1>. QED
  BY <1>1, <1>4 DEF Covered

LEMMA SaleLockCovers ==
    ASSUME TypeInv, LocksReleased, NEW r \in Request, Booked(r), Covered(r),
           SaleLock(r), ~Fail(r)
    PROVE  Covered(r)' /\ UNCHANGED <<qty, work>>
<1> DEFINE x == Current(r).row
           rec == Advance(r, "lock", "read")
<1>1. /\ At(r, "lock") /\ lockInventoryRow(r, x) /\ UNCHANGED <<qty, work>>
      /\ req' = [req EXCEPT ![r] = rec] /\ Sees(r, x) >= Current(r).qty
  BY DEF SaleLock
<1>2. Looping(r) /\ x \in Row
  BY <1>1, CurrentType DEF Looping, At, TypeInv
<1>3. req'[r].moved = req[r].moved
  BY <1>1, AdvanceFields DEF TypeInv, TypeOK
<1>4. work[x] >= Current(r).qty
  <2> HIDE DEF x
  <2>. QED
    BY <1>1, <1>2, <1>3, LockTaken
<1>5. /\ rec.pc = (IF LastLine(r) THEN "read" ELSE "lock")
      /\ rec.i = (IF LastLine(r) THEN 1 ELSE req[r].i + 1)
      /\ rec.kind = req[r].kind /\ rec.lines = req[r].lines
      /\ rec.moved = req[r].moved /\ rec.booked = req[r].booked
  BY AdvanceFields
<1> HIDE DEF rec
<1>. QED
  BY <1>1, <1>4, <1>5, LockCovers DEF x

LEMMA TransferLockCovers ==
    ASSUME TypeInv, LocksReleased, NEW r \in Request, Booked(r), Covered(r),
           RowsNonNeg, TransferLock(r), ~Fail(r)
    PROVE  Covered(r)' /\ UNCHANGED <<qty, work>>
<1> DEFINE x    == Current(r).row
           adv  == Advance(r, "lock", "write")
           seen == [adv.seen EXCEPT ![x] = Sees(r, x)]
           rec  == [adv EXCEPT !.seen = seen]
<1>1. /\ At(r, "lock") /\ lockInventoryRow(r, x) /\ UNCHANGED <<qty, work>>
      /\ req' = [req EXCEPT ![r] = rec] /\ req[r].kind = "transfer"
      /\ req[r].i = 1 => Sees(r, x) >= Current(r).qty
  BY DEF TransferLock
<1>2. Looping(r) /\ x \in Row /\ Current(r).qty \in Int
  BY <1>1, CurrentType DEF Looping, At, TypeInv
<1>3. adv \in RequestState
  BY AdvanceType DEF TypeInv, PCs
<1>4. /\ adv.pc = (IF LastLine(r) THEN "write" ELSE "lock")
      /\ adv.i = (IF LastLine(r) THEN 1 ELSE req[r].i + 1)
      /\ adv.kind = req[r].kind /\ adv.lines = req[r].lines
      /\ adv.moved = req[r].moved /\ adv.booked = req[r].booked
  BY AdvanceFields
<1> HIDE DEF adv, x, seen
<1>5. /\ rec.pc = adv.pc /\ rec.i = adv.i /\ rec.kind = adv.kind
      /\ rec.lines = adv.lines /\ rec.moved = adv.moved /\ rec.booked = adv.booked
  BY <1>3 DEF RequestState
<1> HIDE DEF rec
<1>6. req'[r] = rec
  BY <1>1 DEF TypeInv, TypeOK
<1>7. Sees(r, x) = work[x]
  BY <1>1, <1>2, <1>4, <1>5, <1>6, LockTaken
<1>8. work[x] >= Current(r).qty
  <2>1. CASE req[r].i = 1
    BY <1>1, <1>7, <2>1
  <2>2. CASE req[r].i # 1
    <3>1. Current(r).qty <= 0
      BY <1>1, <1>2, <2>2, LinesLocked DEF Covered, Current
    <3>2. work[x] \in Int /\ work[x] >= 0
      BY <1>2 DEF RowsNonNeg, TypeInv, TypeOK
    <3>. QED
      BY <1>2, <3>1, <3>2
  <2>. QED
    BY <2>1, <2>2
<1>. QED
  BY <1>1, <1>4, <1>5, <1>8, LockCovers DEF x

LEMMA ReadRowCovers ==
    ASSUME TypeInv, NEW r \in Request, Covered(r), ReadRow(r)
    PROVE  Covered(r)' /\ UNCHANGED <<qty, work>>
<1> DEFINE seen == [req[r].seen EXCEPT ![Current(r).row] = Sees(r, Current(r).row)]
           rec  == [req[r] EXCEPT !.seen = seen, !.pc = "write"]
<1>1. /\ At(r, "read") /\ UNCHANGED <<qty, work>>
      /\ req[r] \in RequestState /\ req'[r] = rec
  BY DEF ReadRow, TypeInv, TypeOK
<1>2. /\ rec.pc = "write" /\ rec.i = req[r].i /\ rec.kind = req[r].kind
      /\ rec.lines = req[r].lines /\ rec.moved = req[r].moved
      /\ rec.booked = req[r].booked
  BY <1>1 DEF RequestState
<1> HIDE DEF rec
<1>. QED
  BY <1>1, <1>2 DEF Covered, Looping, Unwritten, At

(***************************************************************************)
(* The deduction: covered, so it neither goes below zero nor is clamped.   *)
(***************************************************************************)
LEMMA DeductionCovered ==
    ASSUME NEW kind, kind \notin RestoreKinds, NEW q \in Int, NEW n \in Int, q >= n
    PROVE  NewQty(kind, q, n) = q - n /\ Signed(kind, n) = -n
BY DEF NewQty, Signed, SaleNewQty, CreditNewQty, NonNeg, RestoreKinds

LEMMA WriteRowCovers ==
    ASSUME TypeInv, NEW r \in Request, Booked(r), Covered(r), RowsNonNeg, WriteRow(r)
    PROVE  Covered(r)' /\ RowsNonNeg'
<1> DEFINE l    == Current(r)
           x    == l.row
           kind == req[r].kind
           seen == req[r].seen[x]
           new  == NewQty(kind, seen, l.qty)
           next == IF kind = "transfer" THEN "write" ELSE "read"
           adv  == Advance(r, next, "commit")
           signed == Signed(kind, l.qty)
           rec  == WithMovement(adv, x, new - seen, signed)
<1>1. /\ At(r, "write") /\ UNCHANGED qty
      /\ work' = [work EXCEPT ![x] = new]
      /\ req' = [req EXCEPT ![r] = rec]
  BY DEF WriteRow, UpdateRow
<1>2. Looping(r) /\ x \in Row /\ l.qty \in Int /\ seen \in Int
  BY <1>1, CurrentType DEF Looping, At, TypeInv
<1>3. /\ DOMAIN req[r].lines = 1 .. Len(req[r].lines) /\ Len(req[r].lines) \in Nat
      /\ req[r].i \in DOMAIN req[r].lines
      /\ req[r].moved \in [Row -> Int] /\ req[r].booked \in [Row -> Int]
      /\ \A k \in DOMAIN req[r].lines : req[r].lines[k].row \in Row
  BY <1>2, LinesLocked, SMTT(30) DEF TypeInv, TypeOK, RequestState
<1>4. /\ NamesOnce(req[r].lines)
      /\ \A k \in req[r].i .. Len(req[r].lines) :
            work[req[r].lines[k].row] >= req[r].lines[k].qty
      /\ kind = "transfer" =>
            \A k \in DOMAIN req[r].lines : k # 1 => req[r].lines[k].qty <= 0
      /\ kind \in {"sale", "credit"} => req[r].moved = req[r].booked
      /\ kind \notin RestoreKinds /\ seen = work[x]
  BY <1>1, <1>2 DEF Covered, Unwritten, At, Booked, SeenIsCurrent
<1>5. /\ rec.pc = (IF LastLine(r) THEN "commit" ELSE next)
      /\ rec.i = (IF LastLine(r) THEN 1 ELSE req[r].i + 1)
      /\ rec.kind = kind /\ rec.lines = req[r].lines
      /\ rec.moved = [req[r].moved EXCEPT ![x] = req[r].moved[x] + (new - seen)]
      /\ rec.booked = [req[r].booked EXCEPT ![x] = req[r].booked[x] + signed]
  <2>1. adv \in RequestState
    BY AdvanceType DEF TypeInv, PCs
  <2>2. /\ adv.pc = (IF LastLine(r) THEN "commit" ELSE next)
        /\ adv.i = (IF LastLine(r) THEN 1 ELSE req[r].i + 1)
        /\ adv.kind = kind /\ adv.lines = req[r].lines
        /\ adv.moved = req[r].moved /\ adv.booked = req[r].booked
    BY AdvanceFields
  <2> HIDE DEF adv, x, new, seen, signed
  <2>3. /\ rec.pc = adv.pc /\ rec.i = adv.i /\ rec.kind = adv.kind
        /\ rec.lines = adv.lines
        /\ rec.moved = [adv.moved EXCEPT ![x] = adv.moved[x] + (new - seen)]
        /\ rec.booked = [adv.booked EXCEPT ![x] = adv.booked[x] + signed]
    BY <2>1 DEF WithMovement, RequestState
  <2>. QED
    BY <2>2, <2>3
<1>6. seen >= l.qty
  <2>1. req[r].i \in req[r].i .. Len(req[r].lines)
    BY <1>3
  <2>. QED
    BY <1>4, <2>1 DEF Current
<1>7. new = seen - l.qty /\ signed = -l.qty
  BY <1>2, <1>4, <1>6, DeductionCovered
<1> HIDE DEF rec, adv, new, seen, signed, kind, next
<1>8. /\ req'[r] = rec
      /\ \A y \in Row : work'[y] = IF y = x THEN new ELSE work[y]
  BY <1>1 DEF TypeInv, TypeOK
<1>9. RowsNonNeg'
  <2>1. new >= 0
    BY <1>2, <1>6, <1>7
  <2>. QED
    BY <1>1, <1>8, <2>1 DEF RowsNonNeg
<1>10. kind \in {"sale", "credit"} => rec.moved = rec.booked
  <2>1. new - seen = signed
    BY <1>2, <1>7
  <2>. QED
    BY <1>4, <1>5, <2>1
<1>11. CASE LastLine(r)
  BY <1>5, <1>8, <1>9, <1>10, <1>11 DEF Covered, Looping
<1>12. CASE ~LastLine(r)
  <2>1. /\ rec.i = req[r].i + 1 /\ rec.pc = next /\ next \in {"read", "write"}
    BY <1>5, <1>12 DEF next
  <2>2. Unwritten(r)' = rec.i .. Len(req[r].lines)
    BY <1>5, <1>8, <2>1 DEF Unwritten, At
  <2>3. \A k \in rec.i .. Len(req[r].lines) :
           work'[req[r].lines[k].row] >= req[r].lines[k].qty
    <3> SUFFICES ASSUME NEW k \in rec.i .. Len(req[r].lines)
                 PROVE  work'[req[r].lines[k].row] >= req[r].lines[k].qty
      OBVIOUS
    <3>1. k \in DOMAIN req[r].lines /\ k # req[r].i
          /\ k \in req[r].i .. Len(req[r].lines)
      BY <1>3, <2>1
    <3>2. req[r].lines[k].row # x
      BY <1>3, <1>4, <3>1 DEF NamesOnce, Current
    <3>. QED
      BY <1>3, <1>4, <1>8, <3>1, <3>2
  <2>. QED
    BY <1>4, <1>5, <1>8, <1>9, <1>10, <2>2, <2>3 DEF Covered
<1>. QED
  BY <1>11, <1>12

LEMMA ArrivalCovers ==
    ASSUME LockedOnly, CartsDistinct, TypeInv, RowsNonNeg, NEW r \in Request, Arrival(r)
    PROVE  Covered(r)' /\ RowsNonNeg'
<1>1. ASSUME NEW kind, NEW pc, NEW lines, NEW target,
             Arrive(r, kind, pc, lines, target)
      PROVE  kind \notin RestoreKinds /\ RowsNonNeg'
  BY <1>1 DEF Arrive, LockedOnly, RowsNonNeg
<1>2. CASE SaleArrive(r)
  <2>1. PICK kind \in {"sale", "credit"}, c \in Carts :
            Arrive(r, kind, "lock", c, NoRequest)
    BY <1>2 DEF SaleArrive
  <2>. QED
    BY <1>1, <2>1, BeginsCovered DEF CartsDistinct
<1>3. CASE TransferArrive(r)
  <2>1. PICK from \in Row, to \in Row, c \in Carts :
            /\ from # to
            /\ Arrive(r, "transfer", "lock", TransferLines(from, to, c[1].qty),
                      NoRequest)
    BY <1>3 DEF TransferArrive
  <2>2. NamesOnce(TransferLines(from, to, c[1].qty))
    BY <2>1 DEF NamesOnce, TransferLines
  <2>3. c[1].qty \in Nat
    BY CartType
  <2>4. \A k \in DOMAIN TransferLines(from, to, c[1].qty) :
           k # 1 => TransferLines(from, to, c[1].qty)[k].qty <= 0
    BY <2>3 DEF TransferLines
  <2>. QED
    BY <1>1, <2>1, <2>2, <2>4, BeginsCovered
<1>4. ~VoidArrive(r) /\ ~RefundArrive(r)
  BY <1>1 DEF VoidArrive, RefundArrive, RestoreKinds
<1>5. CASE Adjust(r)
  <2>1. PICK x \in Row, n \in Adjustments :
           LET new == NonNeg(qty[x] + n) IN
           /\ qty'  = [qty EXCEPT ![x] = new]
           /\ work' = [work EXCEPT ![x] = new]
           /\ req' = [req EXCEPT ![r] =
                         WithMovement([Fresh EXCEPT !.kind = "adjust", !.pc = "done"],
                                      x, new - qty[x], n)]
    BY <1>5 DEF Adjust
  <2>2. qty[x] + n \in Int
    BY AdjustAssumption DEF TypeInv, TypeOK
  <2>3. NonNeg(qty[x] + n) >= 0
    BY <2>2 DEF NonNeg
  <2>4. RowsNonNeg'
    BY <2>1, <2>3 DEF RowsNonNeg, TypeInv, TypeOK
  <2>5. req'[r].kind = "adjust" /\ req'[r].pc = "done"
    BY <2>1 DEF TypeInv, TypeOK, WithMovement, Fresh
  <2>. QED
    BY <2>4, <2>5 DEF Covered, Looping
<1>6. CASE PaymentReverse(r)
  <2>1. PICK t \in Request, kind \in PaymentKinds \cap Kinds :
           /\ req' = [req EXCEPT ![r] = [Fresh EXCEPT !.kind = kind, !.pc = "done",
                                                      !.target = t]]
           /\ UNCHANGED <<qty, work>>
    BY <1>6 DEF PaymentReverse
  <2>2. req'[r].kind = kind /\ req'[r].pc = "done"
    BY <2>1 DEF TypeInv, TypeOK, Fresh
  <2>. QED
    BY <2>1, <2>2 DEF Covered, Looping, PaymentKinds, RowsNonNeg
<1>. QED
  BY <1>2, <1>3, <1>4, <1>5, <1>6 DEF Arrival

LEMMA StepCovers ==
    ASSUME TypeInv, LocksReleased, RowsNonNeg, NEW r \in Request,
           Booked(r), Covered(r), Step(r) \/ Crash(r)
    PROVE  Covered(r)' /\ RowsNonNeg'
<1>1. CASE Fail(r)
  <2>1. RowsNonNeg'
    BY <1>1 DEF Fail, RollbackRows, RowsNonNeg
  <2>. QED
    BY <1>1, <2>1, EndCovered DEF Fail
<1>2. CASE SaleCommit(r) \/ TransferCommit(r)
  <2>1. CommitRows(r) /\ req' = [req EXCEPT ![r].pc = "done"]
    BY <1>2 DEF SaleCommit, TransferCommit
  <2>2. RowsNonNeg'
    BY <2>1 DEF CommitRows, RowsNonNeg
  <2>. QED
    BY <2>1, <2>2, EndCovered
<1>3. ~ReverseCommit(r) /\ ~Claim(r)
  BY DEF ReverseCommit, Claim, Booked
<1>4. CASE SaleLock(r) /\ ~Fail(r)
  BY <1>4, SaleLockCovers DEF RowsNonNeg
<1>5. CASE TransferLock(r) /\ ~Fail(r)
  BY <1>5, TransferLockCovers DEF RowsNonNeg
<1>6. CASE ReadRow(r)
  BY <1>6, ReadRowCovers DEF RowsNonNeg
<1>7. (DeadlockVictim(r) \/ Crash(r)) => Fail(r)
  BY DEF DeadlockVictim, Crash
<1>. QED
  BY <1>1, <1>2, <1>3, <1>4, <1>5, <1>6, <1>7, WriteRowCovers DEF Step

AllCovered == \A r \in Request : Covered(r)

LEMMA CoveredInvariant ==
    ASSUME LockedOnly, CartsDistinct
    PROVE  Spec => [](AllCovered /\ RowsNonNeg)
<1>1. Init => AllCovered /\ RowsNonNeg
  <2> SUFFICES ASSUME Init PROVE AllCovered /\ RowsNonNeg
    OBVIOUS
  <2>1. \A x \in Row : InitQty[x] \in Nat
    BY StockAssumption
  <2>. QED
    BY <2>1 DEF Init, AllCovered, RowsNonNeg, Covered, Looping, Fresh
<1>2. TypeInv /\ LocksReleased /\ AllBooked /\ NoLostUpdate /\ AllCovered
         /\ RowsNonNeg /\ [Next]_vars => (AllCovered /\ RowsNonNeg)'
  <2> SUFFICES ASSUME TypeInv, LocksReleased, AllBooked, NoLostUpdate,
                      AllCovered, RowsNonNeg, [Next]_vars
               PROVE  (AllCovered /\ RowsNonNeg)'
    OBVIOUS
  <2>1. CASE UNCHANGED vars
    BY <2>1 DEF vars, AllCovered, RowsNonNeg, Covered, Looping, Unwritten, At
  <2>2. ASSUME NEW r \in Request, Arrival(r) \/ Step(r) \/ Crash(r)
        PROVE  (AllCovered /\ RowsNonNeg)'
    <3>1. OwnRowsOnly(r) /\ \E rec : req' = [req EXCEPT ![r] = rec]
      BY <2>2, ArrivalKeeps, StepKeeps DEF AllBooked
    <3>2. Covered(r)' /\ RowsNonNeg'
      BY <2>2, ArrivalCovers, StepCovers DEF AllBooked, AllCovered
    <3>3. ASSUME NEW q \in Request, q # r
          PROVE  Covered(q)'
      <4>1. req'[q] = req[q]
        BY <3>1, <3>3 DEF TypeInv, TypeOK
      <4>. QED
        BY <3>1, <3>3, <4>1, OthersCovered DEF AllBooked, AllCovered
    <3>. QED
      BY <3>2, <3>3 DEF AllCovered
  <2>. QED
    BY <2>1, <2>2 DEF Next
<1>. QED
  BY <1>1, <1>2, TypeInvariant, LocksAreReleased, BookedInvariant, PTL DEF Spec

\* The strengthening StockInv of StockLedger is an invariant then.
LEMMA StockInvariant ==
    ASSUME LockedOnly, CartsDistinct
    PROVE  Spec => []StockInv
<1>1. LedgerInv /\ AllCovered /\ RowsNonNeg => StockInv
  BY DEF StockInv, AllCovered, RowsNonNeg, StockNeverNegative
<1>. QED
  BY <1>1, LedgerInvariant, CoveredInvariant, PTL

\* While voids and refunds are not offered and no cart names a product twice,
\* no interleaving of sales, transfers and adjustments sells stock that is not
\* there.
THEOREM NeverOversold ==
    ASSUME LockedOnly, CartsDistinct
    PROVE  Spec => []StockNeverNegative
<1>1. RowsNonNeg => StockNeverNegative
  BY DEF RowsNonNeg, StockNeverNegative
<1>. QED
  BY <1>1, CoveredInvariant, PTL

\* Under the same assumptions a committed sale has taken off the shelf what its
\* movements say: the clamp at zero hides nothing.
THEOREM SaleTakesItsUnits ==
    ASSUME LockedOnly, CartsDistinct
    PROVE  Spec => []SaleTakesWhatItSold
<1>1. AllCovered => SaleTakesWhatItSold
  BY DEF AllCovered, Covered, SaleTakesWhatItSold
<1>. QED
  BY <1>1, CoveredInvariant, PTL
=============================================================================
