---------------------------- MODULE SaleAccounts ----------------------------
(***************************************************************************)
(* What a sale books apart from its stock: the loyalty points of a         *)
(* customer, the use of a coupon, and the balance of a credit sale, with   *)
(* the payments, voids and refunds that change them afterwards (sales,     *)
(* payments and customers modules).                                        *)
(*                                                                         *)
(* As in StockLedger a request is one handler whose database transaction   *)
(* runs at READ COMMITTED, a row belongs to the transaction that updated   *)
(* it or took it FOR UPDATE until it ends, and a sale or refund record is  *)
(* named by the request that created it.  One customer and one coupon are  *)
(* shared by all requests; a promotion with a usage limit is claimed like  *)
(* the coupon, just before it.                                             *)
(***************************************************************************)
EXTENDS Integers, FiniteSets, Functions

CONSTANTS
    Request,        \* requests, and the records they create
    Nobody,         \* owner of a free row, target of a request that has none
    Customer,       \* the customers row
    Coupon,         \* the coupons row
    Kinds,          \* the routes offered
    Loyalty,        \* whether the loyalty program may be enabled: of BOOLEAN
    InitPoints,     \* points the customer starts with
    UsageLimit,     \* coupons.usageLimit
    Total,          \* total of a sale
    Earned,         \* points a sale earns while the program is enabled
    Redeems,        \* points a sale may redeem
    Initials,       \* initial payments of a credit sale
    Amounts,        \* amounts of payments and refunds
    References,     \* references of payments
    Adjustments     \* manual changes of the points

RouteKinds == {"sale", "credit", "pay", "void", "refund",
               "payVoid", "payRefund", "adjust"}

ASSUME RequestAssumption == IsFiniteSet(Request)
ASSUME NobodyAssumption == Nobody \notin Request \cup {Customer, Coupon}
ASSUME RowAssumption    == Customer # Coupon /\ {Customer, Coupon} \cap Request = {}
ASSUME KindsAssumption  == Kinds \subseteq RouteKinds /\ Loyalty \subseteq BOOLEAN
ASSUME SaleAssumption   ==
    /\ {InitPoints, UsageLimit, Earned} \subseteq Nat
    /\ Total \in Nat \ {0}
    /\ Redeems \cup Initials \subseteq Nat
ASSUME AmountAssumption == Amounts \subseteq Nat \ {0} /\ Adjustments \subseteq Int

Row == {Customer, Coupon} \cup Request

VARIABLES
    points,   \* committed customers.points
    posted,   \* sum of the points_history rows each request has committed
    used,     \* committed coupons.usageCount
    txn,      \* the transactions table
    received, \* sum of the transaction_payments rows of each credit sale
    lock,     \* owner of each row
    req       \* the requests

accountVars == <<points, posted, used, txn, received, lock, req>>

NoTxn == [status |-> "none", credit |-> "no", total |-> 0, paid |-> 0,
          earned |-> 0, redeemed |-> 0, items |-> FALSE]

Fresh == [kind |-> "none", pc |-> "idle", target |-> Nobody, amount |-> 0,
          redeem |-> 0, loyal |-> FALSE, coupon |-> FALSE, delta |-> 0,
          seen |-> 0, reference |-> Nobody]

PCs == {"idle", "points", "coupon", "claim", "balance", "commit", "done", "failed"}

AccountsTypeOK ==
    /\ points \in Int
    /\ posted \in [Request -> Int]
    /\ used \in Nat
    /\ txn \in [Request -> [status : {"none", "COMPLETED", "VOIDED", "REFUNDED"},
                            credit : {"no", "PENDING", "PARTIAL", "PAID"},
                            total : Int, paid : Nat,
                            earned : Nat, redeemed : Nat, items : BOOLEAN]]
    /\ received \in [Request -> Nat]
    /\ lock \in [Row -> Request \cup {Nobody}]
    /\ req \in [Request -> [kind : RouteKinds \cup {"none"}, pc : PCs,
                            target : Request \cup {Nobody}, amount : Int,
                            redeem : Nat, loyal : BOOLEAN, coupon : BOOLEAN,
                            delta : Int, seen : Int,
                            reference : References \cup {Nobody}]]

AccountsInit ==
    /\ points = InitPoints
    /\ posted = [r \in Request |-> 0]
    /\ used = 0
    /\ txn = [r \in Request |-> NoTxn]
    /\ received = [r \in Request |-> 0]
    /\ lock = [x \in Row |-> Nobody]
    /\ req = [r \in Request |-> Fresh]

-----------------------------------------------------------------------------
At(r, pc) == req[r].pc = pc
Goto(r, pc) == req' = [req EXCEPT ![r].pc = pc]

Free(r, x) == lock[x] \in {Nobody, r}

\* Mutant: SELECT without FOR UPDATE.
ReadOnly(r, x) == UNCHANGED lock

\* UPDATE of a row, or SELECT ... FOR UPDATE.
Take(r, x) == Free(r, x) /\ lock' = [lock EXCEPT ![x] = r]

Unlocked(r) == [x \in Row |-> IF lock[x] = r THEN Nobody ELSE lock[x]]

Arrive(r, kind, rec) ==
    /\ At(r, "idle")
    /\ kind \in Kinds
    /\ req' = [req EXCEPT ![r] = [rec EXCEPT !.kind = kind]]

\* ROLLBACK.
Fail(r) ==
    /\ Goto(r, "failed")
    /\ lock' = Unlocked(r)
    /\ UNCHANGED <<points, posted, used, txn, received>>

\* GREATEST(0, ...)
AtLeastZero(n) == IF n < 0 THEN 0 ELSE n

\* Mutant: the points are floored, as a manual adjustment does.
CommitFloored(r) ==
    /\ Goto(r, "done")
    /\ lock' = Unlocked(r)
    /\ points' = AtLeastZero(points + req[r].delta)
    /\ posted' = [posted EXCEPT ![r] = req[r].delta]

\* COMMIT of the points r has added and of the history rows it has inserted.
Commit(r) ==
    /\ Goto(r, "done")
    /\ lock' = Unlocked(r)
    /\ points' = points + req[r].delta
    /\ posted' = [posted EXCEPT ![r] = req[r].delta]

-----------------------------------------------------------------------------
(***************************************************************************)
(* POST /sales and POST /sales/credit.  The points and the coupon are      *)
(* checked by plain reads before the transaction; inside it the points are *)
(* added by the UPDATE itself, without a condition, and the coupon is      *)
(* claimed by an UPDATE that checks its limit again.                       *)
(***************************************************************************)
EarnedBy(loyal) == IF loyal THEN Earned ELSE 0

\* The first of points, coupon and commit that the sale of rec has to do.
FirstStep(rec) ==
    CASE rec.loyal /\ (Earned > 0 \/ rec.redeem > 0) -> "points"
      [] rec.coupon -> "coupon"
      [] OTHER      -> "commit"

SaleArrive(r) ==
    \E redeem \in Redeems, loyal \in Loyalty, coupon \in BOOLEAN :
        LET rec == [Fresh EXCEPT !.redeem = redeem, !.loyal = loyal,
                                 !.coupon = coupon,
                                 !.delta = IF loyal THEN Earned - redeem ELSE 0]
        IN  /\ loyal /\ redeem > 0 => points >= redeem
            /\ coupon => used < UsageLimit
            /\ Arrive(r, "sale", [rec EXCEPT !.pc = FirstStep(rec)])
            /\ UNCHANGED <<points, posted, used, txn, received, lock>>

CreditArrive(r) ==
    \E initial \in Initials, loyal \in Loyalty :
        LET rec == [Fresh EXCEPT !.amount = initial, !.loyal = loyal,
                                 !.delta = EarnedBy(loyal)]
        IN  /\ Arrive(r, "credit", [rec EXCEPT !.pc = FirstStep(rec)])
            /\ UNCHANGED <<points, posted, used, txn, received, lock>>

TakePoints(r) ==
    /\ At(r, "points")
    /\ Take(r, Customer)
    /\ Goto(r, IF req[r].coupon THEN "coupon" ELSE "commit")
    /\ UNCHANGED <<points, posted, used, txn, received>>

\* Mutant: the check before the transaction is trusted.
TakeCouponBlind(r) ==
    /\ At(r, "coupon")
    /\ Take(r, Coupon)
    /\ Goto(r, "commit")
    /\ UNCHANGED <<points, posted, used, txn, received>>

\* COUPON_LIMIT_REACHED rolls the whole sale back.
TakeCoupon(r) ==
    /\ At(r, "coupon")
    /\ Free(r, Coupon)
    /\ \/ /\ used < UsageLimit
          /\ Take(r, Coupon)
          /\ Goto(r, "commit")
          /\ UNCHANGED <<points, posted, used, txn, received>>
       \/ used >= UsageLimit /\ Fail(r)

\* creditStatus of a credit sale, from what has been paid.
Credit(paid) == CASE paid >= Total          -> "PAID"
                  [] paid \in 1 .. Total - 1 -> "PARTIAL"
                  [] OTHER                  -> "PENDING"

SaleRecord(r) ==
    LET credit == req[r].kind = "credit" IN
    [status |-> "COMPLETED", total |-> Total, items |-> TRUE,
     credit |-> IF credit THEN Credit(req[r].amount) ELSE "no",
     paid |-> IF credit THEN req[r].amount ELSE 0,
     earned |-> EarnedBy(req[r].loyal), redeemed |-> req[r].redeem]

SaleCommit(r) ==
    /\ At(r, "commit") /\ req[r].kind \in {"sale", "credit"}
    /\ txn' = [txn EXCEPT ![r] = SaleRecord(r)]
    /\ used' = IF req[r].coupon THEN used + 1 ELSE used
    /\ Commit(r)
    /\ UNCHANGED received

-----------------------------------------------------------------------------
(***************************************************************************)
(* POST /sales/credit/:id/payment.  A reference is looked up before the    *)
(* transaction; the balance is read FOR UPDATE.                            *)
(***************************************************************************)
Recorded(t, reference) ==
    \E q \in Request : /\ req[q].kind = "pay" /\ At(q, "done")
                       /\ req[q].target = t /\ req[q].reference = reference

PayArrive(r) ==
    \E t \in Request, amount \in Amounts, reference \in References \cup {Nobody} :
        /\ txn[t].credit # "no"
        /\ reference # Nobody => ~Recorded(t, reference)
        /\ Arrive(r, "pay", [Fresh EXCEPT !.target = t, !.amount = amount,
                                          !.reference = reference, !.pc = "balance"])
        /\ UNCHANGED <<points, posted, used, txn, received, lock>>

PayLock(r) ==
    LET t == req[r].target IN
    /\ At(r, "balance")
    /\ Free(r, t)
    /\ \/ /\ req[r].amount <= txn[t].total - txn[t].paid
          /\ Take(r, t)
          /\ req' = [req EXCEPT ![r].seen = txn[t].paid, ![r].pc = "commit"]
          /\ UNCHANGED <<points, posted, used, txn, received>>
       \/ /\ req[r].amount > txn[t].total - txn[t].paid      \* AMOUNT_EXCEEDS
          /\ Fail(r)

PayCommit(r) ==
    LET t    == req[r].target
        paid == req[r].seen + req[r].amount
    IN  /\ At(r, "commit") /\ req[r].kind = "pay"
        /\ txn' = [txn EXCEPT ![t].paid = paid,
                              ![t].credit = IF paid >= txn[t].total THEN "PAID" ELSE "PARTIAL"]
        /\ received' = [received EXCEPT ![t] = @ + req[r].amount]
        /\ Commit(r)
        /\ UNCHANGED used

-----------------------------------------------------------------------------
(***************************************************************************)
(* POST /sales/:id/void and /sales/:id/refund.  The record is read first   *)
(* and claimed by an UPDATE that wants it COMPLETED; what the sale earned  *)
(* is taken back and what it redeemed given back, for a refund in          *)
(* proportion to the amount.  The refund is a record of its own and can    *)
(* itself be reversed; it has earned nothing.                              *)
(***************************************************************************)
\* Math.floor(n * Math.min(amount / total, 1))
Share(n, amount, total) == IF amount >= total THEN n ELSE (n * amount) \div total

EarnedBack(t, amount)   == Share(txn[t].earned, amount, txn[t].total)
RedeemedBack(t, amount) == Share(txn[t].redeemed, amount, txn[t].total)

\* A request to reverse amount of t.
Reversal(t, amount) ==
    [Fresh EXCEPT !.target = t, !.pc = "claim", !.amount = amount,
                  !.delta = RedeemedBack(t, amount) - EarnedBack(t, amount)]

VoidArrive(r) ==
    \E t \in Request :
        /\ txn[t].status \notin {"none", "VOIDED"}
        /\ Arrive(r, "void", Reversal(t, txn[t].total))
        /\ UNCHANGED <<points, posted, used, txn, received, lock>>

RefundArrive(r) ==
    \E t \in Request, amount \in Amounts :
        LET refunded == IF txn[t].total > 0 THEN amount ELSE txn[t].total IN
        /\ txn[t].status = "COMPLETED"
        /\ txn[t].items
        /\ Arrive(r, "refund", Reversal(t, refunded))
        /\ UNCHANGED <<points, posted, used, txn, received, lock>>

\* What a reversal does after the claim of the record.
AfterClaim(r) ==
    LET t == req[r].target IN
    IF EarnedBack(t, req[r].amount) > 0 \/ RedeemedBack(t, req[r].amount) > 0
    THEN "points" ELSE "commit"

\* Mutant: the status the handler has read is trusted.
ClaimAnyway(r) ==
    /\ At(r, "claim")
    /\ Take(r, req[r].target)
    /\ Goto(r, AfterClaim(r))
    /\ UNCHANGED <<points, posted, used, txn, received>>

Claim(r) ==
    LET t == req[r].target IN
    /\ At(r, "claim")
    /\ Free(r, t)
    /\ \/ /\ txn[t].status = "COMPLETED"
          /\ Take(r, t)
          /\ Goto(r, AfterClaim(r))
          /\ UNCHANGED <<points, posted, used, txn, received>>
       \/ txn[t].status # "COMPLETED" /\ Fail(r)           \* CONFLICT

RefundRecord(amount, items) ==
    [NoTxn EXCEPT !.status = "COMPLETED", !.total = -amount, !.items = items]

ReverseCommit(r) ==
    LET t == req[r].target IN
    /\ At(r, "commit") /\ req[r].kind \in {"void", "refund"}
    /\ txn' = IF req[r].kind = "void"
              THEN [txn EXCEPT ![t].status = "VOIDED"]
              ELSE [txn EXCEPT ![t].status = "REFUNDED",
                               ![r] = RefundRecord(req[r].amount, TRUE)]
    /\ Commit(r)
    /\ UNCHANGED <<used, received>>

(***************************************************************************)
(* POST /payments/void/:id and /payments/refunds: the claim and at most an *)
(* insert; the points stay as they are.                                    *)
(***************************************************************************)
PaymentReverse(r) ==
    \E t \in Request, kind \in {"payVoid", "payRefund"}, amount \in Amounts :
        /\ txn[t].status = "COMPLETED"
        /\ lock[t] = Nobody
        /\ kind = "payRefund" => amount <= txn[t].total
        /\ Arrive(r, kind, [Fresh EXCEPT !.target = t, !.pc = "done"])
        /\ txn' = IF kind = "payVoid"
                  THEN [txn EXCEPT ![t].status = "VOIDED"]
                  ELSE [txn EXCEPT ![t].status = "REFUNDED",
                                   ![r] = RefundRecord(amount, FALSE)]
        /\ UNCHANGED <<points, posted, used, received, lock>>

(***************************************************************************)
(* POST /customers/:id/points (two routes): the sum is floored at zero,    *)
(* the history row has the amount that was asked for.                      *)
(***************************************************************************)
Adjust(r) ==
    \E n \in Adjustments :
        /\ lock[Customer] = Nobody
        /\ Arrive(r, "adjust", [Fresh EXCEPT !.amount = n, !.seen = points,
                                             !.pc = "done"])
        /\ points' = AtLeastZero(points + n)
        /\ posted' = [posted EXCEPT ![r] = n]
        /\ UNCHANGED <<used, txn, received, lock>>

-----------------------------------------------------------------------------
InFlight(r) == req[r].pc \notin {"idle", "done", "failed"}

\* The process dies, the connection breaks or a statement throws.
AccountsCrash(r) == InFlight(r) /\ Fail(r)

AccountsStep(r) ==
    \/ TakePoints(r) \/ TakeCoupon(r) \/ SaleCommit(r)
    \/ PayLock(r) \/ PayCommit(r) \/ Claim(r) \/ ReverseCommit(r)

Arrival(r) ==
    \/ SaleArrive(r) \/ CreditArrive(r) \/ PayArrive(r) \/ VoidArrive(r)
    \/ RefundArrive(r) \/ PaymentReverse(r) \/ Adjust(r)

AccountsNext == \E r \in Request : Arrival(r) \/ AccountsStep(r) \/ AccountsCrash(r)

AccountsSpec == AccountsInit /\ [][AccountsNext]_accountVars

-----------------------------------------------------------------------------
(***************************************************************************)
(* Properties.                                                             *)
(***************************************************************************)
Done(r, kind) == req[r].kind = kind /\ At(r, "done")

\* An adjustment met a sum below zero, and floored it.
Floored == \E r \in Request : Done(r, "adjust") /\ req[r].seen + req[r].amount < 0

(***************************************************************************)
(* The points of the customer are what the history says, however sales,    *)
(* reversals and adjustments interleave, as long as no adjustment took     *)
(* more than there was.                                                    *)
(***************************************************************************)
PointsAreHistory == Floored \/ points = InitPoints + FoldFunction(+, 0, posted)

(***************************************************************************)
(* A sale that the sales routes have reversed in full leaves the customer  *)
(* with the points of before, and one that nobody reversed keeps its own.  *)
(* The sale must have been made while the program was enabled: otherwise   *)
(* the redeemed points are recorded on the sale without being taken.       *)
(***************************************************************************)
ReversedBy(t) == {q \in Request : req[q].target = t /\ (Done(q, "void") \/ Done(q, "refund"))}

InFull(q) == req[q].kind = "void" \/ req[q].amount >= Total

PointsReturned ==
    \A t \in Request :
        (Done(t, "sale") \/ Done(t, "credit")) /\ req[t].loyal =>
            LET back == {posted[q] : q \in ReversedBy(t)} IN
            /\ Cardinality(ReversedBy(t)) <= 1
            /\ txn[t].status = "COMPLETED" => back = {}
            /\ \A q \in ReversedBy(t) : InFull(q) => posted[q] = -posted[t]

(***************************************************************************)
(* The coupon counts exactly the sales that were made with it, and never   *)
(* more of them than its limit.                                            *)
(***************************************************************************)
CouponCounts ==
    /\ used = Cardinality({r \in Request : Done(r, "sale") /\ req[r].coupon})
    /\ used <= UsageLimit

(***************************************************************************)
(* What a credit sale says was paid is what its payments add up to, never  *)
(* more than its total unless the first payment was, and its credit status *)
(* agrees, however many payments arrive at once.                           *)
(***************************************************************************)
BalanceIsPayments ==
    \A t \in Request :
        Done(t, "credit") =>
            /\ txn[t].paid = req[t].amount + received[t]
            /\ txn[t].paid <= Total \/ received[t] = 0
            /\ txn[t].credit = Credit(txn[t].paid)

=============================================================================
