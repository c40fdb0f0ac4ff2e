----------------------------- MODULE CashShifts -----------------------------
(***************************************************************************)
(* The cash drawer of a till: shifts, the sales and cash movements that    *)
(* belong to them, and the settlement of a branch's day.                   *)
(*   sales/presentation/routes.ts: POST /sales, /:id/void, /:id/refund,    *)
(*     /shifts/open, /shifts/:id/close, /shifts/:id/cash-movement          *)
(*   payments/presentation/routes.ts: POST /settlements                    *)
(*                                                                         *)
(* Every route but void and refund is a read and a later write that are    *)
(* not one transaction: a sale looks for the cashier's open shift before   *)
(* its transaction, a close adds up the shift and then updates it by id, a *)
(* settlement adds up the day and then inserts.  Two unique indexes stand  *)
(* behind two of the reads: one OPEN shift per user, and one settlement    *)
(* per branch and day.                                                     *)
(*                                                                         *)
(* A row is named by the request that wrote it.  A sum of money is the set *)
(* of rows it was taken over.  req[r].after, the requests that had been    *)
(* answered when r came, is no state of the program: it is what a cashier  *)
(* can know of the order of things.                                        *)
(***************************************************************************)
CONSTANTS
    Request,
    Cashier,    \* users
    Manager,    \* users with staff:update, who may close another's shift
    Unbound,    \* users with requiresShift = false
    None        \* null

ASSUME CashierAssumption == Manager \subseteq Cashier /\ Unbound \subseteq Cashier
ASSUME NoneAssumption == None \notin Request \cup Cashier

VARIABLES
    req,        \* handlers: statement they are at and their local variables
    shift,      \* shifts
    txn,        \* transactions: sales, and the records of refunds
    cash,       \* cash_movements: the shift of each
    day         \* settlements of the branch and day

shiftVars == <<req, shift, txn, cash, day>>

Idle    == [pc |-> "idle", kind |-> "none", shift |-> None, seen |-> {}, after |-> {}]
NoShift == [status |-> "none", user |-> None, counted |-> {}]
NoTxn   == [status |-> "none", shift |-> None]

Waiting == {"sale", "open", "close", "settle"}

ReqState == [pc : {"idle", "ok", "failed"} \cup Waiting,
             kind : {"none", "sale", "refund", "void", "move", "open", "close", "settle"},
             shift : Request \cup {None},
             seen : SUBSET Request, after : SUBSET Request]

ShiftsTypeOK ==
    /\ req \in [Request -> ReqState]
    /\ shift \in [Request -> [status : {"none", "OPEN", "CLOSED"},
                              user : Cashier \cup {None}, counted : SUBSET Request]]
    /\ txn \in [Request -> [status : {"none", "COMPLETED", "VOIDED", "REFUNDED"},
                            shift : Request \cup {None}]]
    /\ cash \in [Request -> Request \cup {None}]
    /\ day \in [Request -> [settled : BOOLEAN, counted : SUBSET Request]]

ShiftsInit ==
    /\ req = [r \in Request |-> Idle]
    /\ shift = [s \in Request |-> NoShift]
    /\ txn = [t \in Request |-> NoTxn]
    /\ cash = [c \in Request |-> None]
    /\ day = [d \in Request |-> [settled |-> FALSE, counted |-> {}]]

Answered == {q \in Request : req[q].pc \in {"ok", "failed"}}

\* Request r comes and its handler stops at pc, or has its answer.
Arrive(r, kind, pc, s, seen) ==
    /\ req[r].pc = "idle"
    /\ req' = [req EXCEPT ![r] = [pc |-> pc, kind |-> kind, shift |-> s,
                                  seen |-> seen, after |-> Answered]]

\* It comes and is refused, or fails later: nothing of it remains.
Refused(r) == req' = [req EXCEPT ![r] = [Idle EXCEPT !.pc = "failed"]]

Refuse(r) == req[r].pc = "idle" /\ Refused(r)

At(r, pc) == req[r].pc = pc

Answer(r, pc) == req' = [req EXCEPT ![r].pc = pc]

OpenShifts(u) == {s \in Request : shift[s].status = "OPEN" /\ shift[s].user = u}

(***************************************************************************)
(* Sales and what takes them back.                                         *)
(***************************************************************************)
\* Mutant: the status is not asked for.
anyShift(u) ==
    LET own == {s \in Request : shift[s].status # "none" /\ shift[s].user = u}
    IN  IF own = {} THEN {None} ELSE own

\* findFirst: which one is not specified, should there be several.
openShift(u) == IF OpenShifts(u) = {} THEN {None} ELSE OpenShifts(u)

SaleArrive(r, u) ==
    /\ \E s \in openShift(u) :
        IF s = None /\ u \notin Unbound THEN Refuse(r) ELSE Arrive(r, "sale", "sale", s, {})
    /\ UNCHANGED <<shift, txn, cash, day>>

\* The sale's transaction, whatever has become of the shift.
SaleCommit(r) ==
    /\ At(r, "sale")
    /\ txn' = [txn EXCEPT ![r] = [status |-> "COMPLETED", shift |-> req[r].shift]]
    /\ Answer(r, "ok")
    /\ UNCHANGED <<shift, cash, day>>

\* The conditional update that claims a COMPLETED transaction.
Claim(t, status) ==
    /\ txn[t].status = "COMPLETED"
    /\ txn' = [txn EXCEPT ![t].status = status]

VoidSale(r, t) ==
    /\ Claim(t, "VOIDED")
    /\ Arrive(r, "void", "ok", txn[t].shift, {t})
    /\ UNCHANGED <<shift, cash, day>>

\* A refund also writes a record of its own, COMPLETED and of no shift.
RefundSale(r, t) ==
    /\ txn[t].status = "COMPLETED"
    /\ txn' = [txn EXCEPT ![t].status = "REFUNDED",
                          ![r] = [status |-> "COMPLETED", shift |-> None]]
    /\ Arrive(r, "refund", "ok", txn[t].shift, {t})
    /\ UNCHANGED <<shift, cash, day>>

(***************************************************************************)
(* Shifts.                                                                 *)
(***************************************************************************)
OpenArrive(r, u) ==
    /\ IF OpenShifts(u) = {}
       THEN Arrive(r, "open", "open", None, {}) /\ shift' = [shift EXCEPT ![r].user = u]
       ELSE Refuse(r) /\ UNCHANGED shift
    /\ UNCHANGED <<txn, cash, day>>

\* shifts_one_open_per_user_idx
OnlyOpen(s) == OpenShifts(shift[s].user) = {}

OpenInsert(r) ==
    /\ At(r, "open")
    /\ OnlyOpen(r)
    /\ shift' = [shift EXCEPT ![r].status = "OPEN"]
    /\ Answer(r, "ok")
    /\ UNCHANGED <<txn, cash, day>>

\* No status is asked for: a movement may be written into a closed shift.
CashMovement(r, s) ==
    /\ shift[s].status # "none"
    /\ cash' = [cash EXCEPT ![r] = s]
    /\ Arrive(r, "move", "ok", s, {})
    /\ UNCHANGED <<shift, txn, day>>

\* The rows of a shift that its expected balance is the sum of.
Expected(s) ==
    {t \in Request : txn[t].shift = s /\ txn[t].status = "COMPLETED"}
        \cup {c \in Request : cash[c] = s}

MayClose(s, u) == shift[s].user = u \/ u \in Manager

\* The read of the shift with its rows, and the checks after it.
CloseArrive(r, s, u) ==
    /\ shift[s].status # "none"
    /\ IF shift[s].status = "OPEN" /\ MayClose(s, u)
       THEN Arrive(r, "close", "close", s, Expected(s))
       ELSE Refuse(r)
    /\ UNCHANGED <<shift, txn, cash, day>>

CloseWrite(r) ==
    /\ At(r, "close")
    /\ shift' = [shift EXCEPT ![req[r].shift].status = "CLOSED",
                              ![req[r].shift].counted = req[r].seen]
    /\ Answer(r, "ok")
    /\ UNCHANGED <<txn, cash, day>>

(***************************************************************************)
(* The settlement of the day.                                              *)
(***************************************************************************)
SettleArrive(r) ==
    /\ Arrive(r, "settle", "settle", None, {t \in Request : txn[t].status = "COMPLETED"})
    /\ UNCHANGED <<shift, txn, cash, day>>

\* Mutant: a settlement is inserted whatever is there.
SettledAgain == TRUE

\* settlements_branch_date_idx
Unsettled == \A d \in Request : ~day[d].settled

SettleInsert(r) ==
    /\ At(r, "settle")
    /\ Unsettled
    /\ day' = [day EXCEPT ![r] = [settled |-> TRUE, counted |-> req[r].seen]]
    /\ Answer(r, "ok")
    /\ UNCHANGED <<shift, txn, cash>>

\* An error, an index in the way, or the end of the process, before the write.
Fail(r) ==
    /\ req[r].pc \in Waiting
    /\ Refused(r)
    /\ shift' = [shift EXCEPT ![r].user = None]
    /\ UNCHANGED <<txn, cash, day>>

ShiftsNext == \E r \in Request :
    \/ \E u \in Cashier : SaleArrive(r, u) \/ OpenArrive(r, u)
    \/ \E t \in Request : VoidSale(r, t) \/ RefundSale(r, t)
    \/ \E s \in Request : CashMovement(r, s) \/ \E u \in Cashier : CloseArrive(r, s, u)
    \/ SettleArrive(r)
    \/ SaleCommit(r) \/ OpenInsert(r) \/ CloseWrite(r) \/ SettleInsert(r)
    \/ Fail(r)

ShiftsSpec == ShiftsInit /\ [][ShiftsNext]_shiftVars
-----------------------------------------------------------------------------
(***************************************************************************)
(* Properties.                                                             *)
(***************************************************************************)
\* However many open requests pass their check at once, a cashier has one
\* open shift (comment at sales/presentation/routes.ts:838-840).
OneOpenShift == \A u \in Cashier : \A s, t \in OpenShifts(u) : s = t

Done(r, kind) == req[r].kind = kind /\ req[r].pc = "ok"

\* r was answered before q was sent.
Before(r, q) == r \in req[q].after

\* Row t had been taken back when q was sent.
Reversed(t, q) == \E v \in Request :
    (Done(v, "void") \/ Done(v, "refund")) /\ t \in req[v].seen /\ Before(v, q)

\* The expected balance of a closed shift is the one that a close answered
\* for: it has every movement and every standing sale of the shift that
\* were answered before that close was sent, nothing that had been taken
\* back by then, and no sale that was sent after it was answered belongs to
\* the shift.  Between the two, what a sale in flight does is left open.
\* Other closes of the shift were in flight at the same time: once somebody
\* was told that it is closed, nobody closes it again.
CloseCounts ==
    \A s \in Request : shift[s].status = "CLOSED" =>
        \E c \in Request :
            /\ Done(c, "close") /\ req[c].shift = s
            /\ \A t \in Request : txn[t].shift = s =>
                /\ Before(t, c) /\ txn[t].status = "COMPLETED" => t \in shift[s].counted
                /\ Reversed(t, c) => t \notin shift[s].counted
                /\ ~Before(c, t)
            /\ \A m \in Request : cash[m] = s /\ Before(m, c) => m \in shift[s].counted
            /\ \A d \in Request : Done(d, "close") /\ req[d].shift = s
                => ~Before(c, d) /\ ~Before(d, c)

\* A day is settled once, over every transaction answered before the
\* settlement was sent and standing since, and none taken back by then.
SettledOnce ==
    \A d \in Request : day[d].settled =>
        /\ \A e \in Request : day[e].settled => d = e
        /\ \A t \in Request :
            /\ txn[t].status = "COMPLETED" /\ Before(t, d) => t \in day[d].counted
            /\ Reversed(t, d) => t \notin day[d].counted
=============================================================================
