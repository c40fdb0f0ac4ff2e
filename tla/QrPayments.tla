----------------------------- MODULE QrPayments -----------------------------
(***************************************************************************)
(* Payment by a QR code that a gateway made for one sale.                  *)
(*   payment-gateways/presentation/routes.ts: POST /qr/create,             *)
(*     GET /qr/:id/status                                                  *)
(*   payment-gateways/presentation/webhook-routes.ts: the notification     *)
(*   kpos/src/routes/(app)/pos/+page.svelte: the page that shows the code, *)
(*     asks every three seconds and lets the cashier check out when the    *)
(*     last answer says paid                                               *)
(*                                                                         *)
(* The page keeps one request and one status, and a timer.  Its questions  *)
(* overlap: one that waits for its answer does not hold back the next, and *)
(* none is called off when the page is reset for another cart, so that an  *)
(* answer may be about an earlier request.  The server's poll reads the    *)
(* row and updates it by id in two statements; only the notification asks  *)
(* for a pending row in its update.                                        *)
(*                                                                         *)
(* The gateways are external: one notifies (SwiftPass), possibly often,    *)
(* the other has to be asked (JDB).  Money is what the customer has paid.  *)
(***************************************************************************)
EXTENDS TLC

CONSTANTS
    Bill,       \* carts to be paid by QR
    Qr,         \* qr_payment_requests
    Poll,       \* questions of the page under way at once
    Asked,      \* the requests whose gateway has to be asked
    None

ASSUME NoneAssumption == None \notin Bill \cup Qr
ASSUME AskedAssumption == Asked \subseteq Qr

VARIABLES
    row,        \* status of each request
    due,        \* requests past their expiresAt
    money,      \* requests that the customer has paid at the gateway
    made,       \* the cart that each request was made for
    page,       \* the modal: cart, qrPaymentId, qrPaymentStatus, timer
    creating,   \* requests whose answer to POST /qr/create is on its way
    poll,       \* each question: its request, where it is, its answer
    sold,       \* the request whose answer let each cart be checked out
    stale       \* history: carts whose page got an answer about another one

qrVars == <<row, due, money, made, page, creating, poll, sold, stale>>

NoPage == [cart |-> None, qr |-> None, status |-> "idle", timer |-> FALSE, by |-> None]
NoPoll == [qr |-> None, pc |-> "none", status |-> "none"]

QrTypeOK ==
    /\ row \in [Qr -> {"none", "pending", "paid", "expired"}]
    /\ due \in SUBSET Qr
    /\ money \in SUBSET Qr
    /\ made \in [Qr -> Bill \cup {None}]
    /\ page \in [cart : Bill \cup {None}, qr : Qr \cup {None}, timer : BOOLEAN, by : Qr \cup {None},
                 status : {"idle", "generating", "pending", "paid", "expired", "failed"}]
    /\ creating \in SUBSET Qr
    /\ poll \in [Poll -> [qr : Qr \cup {None}, pc : {"none", "sent", "expire", "confirm", "answer"},
                          status : {"none", "pending", "paid", "expired"}]]
    /\ sold \in [Bill -> Qr \cup {None}]
    /\ stale \in SUBSET Bill

QrInit ==
    /\ row = [q \in Qr |-> "none"]
    /\ due = {}
    /\ money = {}
    /\ made = [q \in Qr |-> None]
    /\ page = NoPage
    /\ creating = {}
    /\ poll = [i \in Poll |-> NoPoll]
    /\ sold = [c \in Bill |-> None]
    /\ stale = {}

(***************************************************************************)
(* The page.                                                               *)
(***************************************************************************)
\* Mutant: the status is not reset.
resetToCart(c) == [page EXCEPT !.cart = c]

\* What is left of the page when it is reset for cart c.
resetQrPayment(c) == [NoPage EXCEPT !.cart = c]

\* The modal is opened, cancelled, or its QR code given up for another try.
\* A sold cart is cleared.
openPaymentModal(c) ==
    /\ sold[c] = None
    /\ page' = resetQrPayment(c)
    /\ UNCHANGED <<row, due, money, made, creating, poll, sold, stale>>

\* Up to the insert of POST /qr/create.
generateQrPayment(q) ==
    /\ page.cart # None /\ page.status = "idle" /\ row[q] = "none"
    /\ made' = [made EXCEPT ![q] = page.cart]
    /\ row' = [row EXCEPT ![q] = "pending"]
    /\ page' = [page EXCEPT !.status = "generating"]
    /\ creating' = creating \cup {q}
    /\ UNCHANGED <<due, money, poll, sold, stale>>

\* The answer goes to whatever cart the page has now.
Generated(q) ==
    /\ q \in creating
    /\ creating' = creating \ {q}
    /\ page' = [page EXCEPT !.qr = q, !.status = "pending", !.timer = TRUE]
    /\ stale' = stale \cup ({page.cart} \ {made[q], None})
    /\ UNCHANGED <<row, due, money, made, poll, sold>>

\* The gateway or the route fails; a row may have been made.
GenerateFails(q) ==
    /\ q \in creating
    /\ creating' = creating \ {q}
    /\ page' = [page EXCEPT !.status = "failed"]
    /\ UNCHANGED <<row, due, money, made, poll, sold, stale>>

PollSend(i) ==
    /\ page.timer /\ poll[i].pc = "none"
    /\ poll' = [poll EXCEPT ![i] = [NoPoll EXCEPT !.qr = page.qr, !.pc = "sent"]]
    /\ UNCHANGED <<row, due, money, made, page, creating, sold, stale>>

\* The status is taken over whatever request it is about.
PollAnswer(i) ==
    /\ poll[i].pc = "answer"
    /\ poll' = [poll EXCEPT ![i] = NoPoll]
    /\ page' = [page EXCEPT !.status = poll[i].status, !.by = poll[i].qr,
                            !.timer = @ /\ poll[i].status = "pending"]
    /\ stale' = stale \cup ({page.cart} \ {made[poll[i].qr], None})
    /\ UNCHANGED <<row, due, money, made, creating, sold>>

PollFails(i) ==
    /\ poll[i].pc # "none"
    /\ poll' = [poll EXCEPT ![i] = NoPoll]
    /\ UNCHANGED <<row, due, money, made, page, creating, sold, stale>>

canCheckout == page.status = "paid"

\* The cart is checked out as paid by QR and the page reset.
CheckoutByQr(c) ==
    /\ page.cart = c /\ c # None /\ canCheckout
    /\ sold' = [sold EXCEPT ![c] = page.by]
    /\ page' = resetQrPayment(None)
    /\ UNCHANGED <<row, due, money, made, creating, poll, stale>>

(***************************************************************************)
(* The server.                                                             *)
(***************************************************************************)
\* GET /qr/:id/status up to its update, if it makes one.
PollRead(i) ==
    LET q == poll[i].qr
        At(pc, status) == poll' = [poll EXCEPT ![i].pc = pc, ![i].status = status]
    IN  /\ poll[i].pc = "sent"
        /\ IF row[q] = "pending" /\ q \in due THEN At("expire", "expired")
           ELSE IF row[q] = "pending" /\ q \in Asked /\ q \in money THEN At("confirm", "paid")
           ELSE At("answer", row[q])
        /\ UNCHANGED <<row, due, money, made, page, creating, sold, stale>>

PollWrite(i) ==
    /\ poll[i].pc \in {"expire", "confirm"}
    /\ row' = [row EXCEPT ![poll[i].qr] = poll[i].status]
    /\ poll' = [poll EXCEPT ![i].pc = "answer"]
    /\ UNCHANGED <<due, money, made, page, creating, sold, stale>>

\* The notification, once or again.
handleSwiftPassNotify(q) ==
    /\ q \in money \ Asked
    /\ row[q] = "pending"
    /\ row' = [row EXCEPT ![q] = "paid"]
    /\ UNCHANGED <<due, money, made, page, creating, poll, sold, stale>>

(***************************************************************************)
(* The customer, and time.                                                 *)
(***************************************************************************)
CustomerPays(q) ==
    /\ row[q] # "none"
    /\ money' = money \cup {q}
    /\ UNCHANGED <<row, due, made, page, creating, poll, sold, stale>>

Expires(q) ==
    /\ row[q] # "none"
    /\ due' = due \cup {q}
    /\ UNCHANGED <<row, money, made, page, creating, poll, sold, stale>>

QrNext ==
    \/ \E c \in Bill : openPaymentModal(c) \/ CheckoutByQr(c)
    \/ \E q \in Qr : generateQrPayment(q) \/ Generated(q) \/ GenerateFails(q)
                     \/ handleSwiftPassNotify(q) \/ CustomerPays(q) \/ Expires(q)
    \/ \E i \in Poll : PollSend(i) \/ PollAnswer(i) \/ PollFails(i) \/ PollRead(i) \/ PollWrite(i)

QrSpec == QrInit /\ [][QrNext]_qrVars
-----------------------------------------------------------------------------
\* A cart checked out by QR rests on a request that the customer has paid,
\* and on one made for this cart unless the page had got an answer about
\* another cart's (canCheckout, pos/+page.svelte:630-637).
QrSaleIsPaid ==
    \A c \in Bill : sold[c] # None =>
        /\ sold[c] \in money
        /\ made[sold[c]] = c \/ c \in stale
=============================================================================
