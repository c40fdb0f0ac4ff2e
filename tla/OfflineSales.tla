---------------------------- MODULE OfflineSales ----------------------------
(***************************************************************************)
(* Sales that a till takes while it has no network.                        *)
(*   kpos/src/lib/offlineQueue.ts: the queue in IndexedDB                  *)
(*   kpos/src/routes/(app)/pos/+page.svelte: processPayment,               *)
(*     retryOfflineSales, the handlers of the browser's events             *)
(*                                                                         *)
(* The page posts a sale, or queues it when the browser says that it is    *)
(* offline.  The browser's `online' event starts a replay of what is in    *)
(* the queue then; nothing stops an earlier replay that still waits for an *)
(* answer, and a page that is loaded starts none.  A request whose answer  *)
(* the page has given up may still be on its way, be carried out, or be    *)
(* gone.                                                                   *)
(*                                                                         *)
(* The server is what the page can see of POST /sales: it books the sale   *)
(* or refuses it, and has no key by which it would recognise one that it   *)
(* has booked before.  Faults - a refusal, an answer given up, the loss of *)
(* the network, a reload - are counted, at most MaxFaults.                 *)
(***************************************************************************)
EXTENDS Naturals, SequencesExt

CONSTANTS
    Cart,       \* what the cashier rings up
    Post,       \* requests POST /sales under way at once
    Replay,     \* runs of retryOfflineSales under way at once
    Page,       \* processPayment as the sender of a request
    Nobody,     \* the sender has given the request up
    MaxFaults

ASSUME SenderAssumption == Page \notin Replay /\ Nobody \notin Replay \cup {Page}
ASSUME FaultsAssumption == MaxFaults \in Nat

VARIABLES
    online,     \* navigator.onLine
    sale,       \* how far the page is with each cart
    queue,      \* pending_sales in the order of their keys
    replay,     \* each run: where it is, and what it has still to send
    post,       \* each request: cart, sender, how far it is
    booked,     \* times that the server has booked each cart
    faults,
    risky,      \* history: carts whose request was given up, or that two
                \* runs had in hand
    broken      \* history: since the last online event a run ended early or
                \* a sale was queued

vars == <<online, sale, queue, replay, post, booked, faults, risky, broken>>

NoRun  == [pc |-> "none", left |-> <<>>]
NoPost == [cart |-> Nobody, by |-> Nobody, at |-> "none"]

TypeOK ==
    /\ online \in BOOLEAN
    /\ sale \in [Cart -> {"new", "posting", "queuing", "queued", "sold"}]
    /\ queue \in Seq(Cart)
    /\ replay \in [Replay -> [pc : {"none", "read", "send", "wait", "remove"}, left : Seq(Cart)]]
    /\ post \in [Post -> [cart : Cart \cup {Nobody}, by : Replay \cup {Page, Nobody},
                          at : {"none", "sent", "booked", "refused"}]]
    /\ booked \in [Cart -> Nat]
    /\ faults \in 0..MaxFaults
    /\ risky \in SUBSET Cart
    /\ broken \in BOOLEAN

Init ==
    /\ online \in BOOLEAN
    /\ sale = [c \in Cart |-> "new"]
    /\ queue = <<>>
    /\ replay = [i \in Replay |-> NoRun]
    /\ post = [p \in Post |-> NoPost]
    /\ booked = [c \in Cart |-> 0]
    /\ faults = 0
    /\ risky = {}
    /\ broken = FALSE

Fault == faults < MaxFaults /\ faults' = faults + 1

Running(i) == replay[i].pc # "none"

PageFree == \A c \in Cart : sale[c] \notin {"posting", "queuing"}

\* One of the requests that are not in use is sent for cart c.
Send(c, by) ==
    \E p \in Post :
        /\ post[p].at = "none"
        /\ post' = [post EXCEPT ![p] = [cart |-> c, by |-> by, at |-> "sent"]]

(***************************************************************************)
(* processPayment.                                                         *)
(***************************************************************************)
PayOnline(c) ==
    /\ sale[c] = "new" /\ PageFree /\ online
    /\ Send(c, Page)
    /\ sale' = [sale EXCEPT ![c] = "posting"]
    /\ UNCHANGED <<online, queue, replay, booked, faults, risky, broken>>

PayOffline(c) ==
    /\ sale[c] = "new" /\ PageFree /\ ~online
    /\ sale' = [sale EXCEPT ![c] = "queuing"]
    /\ UNCHANGED <<online, queue, replay, post, booked, faults, risky, broken>>

\* IndexedDB has the sale; the network may be back by now, and its event gone.
enqueueSale(c) ==
    /\ sale[c] = "queuing"
    /\ queue' = Append(queue, c)
    /\ sale' = [sale EXCEPT ![c] = "queued"]
    /\ broken' = TRUE
    /\ UNCHANGED <<online, replay, post, booked, faults, risky>>

(***************************************************************************)
(* retryOfflineSales.                                                      *)
(***************************************************************************)
GoOffline ==
    /\ online
    /\ Fault
    /\ online' = FALSE
    /\ UNCHANGED <<sale, queue, replay, post, booked, risky, broken>>

onOnline(i) ==
    /\ ~online /\ ~Running(i)
    /\ online' = TRUE
    /\ replay' = [replay EXCEPT ![i].pc = "read"]
    /\ broken' = FALSE
    /\ UNCHANGED <<sale, queue, post, booked, faults, risky>>

getPendingSales(i) ==
    /\ replay[i].pc = "read"
    /\ replay' = [replay EXCEPT ![i] = IF queue = <<>> THEN NoRun ELSE [pc |-> "send", left |-> queue]]
    /\ risky' = IF \E k \in Replay \ {i} : Running(k) THEN risky \cup ToSet(queue) ELSE risky
    /\ UNCHANGED <<online, sale, queue, post, booked, faults, broken>>

ReplaySend(i) ==
    /\ replay[i].pc = "send"
    /\ Send(Head(replay[i].left), i)
    /\ replay' = [replay EXCEPT ![i].pc = "wait"]
    /\ UNCHANGED <<online, sale, queue, booked, faults, risky, broken>>

\* Mutant: a run ends with its first success.
AdvanceOnce(i) == replay' = [replay EXCEPT ![i] = NoRun]

\* The run without its first sale; it ends with its last one.
Advance(i) ==
    LET left == Tail(replay[i].left)
    IN  replay' = [replay EXCEPT ![i] = IF left = <<>> THEN NoRun ELSE [pc |-> "send", left |-> left]]

\* Mutant: a sale that was booked stays in the queue.
WithSent(i) == queue

\* The queue without the entry of the sale that the run has sent.
WithoutSent(i) == RemoveFirst(queue, Head(replay[i].left))

removePendingSale(i) ==
    /\ replay[i].pc = "remove"
    /\ queue' = WithoutSent(i)
    /\ Advance(i)
    /\ UNCHANGED <<online, sale, post, booked, faults, risky, broken>>

\* Mutant: the loop goes on to the next sale.
Continue(i) == Advance(i) /\ broken' = TRUE

\* The loop breaks at the first error.
Break(i) == replay' = [replay EXCEPT ![i] = NoRun] /\ broken' = TRUE

(***************************************************************************)
(* Requests and their answers.                                             *)
(***************************************************************************)
Book(p) ==
    /\ post[p].at = "sent"
    /\ booked' = [booked EXCEPT ![post[p].cart] = @ + 1]
    /\ post' = IF post[p].by = Nobody THEN [post EXCEPT ![p] = NoPost]
                                      ELSE [post EXCEPT ![p].at = "booked"]
    /\ UNCHANGED <<online, sale, queue, replay, faults, risky, broken>>

Refuse(p) ==
    /\ post[p].at = "sent" /\ post[p].by # Nobody
    /\ Fault
    /\ post' = [post EXCEPT ![p].at = "refused"]
    /\ UNCHANGED <<online, sale, queue, replay, booked, risky, broken>>

\* What the sender does with success, and with an error of any kind.
Success(by, c) ==
    IF by = Page
    THEN sale' = [sale EXCEPT ![c] = "sold"] /\ UNCHANGED <<replay, broken>>
    ELSE replay' = [replay EXCEPT ![by].pc = "remove"] /\ UNCHANGED <<sale, broken>>

Error(by, c) ==
    IF by = Page
    THEN sale' = [sale EXCEPT ![c] = "new"] /\ UNCHANGED <<replay, broken>>
    ELSE Break(by) /\ UNCHANGED sale

Answer(p) ==
    /\ post[p].by # Nobody
    /\ \/ post[p].at = "booked" /\ Success(post[p].by, post[p].cart)
       \/ post[p].at = "refused" /\ Error(post[p].by, post[p].cart)
    /\ post' = [post EXCEPT ![p] = NoPost]
    /\ UNCHANGED <<online, queue, booked, faults, risky>>

\* What is left of a request that nobody waits for.
Forgotten(p) == IF post[p].at = "sent" THEN [post[p] EXCEPT !.by = Nobody] ELSE NoPost

\* The network fails, or the 30 seconds of the client are over.
GiveUp(p) ==
    /\ post[p].by # Nobody
    /\ Fault
    /\ Error(post[p].by, post[p].cart)
    /\ post' = [post EXCEPT ![p] = Forgotten(p)]
    /\ risky' = risky \cup {post[p].cart}
    /\ UNCHANGED <<online, queue, booked>>

\* A request that nobody waits for does not arrive.
Vanish(p) ==
    /\ post[p].at = "sent" /\ post[p].by = Nobody
    /\ post' = [post EXCEPT ![p] = NoPost]
    /\ UNCHANGED <<online, sale, queue, replay, booked, faults, risky, broken>>

\* The page is loaded anew: its runs, its cart and what it waited for are
\* gone, the queue is not.
Reload ==
    /\ Fault
    /\ replay' = [i \in Replay |-> NoRun]
    /\ post' = [p \in Post |-> Forgotten(p)]
    /\ sale' = [c \in Cart |-> IF sale[c] \in {"posting", "queuing"} THEN "new" ELSE sale[c]]
    /\ risky' = risky \cup {post[p].cart : p \in {p \in Post : post[p].by # Nobody}}
                      \cup {Head(replay[i].left) : i \in {i \in Replay : replay[i].pc = "remove"}}
    /\ broken' = TRUE
    /\ UNCHANGED <<online, queue, booked>>

Next ==
    \/ \E c \in Cart : PayOnline(c) \/ PayOffline(c) \/ enqueueSale(c)
    \/ GoOffline
    \/ \E i \in Replay :
        onOnline(i) \/ getPendingSales(i) \/ ReplaySend(i) \/ removePendingSale(i)
    \/ \E p \in Post : Book(p) \/ Refuse(p) \/ Answer(p) \/ GiveUp(p) \/ Vanish(p)
    \/ Reload

Spec == Init /\ [][Next]_vars

\* A loop that waits for nothing goes on, and a request that is sent comes
\* to its end within the client's 30 seconds.
Fairness ==
    /\ \A i \in Replay :
        WF_vars(getPendingSales(i) \/ ReplaySend(i) \/ removePendingSale(i))
    /\ \A p \in Post : WF_vars(Book(p) \/ Refuse(p) \/ Answer(p) \/ GiveUp(p) \/ Vanish(p))

FairSpec == Spec /\ Fairness
-----------------------------------------------------------------------------
(***************************************************************************)
(* Properties.                                                             *)
(***************************************************************************)
\* A sale that the cashier was told is queued, or done, is in the queue or
\* booked; and it is booked once, unless the answer to one of its requests
\* was given up or two replays had it in hand.
BookedOnce ==
    \A c \in Cart :
        /\ sale[c] \in {"queued", "sold"} => Contains(queue, c) \/ booked[c] > 0
        /\ booked[c] > 1 => c \in risky

\* Sales are booked in the order in which they were taken: none is booked
\* while one before it in the queue is not, even when two replays run.
QueueOrder ==
    \A i, j \in DOMAIN queue : i < j /\ booked[queue[j]] > 0 =>
        booked[queue[i]] > 0 \/ queue[j] \in risky

\* Once the network is back the queue empties, unless the network goes
\* again, a replay ends at an error or with its page, or a sale comes into
\* the queue after the event that would have replayed it.
Drained == (online /\ ~broken) ~> (queue = <<>> \/ ~online \/ broken)
=============================================================================
