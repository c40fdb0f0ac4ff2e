--------------------------- MODULE KitchenOrders ---------------------------
(***************************************************************************)
(* Orders of a restaurant and the kitchen that cooks them                  *)
(* (restaurant/application/services/OrderService.ts).                      *)
(*                                                                         *)
(* Each method is one transaction at READ COMMITTED without a row lock     *)
(* before its reads.  Adding items and changing an item's status read the  *)
(* items of the order and then write the order from what they read: two    *)
(* steps, between which others commit.  The row of the item is locked by   *)
(* its update, the row of the order only by the last statement.            *)
(*                                                                         *)
(* A total is the set of items it is the sum of.  PATCH /orders/:id/status *)
(* sets a status and PUT /orders/:id any columns that its body names, the  *)
(* total among them.  Statuses are text that the routes take as it comes;  *)
(* "done" stands for the words that the kitchen's page sends and the       *)
(* service does not know                                                   *)
(* (kpos/src/routes/(app)/restaurant/kitchen/+page.svelte:377).            *)
(***************************************************************************)
CONSTANTS
    Order, Item,
    Handler,     \* transactions at work at a time
    Nowhere,     \* the order of an item that is not there
    OrderWords,  \* bound: statuses that bodies name for an order
    OrderTotals, \* bound: totals that bodies name for an order
    ItemWords    \* bound: statuses that bodies name for an item

ASSUME NowhereAssumption == Nowhere \notin Order \cup Item

VARIABLES
    order,      \* orders
    item,       \* order_items
    work,       \* handlers between their read and their commit
    left,       \* history: per order, the items that other additions
                \* committed while the last addition to commit had summed
    priced,     \* history: orders whose total a body has named since then
    blind       \* history: orders with a status that no longer follows from
                \* the items as the kitchen changed them one by one

kitchenVars == <<order, item, work, left, priced, blind>>

NoOrder == [status |-> "none", counted |-> {}]
NoItem  == [status |-> "none", order |-> Nowhere]
NoWork  == [pc |-> "idle", order |-> Nowhere, items |-> {}, status |-> "none",
            seen |-> {}, verdict |-> "none", overtaken |-> {}]

OrderStatus == {"PENDING", "PREPARING", "READY", "SERVED", "COMPLETED", "CANCELLED"}
ItemStatus  == {"PENDING", "PREPARING", "READY", "SERVED", "CANCELLED", "done"}

ASSUME WordsAssumption  == OrderWords \subseteq OrderStatus /\ ItemWords \subseteq ItemStatus
ASSUME TotalsAssumption == OrderTotals \subseteq SUBSET Item

KitchenTypeOK ==
    /\ order \in [Order -> [status : OrderStatus \cup {"none"}, counted : SUBSET Item]]
    /\ item \in [Item -> [status : ItemStatus \cup {"none"}, order : Order \cup {Nowhere}]]
    /\ work \in [Handler -> [pc : {"idle", "add", "cook"}, order : Order \cup {Nowhere},
                             items : SUBSET Item, status : ItemStatus \cup {"none"},
                             seen : SUBSET Item, verdict : {"none", "READY", "PREPARING"},
                             overtaken : SUBSET Item]]
    /\ left \in [Order -> SUBSET Item]
    /\ priced \in SUBSET Order
    /\ blind \in SUBSET Order

KitchenInit ==
    /\ order = [o \in Order |-> NoOrder]
    /\ item = [i \in Item |-> NoItem]
    /\ work = [h \in Handler |-> NoWork]
    /\ left = [o \in Order |-> {}]
    /\ priced = {}
    /\ blind = {}

ItemsOf(o) == {i \in Item : item[i].order = o}

\* Sets of items that no row and no transaction under way has.
NewItems ==
    (SUBSET {i \in Item : item[i].status = "none" /\ \A h \in Handler : i \notin work[h].items}) \ {{}}

Listed(status) == status \in {"PENDING", "PREPARING"}

\* h is done, and its items overtake those at work on order o who have read
\* the items as they were.
Overtake(h, o, readers) == [k \in Handler |->
    IF k = h THEN NoWork
    ELSE IF work[k].order = o /\ work[k].pc \in readers
    THEN [work[k] EXCEPT !.overtaken = @ \cup work[h].items]
    ELSE work[k]]

(***************************************************************************)
(* Orders.                                                                 *)
(***************************************************************************)
create(o, I) ==
    /\ order[o].status = "none"
    /\ I \in NewItems
    /\ order' = [order EXCEPT ![o] = [status |-> "PENDING", counted |-> I]]
    /\ item' = [i \in Item |-> IF i \in I THEN [status |-> "PENDING", order |-> o] ELSE item[i]]
    /\ left' = [left EXCEPT ![o] = {}]
    /\ UNCHANGED <<work, priced, blind>>

\* Whatever status and total the body names; what it does not name stays.
update(o, status, total) ==
    /\ order[o].status # "none"
    /\ order' = [order EXCEPT ![o] = [status |-> status, counted |-> total]]
    /\ blind' = IF status = order[o].status THEN blind ELSE blind \cup {o}
    /\ IF total = order[o].counted THEN UNCHANGED <<left, priced>>
       ELSE left' = [left EXCEPT ![o] = {}] /\ priced' = priced \cup {o}
    /\ UNCHANGED <<item, work>>

\* Mutant: the new items are summed without the old ones.
addItemsReadNew(h, o, I) ==
    /\ work[h].pc = "idle" /\ order[o].status # "none"
    /\ I \in NewItems
    /\ work' = [work EXCEPT ![h] =
        [pc |-> "add", order |-> o, items |-> I, status |-> "none", seen |-> I,
         verdict |-> "none", overtaken |-> {}]]
    /\ UNCHANGED <<order, item, left, priced, blind>>

\* The insert of the items and the sum over all that are visible then.
addItemsRead(h, o, I) ==
    /\ work[h].pc = "idle" /\ order[o].status # "none"
    /\ I \in NewItems
    /\ work' = [work EXCEPT ![h] =
        [pc |-> "add", order |-> o, items |-> I, status |-> "none", seen |-> ItemsOf(o) \cup I,
         verdict |-> "none", overtaken |-> {}]]
    /\ UNCHANGED <<order, item, left, priced, blind>>

addItemsCommit(h) ==
    LET o == work[h].order
    IN  /\ work[h].pc = "add"
        /\ order' = [order EXCEPT ![o].counted = work[h].seen]
        /\ item' = [i \in Item |->
            IF i \in work[h].items THEN [status |-> "PENDING", order |-> o] ELSE item[i]]
        /\ left' = [left EXCEPT ![o] = work[h].overtaken]
        /\ priced' = priced \ {o}
        /\ blind' = IF Listed(order[o].status) THEN blind ELSE blind \cup {o}
        /\ work' = Overtake(h, o, {"add", "cook"})

(***************************************************************************)
(* The kitchen.                                                            *)
(***************************************************************************)
\* Mutant: one item that is ready is enough.
VerdictSome(statuses) ==
    IF statuses \cap {"READY", "SERVED"} # {} THEN "READY"
    ELSE IF "PREPARING" \in statuses THEN "PREPARING"
    ELSE "none"

\* What the statuses of an order's items say of it.
Verdict(statuses) ==
    IF statuses \subseteq {"READY", "SERVED"} THEN "READY"
    ELSE IF "PREPARING" \in statuses THEN "PREPARING"
    ELSE "none"

\* The update of the item, whose row is then locked, and the read of the order.
updateItemStatusRead(h, i, status) ==
    LET o == item[i].order
    IN  /\ work[h].pc = "idle" /\ item[i].status # "none"
        /\ \A k \in Handler : work[k].pc = "cook" => i \notin work[k].items
        /\ work' = [work EXCEPT ![h] =
            [pc |-> "cook", order |-> o, items |-> {i}, status |-> status, seen |-> {},
             verdict |-> Verdict({item[k].status : k \in ItemsOf(o) \ {i}} \cup {status}),
             overtaken |-> {}]]
        /\ UNCHANGED <<order, item, left, priced, blind>>

updateItemStatusCommit(h) ==
    LET o == work[h].order
        taken == work[h].verdict # "none"
    IN  /\ work[h].pc = "cook"
        /\ item' = [i \in Item |->
            IF i \in work[h].items THEN [item[i] EXCEPT !.status = work[h].status] ELSE item[i]]
        /\ order' = IF taken THEN [order EXCEPT ![o].status = work[h].verdict] ELSE order
        /\ blind' = IF work[h].overtaken # {} \/ work[h].status = "PENDING" THEN blind \cup {o} ELSE blind
        /\ work' = Overtake(h, o, {"cook"})
        /\ UNCHANGED <<left, priced>>

\* The transaction fails and nothing of it stays.
Abort(h) ==
    /\ work[h].pc # "idle"
    /\ work' = [work EXCEPT ![h] = NoWork]
    /\ UNCHANGED <<order, item, left, priced, blind>>

KitchenNext ==
    \/ \E o \in Order : \E I \in SUBSET Item : create(o, I)
    \/ \E o \in Order : \E status \in OrderWords \cup {order[o].status} :
           \E total \in OrderTotals \cup {order[o].counted} : update(o, status, total)
    \/ \E h \in Handler :
        \/ \E o \in Order : \E I \in SUBSET Item : addItemsRead(h, o, I)
        \/ \E i \in Item : \E s \in ItemWords : updateItemStatusRead(h, i, s)
        \/ addItemsCommit(h) \/ updateItemStatusCommit(h) \/ Abort(h)

KitchenSpec == KitchenInit /\ [][KitchenNext]_kitchenVars
-----------------------------------------------------------------------------
(***************************************************************************)
(* Properties.                                                             *)
(***************************************************************************)
\* Until a body names another total, an order's total is the sum of all its
\* items but those that other additions committed after the last one had summed
\* and before it wrote: nothing else is ever left out, nothing is charged that
\* was not ordered, and an addition that nothing overtakes makes good what
\* earlier ones and bodies did.
TotalIsItems ==
    \A o \in Order \ priced :
        order[o].status # "none" => order[o].counted = ItemsOf(o) \ left[o]

\* The kitchen's list has every order with an item to cook.  Exceptions: a
\* waiter set the order's status, added to an order that had left the list,
\* an item was put back, or two changes of one order overtook each other.
KitchenSees ==
    \A i \in Item : item[i].status \in {"PENDING", "PREPARING"} =>
        Listed(order[item[i].order].status) \/ item[i].order \in blind
=============================================================================
