----------------------------- MODULE MCApprovals -----------------------------
(***************************************************************************)
(* What goes from hand to hand: stock documents, expenses and requests for *)
(* a store, which a second person decides on, and a restaurant's orders,   *)
(* which the kitchen works on.  They share no state, so a run looks at one *)
(* of them at a time and leaves the others where they begin.               *)
(*                                                                         *)
(* SERVED and CANCELLED are left out of the words for items, and with      *)
(* COMPLETED of those for orders: the kitchen treats an item of the first  *)
(* as READY, of the second as "done", and an order of the three as READY.  *)
(***************************************************************************)
EXTENDS MCStockDocuments, Expenses, StoreRequests, KitchenOrders

VARIABLE desk   \* the one that moves

MCOrderWords  == {"PENDING", "READY"}
MCOrderTotals == {{}}
MCItemWords   == {"PENDING", "PREPARING", "READY", "done"}

MCInit ==
    /\ desk \in {"stock", "expenses", "stores", "kitchen"}
    /\ Init /\ ExpensesInit /\ FormsInit /\ KitchenInit
    /\ desk # "stock" => doc = [d \in Doc |-> NoDoc]
    /\ desk # "expenses" => \A e \in Expense : expense[e] = NoExpense
    /\ desk # "stores" => \A o \in Owner : owner[o] = NoOwner

\* Calls are interchangeable: they come in the order of their numbers.
InOrder(Calls, calls) ==
    \A c \in Calls : calls[c].pc # "idle" => \A d \in Calls : d < c => calls[d].pc # "idle"

MCNext ==
    /\ \/ desk = "stock" /\ Next /\ UNCHANGED <<expenseVars, formVars, kitchenVars>>
       \/ desk = "expenses" /\ ExpensesNext /\ InOrder(Call, call)' /\ UNCHANGED <<vars, formVars, kitchenVars>>
       \/ desk = "stores" /\ FormsNext /\ InOrder(Review, review)' /\ UNCHANGED <<vars, expenseVars, kitchenVars>>
       \/ desk = "kitchen" /\ KitchenNext /\ UNCHANGED <<vars, expenseVars, formVars>>
    /\ UNCHANGED desk

MCSpec == MCInit /\ [][MCNext]_<<vars, expenseVars, formVars, kitchenVars, desk>>

MCSymmetry == Permutations(Item)
=============================================================================
