---------------------------- MODULE StoreRequests ----------------------------
(***************************************************************************)
(* Requests for a new store or a new branch, and what their approval makes.*)
(*   admin/presentation/routes.ts: POST /register-and-apply,               *)
(*     /requests/:id/approve, /requests/:id/reject                         *)
(*   stores/presentation/routes.ts: POST /requests, DELETE /requests/:id   *)
(*                                                                         *)
(* A registration makes an inactive user and a request in one transaction. *)
(* An approval is not one: it reads the request, makes a tenant and what   *)
(* belongs to it, one statement after the other, and at last updates the   *)
(* request by id.  It may fail between any two; a rejection, a             *)
(* cancellation or another approval may come in between.                   *)
(*                                                                         *)
(* The tenant that an approval makes is named by its review.  Who may      *)
(* review is left out, and so are codes, which a tenant has for itself.    *)
(***************************************************************************)
EXTENDS Naturals, Sequences

CONSTANTS
    Review,     \* calls that approve, reject or cancel a request
    Form,       \* store_requests
    Owner,      \* users who ask
    Home,       \* the tenant of an owner who had one before
    NoTenant

ASSUME TenantAssumption == Home \notin Review /\ NoTenant \notin Review \cup {Home}

VARIABLES
    review,     \* handlers
    form,       \* store_requests
    owner,      \* users
    built       \* what each approval has inserted

formVars == <<review, form, owner, built>>

NoReview == [pc |-> "idle", form |-> {}, after |-> {}]
NoForm   == [status |-> "none", type |-> "none", by |-> {}, tenant |-> NoTenant, branch |-> FALSE]
NoOwner  == [known |-> FALSE, active |-> FALSE, tenant |-> NoTenant]

\* Mutant: the request is approved first.
ApprovedFirst == <<"approve", "tenant", "store", "branch", "grant", "owner", "name">>

\* The statements of an approval of a new store: four inserts, the updates
\* of the owner and of the request's tenant, the update of its status.
Statements == <<"tenant", "store", "branch", "grant", "owner", "name", "approve">>

Inserts == {"tenant", "store", "branch", "grant"}

Working == {Statements[k] : k \in DOMAIN Statements} \cup {"reject", "cancel"}

FormsTypeOK ==
    /\ review \in [Review -> [pc : Working \cup {"idle", "ok", "failed"},
                              form : SUBSET Form, after : SUBSET Review]]
    /\ form \in [Form -> [status : {"none", "pending", "approved", "rejected", "deleted"},
                          type : {"none", "new_store", "new_branch"}, by : SUBSET Owner,
                          tenant : Review \cup {Home, NoTenant}, branch : BOOLEAN]]
    /\ owner \in [Owner -> [known : BOOLEAN, active : BOOLEAN,
                            tenant : Review \cup {Home, NoTenant}]]
    /\ built \in [Review -> SUBSET Inserts]

FormsInit ==
    /\ review = [r \in Review |-> NoReview]
    /\ form = [f \in Form |-> NoForm]
    /\ owner \in [Owner -> {NoOwner, [known |-> TRUE, active |-> TRUE, tenant |-> Home]}]
    /\ built = [r \in Review |-> {}]

(***************************************************************************)
(* Making a request.                                                       *)
(***************************************************************************)
\* POST /register-and-apply; the index on users.email is behind its check.
RegisterAndApply(f, o) ==
    /\ form[f].status = "none" /\ ~owner[o].known
    /\ owner' = [owner EXCEPT ![o].known = TRUE]
    /\ form' = [form EXCEPT ![f] =
        [status |-> "pending", type |-> "new_store", by |-> {o}, tenant |-> NoTenant,
         branch |-> FALSE]]
    /\ UNCHANGED <<review, built>>

\* POST /requests, by a user who can log in; it may name a branch.
Apply(f, o, type, branch) ==
    /\ form[f].status = "none" /\ owner[o].active
    /\ form' = [form EXCEPT ![f] = [status |-> "pending", type |-> type, by |-> {o},
                                    tenant |-> owner[o].tenant, branch |-> branch]]
    /\ UNCHANGED <<review, owner, built>>

(***************************************************************************)
(* Deciding on it.                                                         *)
(***************************************************************************)
isPending(f) == form[f].status = "pending"

\* The read of a pending request; pc is the handler's next statement.
ReadForm(r, f, pc) ==
    /\ review[r].pc = "idle"
    /\ isPending(f)
    /\ review' = [review EXCEPT ![r] = [pc |-> pc, form |-> {f},
        after |-> {q \in Review : review[q].pc \in {"ok", "failed"}}]]
    /\ UNCHANGED <<form, owner, built>>

\* A branch goes to a store that the tenant has.
ApproveForm(r, f) ==
    \/ form[f].type = "new_store" /\ ReadForm(r, f, Head(Statements))
    \/ form[f].type = "new_branch" /\ form[f].tenant # NoTenant /\ ReadForm(r, f, "branch")

RejectForm(r, f) == ReadForm(r, f, "reject")

CancelForm(r, f) == (\E o \in form[f].by : owner[o].active) /\ ReadForm(r, f, "cancel")

\* The statement after pc.
Following(pc) ==
    LET k == CHOOSE k \in DOMAIN Statements : Statements[k] = pc
    IN  IF k = Len(Statements) THEN "ok" ELSE Statements[k + 1]

GoOn(r, f) == review' = [review EXCEPT ![r].pc =
    IF form[f].type = "new_branch" /\ @ = "branch" THEN "approve" ELSE Following(@)]

Insert(r, f) ==
    /\ review[r].pc \in Inserts
    /\ built' = IF review[r].pc = "branch" /\ form[f].branch /\ form[f].type = "new_store"
                THEN built ELSE [built EXCEPT ![r] = @ \cup {review[r].pc}]
    /\ GoOn(r, f)
    /\ UNCHANGED <<form, owner>>

\* The owner is activated and belongs to the tenant from now on.
ActivateOwner(r, f) ==
    /\ review[r].pc = "owner"
    /\ owner' = [o \in Owner |-> IF o \in form[f].by
                                 THEN [known |-> TRUE, active |-> TRUE, tenant |-> r]
                                 ELSE owner[o]]
    /\ GoOn(r, f)
    /\ UNCHANGED <<form, built>>

\* An update by id, of a request that may have been deleted.
UpdateForm(r, f, row) ==
    /\ form' = IF form[f].status = "deleted" THEN form ELSE [form EXCEPT ![f] = row]
    /\ UNCHANGED <<owner, built>>

NameTenant(r, f) ==
    review[r].pc = "name" /\ GoOn(r, f) /\ UpdateForm(r, f, [form[f] EXCEPT !.tenant = r])

SetApproved(r, f) ==
    review[r].pc = "approve" /\ GoOn(r, f)
        /\ UpdateForm(r, f, [form[f] EXCEPT !.status = "approved"])

SetRejected(r, f) ==
    /\ review[r].pc = "reject"
    /\ review' = [review EXCEPT ![r].pc = "ok"]
    /\ UpdateForm(r, f, [form[f] EXCEPT !.status = "rejected"])

DeleteForm(r, f) ==
    /\ review[r].pc = "cancel"
    /\ review' = [review EXCEPT ![r].pc = "ok"]
    /\ UpdateForm(r, f, [form[f] EXCEPT !.status = "deleted"])

\* A statement fails, or the process ends: what was done before it stays.
FailReview(r) ==
    /\ review[r].pc \in Working
    /\ review' = [review EXCEPT ![r].pc = "failed"]
    /\ UNCHANGED <<form, owner, built>>

FormsNext ==
    \/ \E f \in Form, o \in Owner :
        \/ RegisterAndApply(f, o)
        \/ \E type \in {"new_store", "new_branch"}, b \in BOOLEAN : Apply(f, o, type, b)
    \/ \E r \in Review, f \in Form :
        ApproveForm(r, f) \/ RejectForm(r, f) \/ CancelForm(r, f)
    \/ \E r \in Review : \E f \in review[r].form :
        Insert(r, f) \/ ActivateOwner(r, f) \/ NameTenant(r, f)
            \/ SetApproved(r, f) \/ SetRejected(r, f) \/ DeleteForm(r, f)
    \/ \E r \in Review : FailReview(r)

FormsSpec == FormsInit /\ [][FormsNext]_formVars
-----------------------------------------------------------------------------
(***************************************************************************)
(* Properties.                                                             *)
(***************************************************************************)
\* The owner of an approved request for a store has all that an approval
\* gives (admin/presentation/routes.ts:459-590; a role comes later, by hand):
\* active, in a tenant that has its store, its branch unless the request
\* named one, and the owner's grant.  Approvals that overlap, or failed
\* before, or a rejection in between, do not change that.
ApprovedIsProvisioned ==
    \A f \in Form : form[f].status = "approved" /\ form[f].type = "new_store" =>
        \A o \in form[f].by :
            /\ owner[o].active
            /\ \E r \in Review : \E g \in review[r].form :
                /\ owner[o].tenant = r /\ o \in form[g].by
                /\ Inserts \ (IF form[g].branch THEN {"branch"} ELSE {}) \subseteq built[r]

=============================================================================
