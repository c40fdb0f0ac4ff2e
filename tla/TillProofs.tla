----------------------------- MODULE TillProofs -----------------------------
(***************************************************************************)
(* Proofs about the two protocols of the till's page, for any carts,       *)
(* requests, questions, replays and number of faults: the payment by QR    *)
(* code and the queue of offline sales.                                    *)
(*                                                                         *)
(* QrSaleIsPaid rests on two chains: money is behind every PAID, wherever  *)
(* it stands - in a row, in a question under way, on the page - and what   *)
(* the page has from an answer is about the page's own cart, or the cart   *)
(* is among those that got a stale answer.                                 *)
(***************************************************************************)
EXTENDS OfflineSales, QrPayments, SequenceTheorems, TLAPS

(***************************************************************************)
(* The payment by QR code.                                                 *)
(***************************************************************************)
Made(q) == q \in Qr /\ row[q] # "none"

\* A request that the page or an answer on its way names has a row.
QrNamesAreMade ==
    /\ \A q \in money \cup creating : Made(q)
    /\ page.timer => Made(page.qr)
    /\ \A i \in Poll : poll[i].pc # "none" => Made(poll[i].qr)

\* The answer of a question is decided before it is on its way.
PollsAreDecided ==
    \A i \in Poll :
        /\ poll[i].pc = "expire" => poll[i].status = "expired"
        /\ poll[i].pc = "confirm" => poll[i].status = "paid"
        /\ poll[i].pc = "answer" => poll[i].status # "none"

PaidHasMoney ==
    /\ \A q \in Qr : row[q] = "paid" => q \in money
    /\ \A i \in Poll : poll[i].status = "paid" => poll[i].qr \in money
    /\ page.status = "paid" => page.by \in money

PageIsOwn ==
    page.status = "paid" /\ page.cart # None => made[page.by] = page.cart \/ page.cart \in stale

QrInv ==
    /\ QrTypeOK
    /\ QrNamesAreMade
    /\ PollsAreDecided
    /\ PaidHasMoney
    /\ PageIsOwn
    /\ QrSaleIsPaid
-----------------------------------------------------------------------------
LEMMA QrInvInit == QrInit => QrInv
BY NoneAssumption
   DEF QrInit, QrInv, QrTypeOK, QrNamesAreMade, PollsAreDecided, PaidHasMoney, PageIsOwn,
       QrSaleIsPaid, NoPage, NoPoll, Made

LEMMA OpenStep ==
    ASSUME QrInv, NEW c \in Bill, openPaymentModal(c)
    PROVE  QrInv'
<1> USE NoneAssumption DEF QrInv, QrTypeOK, openPaymentModal, resetQrPayment, NoPage, Made
<1>1. QrTypeOK'
  BY DEF QrNamesAreMade, PollsAreDecided, PaidHasMoney, PageIsOwn, QrSaleIsPaid
<1>2. QrNamesAreMade'
  BY DEF QrNamesAreMade
<1>3. PollsAreDecided'
  BY DEF PollsAreDecided
<1>4. PaidHasMoney'
  BY DEF PaidHasMoney
<1>5. PageIsOwn'
  BY DEF PageIsOwn
<1>6. QrSaleIsPaid'
  BY DEF QrSaleIsPaid
<1> QED BY <1>1, <1>2, <1>3, <1>4, <1>5, <1>6

LEMMA CheckoutStep ==
    ASSUME QrInv, NEW c \in Bill, CheckoutByQr(c)
    PROVE  QrInv'
<1> USE NoneAssumption DEF QrInv, QrTypeOK, CheckoutByQr, canCheckout, resetQrPayment, NoPage, Made
<1>1. QrTypeOK'
  OBVIOUS
<1>2. QrNamesAreMade'
  BY DEF QrNamesAreMade
<1>3. PollsAreDecided'
  BY DEF PollsAreDecided
<1>4. PaidHasMoney'
  BY DEF PaidHasMoney
<1>5. PageIsOwn'
  BY DEF PageIsOwn
<1>6. QrSaleIsPaid'
  BY DEF PaidHasMoney, PageIsOwn, QrSaleIsPaid
<1> QED BY <1>1, <1>2, <1>3, <1>4, <1>5, <1>6

LEMMA GenerateStep ==
    ASSUME QrInv, NEW q \in Qr, generateQrPayment(q)
    PROVE  QrInv'
<1> USE NoneAssumption DEF QrInv, QrTypeOK, generateQrPayment, Made
<1>1. QrTypeOK'
  OBVIOUS
<1>2. QrNamesAreMade'
  BY DEF QrNamesAreMade
<1>3. PollsAreDecided'
  BY DEF PollsAreDecided
<1>4. PaidHasMoney'
  BY DEF PaidHasMoney
<1>5. PageIsOwn'
  BY DEF PageIsOwn
<1>6. QrSaleIsPaid'
  BY DEF QrNamesAreMade, QrSaleIsPaid
<1> QED BY <1>1, <1>2, <1>3, <1>4, <1>5, <1>6

LEMMA GeneratedStep ==
    ASSUME QrInv, NEW q \in Qr, Generated(q)
    PROVE  QrInv'
<1> USE NoneAssumption DEF QrInv, QrTypeOK, Generated, Made
<1>1. QrTypeOK'
  OBVIOUS
<1>2. QrNamesAreMade'
  BY DEF QrNamesAreMade
<1>3. PollsAreDecided'
  BY DEF PollsAreDecided
<1>4. PaidHasMoney'
  BY DEF PaidHasMoney
<1>5. PageIsOwn'
  BY DEF PageIsOwn
<1>6. QrSaleIsPaid'
  BY DEF QrNamesAreMade, PollsAreDecided, PaidHasMoney, PageIsOwn, QrSaleIsPaid
<1> QED BY <1>1, <1>2, <1>3, <1>4, <1>5, <1>6

LEMMA GenerateFailsStep ==
    ASSUME QrInv, NEW q \in Qr, GenerateFails(q)
    PROVE  QrInv'
<1> USE NoneAssumption DEF QrInv, QrTypeOK, GenerateFails, Made
<1>1. QrTypeOK'
  OBVIOUS
<1>2. QrNamesAreMade'
  BY DEF QrNamesAreMade
<1>3. PollsAreDecided'
  BY DEF PollsAreDecided
<1>4. PaidHasMoney'
  BY DEF PaidHasMoney
<1>5. PageIsOwn'
  BY DEF PageIsOwn
<1>6. QrSaleIsPaid'
  BY DEF QrSaleIsPaid
<1> QED BY <1>1, <1>2, <1>3, <1>4, <1>5, <1>6

LEMMA NotifyStep ==
    ASSUME QrInv, NEW q \in Qr, handleSwiftPassNotify(q)
    PROVE  QrInv'
<1> USE NoneAssumption DEF QrInv, QrTypeOK, handleSwiftPassNotify, Made
<1>1. QrTypeOK'
  OBVIOUS
<1>2. QrNamesAreMade'
  BY DEF QrNamesAreMade
<1>3. PollsAreDecided'
  BY DEF PollsAreDecided
<1>4. PaidHasMoney'
  BY DEF PaidHasMoney
<1>5. PageIsOwn'
  BY DEF PageIsOwn
<1>6. QrSaleIsPaid'
  BY DEF QrSaleIsPaid
<1> QED BY <1>1, <1>2, <1>3, <1>4, <1>5, <1>6

LEMMA CustomerStep ==
    ASSUME QrInv, NEW q \in Qr, CustomerPays(q)
    PROVE  QrInv'
<1> USE NoneAssumption DEF QrInv, QrTypeOK, CustomerPays, Made
<1>1. QrTypeOK'
  OBVIOUS
<1>2. QrNamesAreMade'
  BY DEF QrNamesAreMade
<1>3. PollsAreDecided'
  BY DEF PollsAreDecided
<1>4. PaidHasMoney'
  BY DEF PaidHasMoney
<1>5. PageIsOwn'
  BY DEF PageIsOwn
<1>6. QrSaleIsPaid'
  BY DEF QrSaleIsPaid
<1> QED BY <1>1, <1>2, <1>3, <1>4, <1>5, <1>6

LEMMA ExpiresStep ==
    ASSUME QrInv, NEW q \in Qr, Expires(q)
    PROVE  QrInv'
<1> USE NoneAssumption DEF QrInv, QrTypeOK, Expires, Made
<1>1. QrTypeOK'
  OBVIOUS
<1>2. QrNamesAreMade'
  BY DEF QrNamesAreMade
<1>3. PollsAreDecided'
  BY DEF PollsAreDecided
<1>4. PaidHasMoney'
  BY DEF PaidHasMoney
<1>5. PageIsOwn'
  BY DEF PageIsOwn
<1>6. QrSaleIsPaid'
  BY DEF QrSaleIsPaid
<1> QED BY <1>1, <1>2, <1>3, <1>4, <1>5, <1>6

LEMMA PollSendStep ==
    ASSUME QrInv, NEW i \in Poll, PollSend(i)
    PROVE  QrInv'
<1> USE NoneAssumption DEF QrInv, QrTypeOK, PollSend, NoPoll, Made
<1>1. QrTypeOK'
  OBVIOUS
<1>2. QrNamesAreMade'
  BY DEF QrNamesAreMade
<1>3. PollsAreDecided'
  BY DEF PollsAreDecided
<1>4. PaidHasMoney'
  BY DEF PaidHasMoney
<1>5. PageIsOwn'
  BY DEF PageIsOwn
<1>6. QrSaleIsPaid'
  BY DEF QrSaleIsPaid
<1> QED BY <1>1, <1>2, <1>3, <1>4, <1>5, <1>6

LEMMA PollAnswerStep ==
    ASSUME QrInv, NEW i \in Poll, PollAnswer(i)
    PROVE  QrInv'
<1> USE NoneAssumption DEF QrInv, QrTypeOK, PollAnswer, NoPoll, Made
<1>1. QrTypeOK'
  BY DEF PollsAreDecided
<1>2. QrNamesAreMade'
  BY DEF QrNamesAreMade
<1>3. PollsAreDecided'
  BY DEF PollsAreDecided
<1>4. PaidHasMoney'
  BY DEF PaidHasMoney
<1>5. PageIsOwn'
  BY DEF PageIsOwn
<1>6. QrSaleIsPaid'
  BY DEF QrSaleIsPaid
<1> QED BY <1>1, <1>2, <1>3, <1>4, <1>5, <1>6

LEMMA PollFailsStep ==
    ASSUME QrInv, NEW i \in Poll, PollFails(i)
    PROVE  QrInv'
<1> USE NoneAssumption DEF QrInv, QrTypeOK, PollFails, NoPoll, Made
<1>1. QrTypeOK'
  OBVIOUS
<1>2. QrNamesAreMade'
  BY DEF QrNamesAreMade
<1>3. PollsAreDecided'
  BY DEF PollsAreDecided
<1>4. PaidHasMoney'
  BY DEF PaidHasMoney
<1>5. PageIsOwn'
  BY DEF PageIsOwn
<1>6. QrSaleIsPaid'
  BY DEF QrSaleIsPaid
<1> QED BY <1>1, <1>2, <1>3, <1>4, <1>5, <1>6

LEMMA PollReadStep ==
    ASSUME QrInv, NEW i \in Poll, PollRead(i)
    PROVE  QrInv'
<1> USE DEF QrInv, QrTypeOK, Made
<1>1. PICK pc \in {"expire", "confirm", "answer"}, status \in {"pending", "paid", "expired"} :
        /\ poll' = [poll EXCEPT ![i].pc = pc, ![i].status = status]
        /\ pc = "expire" => status = "expired"
        /\ pc = "confirm" => status = "paid"
        /\ status = "paid" => poll[i].qr \in money
  BY DEF PollRead, QrNamesAreMade, PaidHasMoney
<1>2. poll[i].pc = "sent" /\ UNCHANGED <<row, due, money, made, page, creating, sold, stale>>
  BY DEF PollRead
<1>3. QrTypeOK'
  <2> DEFINE Polls == [qr : Qr \cup {None}, pc : {"none", "sent", "expire", "confirm", "answer"},
                       status : {"none", "pending", "paid", "expired"}]
  <2> DEFINE at == [poll EXCEPT ![i].pc = pc]
  <2>1. at \in [Poll -> Polls] /\ poll' = [at EXCEPT ![i].status = status]
    BY <1>1
  <2> HIDE DEF at
  <2>2. poll' \in [Poll -> Polls]
    BY <2>1
  <2> QED BY <1>2, <2>2
<1>4. QrNamesAreMade'
  BY <1>1, <1>2 DEF QrNamesAreMade
<1>5. PollsAreDecided'
  BY <1>1, <1>2 DEF PollsAreDecided
<1>6. PaidHasMoney'
  BY <1>1, <1>2 DEF PaidHasMoney
<1>7. PageIsOwn'
  BY <1>1, <1>2 DEF PageIsOwn
<1>8. QrSaleIsPaid'
  BY <1>1, <1>2 DEF QrSaleIsPaid
<1> QED BY <1>3, <1>4, <1>5, <1>6, <1>7, <1>8

LEMMA PollWriteStep ==
    ASSUME QrInv, NEW i \in Poll, PollWrite(i)
    PROVE  QrInv'
<1> USE NoneAssumption DEF QrInv, QrTypeOK, PollWrite, Made
<1>1. QrTypeOK'
  BY DEF QrNamesAreMade
<1>2. QrNamesAreMade'
  BY DEF QrNamesAreMade, PollsAreDecided
<1>3. PollsAreDecided'
  BY DEF PollsAreDecided
<1>4. PaidHasMoney'
  BY DEF PaidHasMoney
<1>5. PageIsOwn'
  BY DEF PageIsOwn
<1>6. QrSaleIsPaid'
  BY DEF QrSaleIsPaid
<1> QED BY <1>1, <1>2, <1>3, <1>4, <1>5, <1>6

THEOREM QrInvariantHolds == QrSpec => []QrInv
<1>1. QrInv /\ [QrNext]_qrVars => QrInv'
  <2> SUFFICES ASSUME QrInv, [QrNext]_qrVars PROVE QrInv'
    OBVIOUS
  <2>1. CASE UNCHANGED qrVars
    BY <2>1 DEF qrVars, QrInv, QrTypeOK, QrNamesAreMade, PollsAreDecided, PaidHasMoney,
                PageIsOwn, QrSaleIsPaid, Made
  <2> QED
    BY <2>1, OpenStep, CheckoutStep, GenerateStep, GeneratedStep, GenerateFailsStep, NotifyStep, CustomerStep, ExpiresStep, PollSendStep, PollAnswerStep, PollFailsStep, PollReadStep, PollWriteStep DEF QrNext
<1> QED BY <1>1, QrInvInit, PTL DEF QrSpec

\* A cart checked out by QR rests on a request that the customer has paid,
\* made for this cart unless the page had an answer about another one.
THEOREM QrSalesArePaid == QrSpec => []QrSaleIsPaid
<1>1. QrInv => QrSaleIsPaid
  BY DEF QrInv
<1> QED BY <1>1, QrInvariantHolds, PTL
-----------------------------------------------------------------------------
(***************************************************************************)
(* The queue of offline sales.  While a cart is not in risky, one sender   *)
(* at most has it in hand, so it is booked at most once; and a run works   *)
(* through the queue from its front, so that what is booked and still in   *)
(* the queue is the sale at the head of some run.                          *)
(***************************************************************************)
Paying(c) == sale[c] \in {"posting", "queuing"}

Left(i) == replay[i].left

Looping(i) == replay[i].pc \in {"send", "wait", "remove"}

Sure(c) == c \in Cart /\ c \notin risky

RunsHaveSales == \A i \in Replay : Looping(i) <=> Left(i) # <<>>

PostsHaveSenders ==
    \A p \in Post : post[p].at # "none" =>
        /\ post[p].cart \in Cart
        /\ post[p].by = Nobody => post[p].at = "sent" /\ post[p].cart \in risky
        /\ post[p].by = Page => sale[post[p].cart] = "posting"
        /\ post[p].by \in Replay => /\ replay[post[p].by].pc = "wait"
                                    /\ Head(Left(post[p].by)) = post[p].cart

UnusedPosts == \A p \in Post : post[p].at = "none" => post[p] = NoPost

OnePostEach ==
    \A p, q \in Post : post[p].by = post[q].by /\ post[p].by # Nobody => p = q

\* A sender that waits has a request.
WaitersHavePosts ==
    /\ \A c \in Cart : sale[c] = "posting" => \E p \in Post : post[p].by = Page /\ post[p].cart = c
    /\ \A i \in Replay : replay[i].pc = "wait" => \E p \in Post : post[p].by = i

OneInPayment == \A c, d \in Cart : Paying(c) /\ Paying(d) => c = d

\* What is in the queue or in the hands of a run was queued, once.
QueuedOnce(q) ==
    /\ \A k \in 1..Len(q) : sale[q[k]] = "queued"
    /\ \A j, k \in 1..Len(q) : q[j] = q[k] => j = k

QueueIsQueued == QueuedOnce(queue)

LeftIsQueued == \A i \in Replay : QueuedOnce(Left(i))

OneRunEach ==
    \A i, j \in Replay, c \in Cart :
        Contains(Left(i), c) /\ Contains(Left(j), c) /\ c \notin risky => i = j

BookedIsKnown ==
    /\ \A p \in Post : post[p].at = "booked" => booked[post[p].cart] > 0
    /\ \A i \in Replay : replay[i].pc = "remove" => booked[Head(Left(i))] > 0

\* What no sender has in hand is not booked.
UnsentIsUnbooked ==
    /\ \A c \in Cart : Sure(c) /\ sale[c] \in {"new", "queuing"} => booked[c] = 0
    /\ \A p \in Post : post[p].at \in {"sent", "refused"} /\ Sure(post[p].cart) =>
                          booked[post[p].cart] = 0
    /\ \A i \in Replay : \A k \in 1..Len(Left(i)) :
          Sure(Left(i)[k]) /\ (k > 1 \/ replay[i].pc = "send") => booked[Left(i)[k]] = 0

QueuedAndBooked ==
    \A k \in 1..Len(queue) : Sure(queue[k]) /\ booked[queue[k]] > 0 =>
        \E i \in Replay : replay[i].pc \in {"wait", "remove"} /\ Head(Left(i)) = queue[k]

\* What stands in the queue before a sale of a run is booked, or before it
\* in the run.
InOrder(left, q, b) ==
    \A l \in 1..Len(left), j, k \in 1..Len(q) :
        j < k /\ q[k] = left[l] => b[q[j]] > 0 \/ \E m \in 1..(l - 1) : left[m] = q[j]

LeftIsInOrder == \A i \in Replay : InOrder(Left(i), queue, booked)

OfflineInv ==
    /\ TypeOK
    /\ RunsHaveSales
    /\ PostsHaveSenders
    /\ UnusedPosts
    /\ OnePostEach
    /\ WaitersHavePosts
    /\ OneInPayment
    /\ QueueIsQueued
    /\ LeftIsQueued
    /\ OneRunEach
    /\ BookedIsKnown
    /\ UnsentIsUnbooked
    /\ QueuedAndBooked
    /\ LeftIsInOrder
    /\ BookedOnce
-----------------------------------------------------------------------------
\* Taking out the entry of e closes the gap.
LEMMA RemoveEntry ==
    ASSUME NEW S, NEW s \in Seq(S), NEW at \in 1..Len(s),
           \A k \in 1..Len(s) : s[k] = s[at] => k = at
    PROVE  /\ RemoveFirst(s, s[at]) \in Seq(S)
           /\ Len(RemoveFirst(s, s[at])) = Len(s) - 1
           /\ \A k \in 1..(Len(s) - 1) :
                 RemoveFirst(s, s[at])[k] = IF k < at THEN s[k] ELSE s[k + 1]
<1> DEFINE e == s[at]
           I == {k \in 1..Len(s) : s[k] = e}
<1>1. I = {at}
  OBVIOUS
<1>2. SelectInSeq(s, LAMBDA v : v = e) = at
  <2>1. Min(I) = at
    <3>1. at \in {at} /\ \A y \in {at} : at <= y
      BY LenProperties
    <3> QED BY <1>1, <3>1, Zenon DEF Min
  <2> QED BY <1>1, <2>1 DEF SelectInSeq
<1>3. RemoveFirst(s, e) = SubSeq(s, 1, at - 1) \o SubSeq(s, at + 1, Len(s))
  BY <1>2 DEF RemoveFirst, RemoveAt
<1> DEFINE front == SubSeq(s, 1, at - 1)
           back  == SubSeq(s, at + 1, Len(s))
<1>4. Len(s) \in Nat
  BY LenProperties
<1>5. /\ front \in Seq(S) /\ Len(front) = at - 1
      /\ \A k \in 1..(at - 1) : front[k] = s[k]
  BY <1>4, SubSeqProperties, ElementOfSeq
<1>6. /\ back \in Seq(S) /\ Len(back) = Len(s) - at
      /\ \A k \in 1..(Len(s) - at) : back[k] = s[at + k]
  BY <1>4, SubSeqProperties, ElementOfSeq
<1> HIDE DEF front, back
<1>7. /\ front \o back \in Seq(S) /\ Len(front \o back) = Len(front) + Len(back)
      /\ \A k \in 1..(Len(front) + Len(back)) :
            (front \o back)[k] = IF k <= Len(front) THEN front[k] ELSE back[k - Len(front)]
  BY <1>5, <1>6, ConcatProperties
<1>8. RemoveFirst(s, e) = front \o back
  BY <1>3 DEF front, back
<1> HIDE DEF e
<1>9. \A k \in 1..(Len(s) - 1) :
        (front \o back)[k] = IF k < at THEN s[k] ELSE s[k + 1]
  <2> SUFFICES ASSUME NEW k \in 1..(Len(s) - 1)
               PROVE  (front \o back)[k] = IF k < at THEN s[k] ELSE s[k + 1]
    OBVIOUS
  <2>1. k \in 1..(Len(front) + Len(back)) /\ Len(front) = at - 1
    BY <1>4, <1>5, <1>6
  <2>2. CASE k < at
    <3>1. (front \o back)[k] = front[k]
      BY <1>4, <1>7, <2>1, <2>2
    <3> QED BY <1>4, <1>5, <2>2, <3>1
  <2>3. CASE ~(k < at)
    <3>1. /\ k - Len(front) \in 1..(Len(s) - at) /\ at + (k - Len(front)) = k + 1
          /\ ~(k <= Len(front))
      BY <1>4, <2>1, <2>3
    <3>2. (front \o back)[k] = back[k - Len(front)]
      BY <1>7, <2>1, <3>1
    <3>3. back[k - Len(front)] = s[k + 1]
      BY <1>6, <3>1
    <3> QED BY <2>3, <3>2, <3>3
  <2> QED BY <2>2, <2>3
<1>10. Len(front \o back) = Len(s) - 1
  BY <1>4, <1>5, <1>6, <1>7
<1> QED BY <1>7, <1>8, <1>9, <1>10 DEF e

\* What is left without e, when it is there once at most, is in its order.
LEMMA RemoveKeepsOrder ==
    ASSUME NEW S, NEW s \in Seq(S), NEW e,
           \A j, k \in 1..Len(s) : s[j] = s[k] => j = k
    PROVE  LET r == RemoveFirst(s, e)
           IN  /\ r \in Seq(S)
               /\ \E pos \in [1..Len(r) -> 1..Len(s)] :
                     /\ \A k \in 1..Len(r) : r[k] = s[pos[k]] /\ s[pos[k]] # e
                     /\ \A j, k \in 1..Len(r) : j < k => pos[j] < pos[k]
                     /\ \A k \in 1..Len(s) : s[k] # e => \E m \in 1..Len(r) : pos[m] = k
<1> DEFINE r == RemoveFirst(s, e)
<1>1. Len(s) \in Nat
  BY LenProperties
<1>2. CASE \A k \in 1..Len(s) : s[k] # e
  <2>1. r = s
    BY <1>2 DEF RemoveFirst
  <2> DEFINE pos == [k \in 1..Len(s) |-> k]
  <2>2. /\ pos \in [1..Len(r) -> 1..Len(s)]
        /\ \A k \in 1..Len(r) : r[k] = s[pos[k]] /\ s[pos[k]] # e
        /\ \A j, k \in 1..Len(r) : j < k => pos[j] < pos[k]
        /\ \A k \in 1..Len(s) : s[k] # e => \E m \in 1..Len(r) : pos[m] = k
    BY <1>1, <1>2, <2>1
  <2> QED BY <2>1, <2>2
<1>3. ASSUME NEW at \in 1..Len(s), s[at] = e
      PROVE  /\ r \in Seq(S)
             /\ \E pos \in [1..Len(r) -> 1..Len(s)] :
                   /\ \A k \in 1..Len(r) : r[k] = s[pos[k]] /\ s[pos[k]] # e
                   /\ \A j, k \in 1..Len(r) : j < k => pos[j] < pos[k]
                   /\ \A k \in 1..Len(s) : s[k] # e => \E m \in 1..Len(r) : pos[m] = k
  <2> HIDE DEF r
  <2>1. /\ r \in Seq(S)
        /\ Len(r) = Len(s) - 1
        /\ \A k \in 1..(Len(s) - 1) : r[k] = IF k < at THEN s[k] ELSE s[k + 1]
    BY <1>3, RemoveEntry DEF r
  <2> DEFINE pos == [k \in 1..Len(r) |-> IF k < at THEN k ELSE k + 1]
  <2>2. pos \in [1..Len(r) -> 1..Len(s)] /\ \A k \in 1..Len(r) : pos[k] # at
    BY <1>1, <2>1
  <2>3. \A k \in 1..Len(r) : r[k] = s[pos[k]]
    BY <1>1, <2>1
  <2>4. \A j, k \in 1..Len(r) : j < k => pos[j] < pos[k]
    BY <1>1, <2>1
  <2>5. \A k \in 1..Len(s) : s[k] # e => \E m \in 1..Len(r) : pos[m] = k
    <3> SUFFICES ASSUME NEW k \in 1..Len(s), s[k] # e
                 PROVE  \E m \in 1..Len(r) : pos[m] = k
      OBVIOUS
    <3>1. k # at
      BY <1>3
    <3>2. CASE k < at
      <4>1. k \in 1..Len(r) /\ pos[k] = k
        BY <1>1, <2>1, <3>2
      <4> QED BY <4>1
    <3>3. CASE k > at
      <4>1. k - 1 \in 1..Len(r) /\ pos[k - 1] = k
        BY <1>1, <2>1, <3>3
      <4> QED BY <4>1
    <3> QED BY <1>1, <3>1, <3>2, <3>3
  <2> HIDE DEF pos
  <2>6. \A k \in 1..Len(r) : s[pos[k]] # e
    BY <1>3, <2>2
  <2> QED BY <2>1, <2>2, <2>3, <2>4, <2>5, <2>6, ZenonT(30)
<1> QED BY <1>2, <1>3

LEMMA HeadIsFirst ==
    ASSUME NEW S, NEW s \in Seq(S), s # <<>>
    PROVE  /\ 1 \in 1..Len(s) /\ Head(s) = s[1] /\ Head(s) \in S
           /\ Tail(s) \in Seq(S) /\ Len(Tail(s)) = Len(s) - 1 /\ Len(s) \in Nat
           /\ \A k \in 1..(Len(s) - 1) : Tail(s)[k] = s[k + 1]
<1>1. Len(s) \in Nat /\ Len(s) > 0
  BY EmptySeq, LenProperties
<1> QED BY <1>1, HeadTailProperties

(***************************************************************************)
(* What keeps the order: the queue stays, runs stay or end, and nothing    *)
(* that is booked ceases to be.                                            *)
(***************************************************************************)
LEMMA OrderKept ==
    ASSUME LeftIsInOrder, queue \in Seq(Cart), queue' = queue,
           \A i \in Replay : Left(i)' \in {Left(i), <<>>},
           \A c \in Cart : booked[c] > 0 => booked'[c] > 0
    PROVE  LeftIsInOrder'
<1> SUFFICES ASSUME NEW i \in Replay, Left(i)' = Left(i)
             PROVE  InOrder(Left(i), queue, booked')
  BY EmptySeq, SMTT(30) DEF LeftIsInOrder, InOrder
<1>1. InOrder(Left(i), queue, booked)
  BY DEF LeftIsInOrder
<1>2. \A j \in 1..Len(queue) : queue[j] \in Cart
  BY ElementOfSeq
<1> QED BY <1>1, <1>2 DEF InOrder

LEMMA OfflineInvInit == Init => OfflineInv
<1> USE SenderAssumption, FaultsAssumption, EmptySeq
    DEF Init, OfflineInv, Left, Looping, Sure, Paying, NoRun, NoPost
<1> SUFFICES ASSUME Init PROVE OfflineInv
  OBVIOUS
<1>1. TypeOK
  <2>1. online \in BOOLEAN /\ broken \in BOOLEAN
    BY Zenon
  <2> QED BY <2>1 DEF TypeOK
<1>2. RunsHaveSales
  BY DEF RunsHaveSales
<1>3. PostsHaveSenders
  BY DEF PostsHaveSenders
<1>4. UnusedPosts
  BY DEF UnusedPosts
<1>5. OnePostEach
  BY DEF OnePostEach
<1>6. WaitersHavePosts
  BY DEF WaitersHavePosts
<1>7. OneInPayment
  BY DEF OneInPayment
<1>8. QueueIsQueued
  BY DEF QueueIsQueued, QueuedOnce
<1>9. LeftIsQueued
  BY DEF LeftIsQueued, QueuedOnce
<1>10. OneRunEach
  BY DEF OneRunEach, Contains
<1>11. BookedIsKnown
  BY DEF BookedIsKnown
<1>12. UnsentIsUnbooked
  BY DEF UnsentIsUnbooked
<1>13. QueuedAndBooked
  BY DEF QueuedAndBooked
<1>14. LeftIsInOrder
  BY DEF LeftIsInOrder, InOrder
<1>15. BookedOnce
  BY DEF BookedOnce
<1> QED BY <1>1, <1>2, <1>3, <1>4, <1>5, <1>6, <1>7, <1>8, <1>9, <1>10, <1>11, <1>12, <1>13, <1>14, <1>15

LEMMA PayOnlineStep ==
    ASSUME OfflineInv, NEW c \in Cart, PayOnline(c)
    PROVE  OfflineInv'
<1> USE SenderAssumption DEF OfflineInv, TypeOK, PayOnline, NoPost, Left, Looping, Sure, Paying
<1>1. PICK p \in Post :
        /\ post[p].at = "none"
        /\ post' = [post EXCEPT ![p] = [cart |-> c, by |-> Page, at |-> "sent"]]
  BY DEF Send
<1>2. post[p] = NoPost
  BY <1>1 DEF UnusedPosts
<1>3. TypeOK'
  BY <1>1, <1>2 DEF TypeOK
<1>4. RunsHaveSales'
  BY <1>1, <1>2 DEF RunsHaveSales
<1>5. PostsHaveSenders'
  BY <1>1, <1>2 DEF PostsHaveSenders
<1>6. UnusedPosts'
  BY <1>1, <1>2 DEF UnusedPosts
<1>7. OnePostEach'
  BY <1>1, <1>2 DEF OnePostEach, PostsHaveSenders, UnusedPosts, PageFree
<1>8. WaitersHavePosts'
  BY <1>1, <1>2 DEF WaitersHavePosts
<1>9. OneInPayment'
  BY <1>1, <1>2 DEF OneInPayment, PageFree
<1>10. QueueIsQueued'
  BY <1>1, <1>2 DEF QueueIsQueued, QueuedOnce
<1>11. LeftIsQueued'
  BY <1>1, <1>2 DEF LeftIsQueued, QueuedOnce
<1>12. OneRunEach'
  BY <1>1, <1>2 DEF OneRunEach
<1>13. BookedIsKnown'
  BY <1>1, <1>2 DEF BookedIsKnown
<1>14. UnsentIsUnbooked'
  BY <1>1, <1>2 DEF UnsentIsUnbooked
<1>15. QueuedAndBooked'
  BY <1>1, <1>2 DEF QueuedAndBooked
<1>16. LeftIsInOrder'
  BY <1>1, <1>2, OrderKept
<1>17. BookedOnce'
  BY <1>1, <1>2 DEF BookedOnce
<1> QED BY <1>3, <1>4, <1>5, <1>6, <1>7, <1>8, <1>9, <1>10, <1>11, <1>12, <1>13, <1>14, <1>15,
          <1>16, <1>17

LEMMA PayOfflineStep ==
    ASSUME OfflineInv, NEW c \in Cart, PayOffline(c)
    PROVE  OfflineInv'
<1> USE SenderAssumption DEF OfflineInv, TypeOK, PayOffline, Left, Looping, Sure, Paying
<1>1. TypeOK'
  BY DEF TypeOK
<1>2. RunsHaveSales'
  BY DEF RunsHaveSales
<1>3. PostsHaveSenders'
  BY DEF PostsHaveSenders
<1>4. UnusedPosts'
  BY DEF UnusedPosts
<1>5. OnePostEach'
  BY DEF OnePostEach
<1>6. WaitersHavePosts'
  BY DEF WaitersHavePosts
<1>7. OneInPayment'
  BY DEF OneInPayment, PageFree
<1>8. QueueIsQueued'
  BY DEF QueueIsQueued, QueuedOnce
<1>9. LeftIsQueued'
  BY DEF LeftIsQueued, QueuedOnce
<1>10. OneRunEach'
  BY DEF OneRunEach
<1>11. BookedIsKnown'
  BY DEF BookedIsKnown
<1>12. UnsentIsUnbooked'
  BY DEF UnsentIsUnbooked
<1>13. QueuedAndBooked'
  BY DEF QueuedAndBooked
<1>14. LeftIsInOrder'
  BY OrderKept
<1>15. BookedOnce'
  BY DEF BookedOnce
<1> QED BY <1>1, <1>2, <1>3, <1>4, <1>5, <1>6, <1>7, <1>8, <1>9, <1>10, <1>11, <1>12, <1>13,
          <1>14, <1>15

LEMMA EnqueueStep ==
    ASSUME OfflineInv, NEW c \in Cart, enqueueSale(c)
    PROVE  OfflineInv'
<1> USE SenderAssumption DEF OfflineInv, TypeOK, enqueueSale, Left, Looping, Sure, Paying
<1>1. /\ queue' \in Seq(Cart) /\ Len(queue') = Len(queue) + 1 /\ Len(queue) \in Nat
      /\ \A k \in 1..Len(queue) : queue'[k] = queue[k]
      /\ queue'[Len(queue) + 1] = c
  BY AppendProperties, LenProperties
<1>2. TypeOK'
  BY <1>1 DEF TypeOK
<1>3. RunsHaveSales'
  BY <1>1 DEF RunsHaveSales
<1>4. PostsHaveSenders'
  BY <1>1 DEF PostsHaveSenders
<1>5. UnusedPosts'
  BY <1>1 DEF UnusedPosts
<1>6. OnePostEach'
  BY <1>1 DEF OnePostEach
<1>7. WaitersHavePosts'
  BY <1>1 DEF WaitersHavePosts
<1>8. OneInPayment'
  BY <1>1 DEF OneInPayment
<1>9. QueueIsQueued'
  BY <1>1 DEF QueueIsQueued, QueuedOnce
<1>10. LeftIsQueued'
  BY <1>1 DEF LeftIsQueued, QueuedOnce
<1>11. OneRunEach'
  BY <1>1 DEF OneRunEach
<1>12. BookedIsKnown'
  BY <1>1 DEF BookedIsKnown
<1>13. UnsentIsUnbooked'
  BY <1>1 DEF UnsentIsUnbooked
<1>14. QueuedAndBooked'
  BY <1>1 DEF QueuedAndBooked, UnsentIsUnbooked
<1>15. LeftIsInOrder'
  <2> SUFFICES ASSUME NEW i \in Replay PROVE InOrder(replay[i].left, queue', booked)
    BY DEF LeftIsInOrder
  <2>1. InOrder(replay[i].left, queue, booked)
    BY DEF LeftIsInOrder
  <2>2. \A l \in 1..Len(replay[i].left) : replay[i].left[l] # c
    BY DEF LeftIsQueued, QueuedOnce
  <2> QED BY <1>1, <2>1, <2>2, SMTT(30) DEF InOrder
<1>16. BookedOnce'
  BY <1>1 DEF BookedOnce, Contains
<1> QED BY <1>2, <1>3, <1>4, <1>5, <1>6, <1>7, <1>8, <1>9, <1>10, <1>11, <1>12, <1>13, <1>14,
          <1>15, <1>16

LEMMA GoOfflineStep ==
    ASSUME OfflineInv, GoOffline
    PROVE  OfflineInv'
<1> USE SenderAssumption DEF OfflineInv, TypeOK, GoOffline, Fault, Left, Looping, Sure, Paying
<1>1. TypeOK'
  <2>1. faults' \in 0..MaxFaults
    BY FaultsAssumption
  <2>2. online' \in BOOLEAN /\ broken' \in BOOLEAN
    BY Zenon
  <2> QED BY <2>1, <2>2
<1>2. RunsHaveSales'
  BY DEF RunsHaveSales
<1>3. PostsHaveSenders'
  BY DEF PostsHaveSenders
<1>4. UnusedPosts'
  BY DEF UnusedPosts
<1>5. OnePostEach'
  BY DEF OnePostEach
<1>6. WaitersHavePosts'
  BY DEF WaitersHavePosts
<1>7. OneInPayment'
  BY DEF OneInPayment
<1>8. QueueIsQueued'
  BY DEF QueueIsQueued, QueuedOnce
<1>9. LeftIsQueued'
  BY DEF LeftIsQueued, QueuedOnce
<1>10. OneRunEach'
  BY DEF OneRunEach
<1>11. BookedIsKnown'
  BY DEF BookedIsKnown
<1>12. UnsentIsUnbooked'
  BY DEF UnsentIsUnbooked
<1>13. QueuedAndBooked'
  BY DEF QueuedAndBooked
<1>14. LeftIsInOrder'
  BY OrderKept
<1>15. BookedOnce'
  BY DEF BookedOnce
<1> QED BY <1>1, <1>2, <1>3, <1>4, <1>5, <1>6, <1>7, <1>8, <1>9, <1>10, <1>11, <1>12, <1>13,
          <1>14, <1>15

LEMMA OnOnlineStep ==
    ASSUME OfflineInv, NEW i \in Replay, onOnline(i)
    PROVE  OfflineInv'
<1> USE SenderAssumption DEF OfflineInv, TypeOK, onOnline, Running, Left, Looping, Sure, Paying
<1>1. TypeOK'
  BY DEF TypeOK, RunsHaveSales
<1>2. RunsHaveSales'
  BY DEF RunsHaveSales, RunsHaveSales
<1>3. PostsHaveSenders'
  BY DEF PostsHaveSenders, RunsHaveSales
<1>4. UnusedPosts'
  BY DEF UnusedPosts, RunsHaveSales
<1>5. OnePostEach'
  BY DEF OnePostEach, RunsHaveSales
<1>6. WaitersHavePosts'
  BY DEF WaitersHavePosts, RunsHaveSales
<1>7. OneInPayment'
  BY DEF OneInPayment, RunsHaveSales
<1>8. QueueIsQueued'
  BY DEF QueueIsQueued, QueuedOnce, RunsHaveSales
<1>9. LeftIsQueued'
  BY DEF LeftIsQueued, QueuedOnce, RunsHaveSales
<1>10. OneRunEach'
  BY DEF OneRunEach, RunsHaveSales
<1>11. BookedIsKnown'
  BY DEF BookedIsKnown, RunsHaveSales
<1>12. UnsentIsUnbooked'
  BY DEF UnsentIsUnbooked, RunsHaveSales
<1>13. QueuedAndBooked'
  BY DEF QueuedAndBooked, RunsHaveSales
<1>14. LeftIsInOrder'
  BY OrderKept
<1>15. BookedOnce'
  BY DEF BookedOnce, RunsHaveSales
<1> QED BY <1>1, <1>2, <1>3, <1>4, <1>5, <1>6, <1>7, <1>8, <1>9, <1>10, <1>11, <1>12, <1>13,
          <1>14, <1>15

LEMMA GetStep ==
    ASSUME OfflineInv, NEW i \in Replay, getPendingSales(i)
    PROVE  OfflineInv'
<1> USE SenderAssumption DEF OfflineInv, TypeOK, Left, Looping, Sure, Paying
<1>1. /\ replay[i].pc = "read" /\ Left(i) = <<>>
      /\ UNCHANGED <<online, sale, queue, post, booked, faults, broken>>
  BY DEF getPendingSales, RunsHaveSales
<1>2. /\ replay'[i].pc \in {"none", "send"} /\ Left(i)' = queue
      /\ replay'[i].pc = "none" <=> queue = <<>>
      /\ replay' \in [Replay -> [pc : {"none", "read", "send", "wait", "remove"}, left : Seq(Cart)]]
      /\ \A j \in Replay \ {i} : replay'[j] = replay[j]
  BY <1>1 DEF getPendingSales, NoRun
<1>3. /\ risky' \in SUBSET Cart /\ risky \subseteq risky'
      /\ \A j \in Replay \ {i}, k \in 1..Len(queue) : Running(j) => queue[k] \in risky'
  BY LenProperties, ElementOfSeq DEF getPendingSales, ToSet
<1>4. TypeOK'
  BY <1>1, <1>2, <1>3 DEF TypeOK
<1>5. RunsHaveSales'
  BY <1>1, <1>2, <1>3 DEF RunsHaveSales
<1>6. PostsHaveSenders'
  BY <1>1, <1>2, <1>3 DEF PostsHaveSenders
<1>7. UnusedPosts'
  BY <1>1, <1>2, <1>3 DEF UnusedPosts
<1>8. OnePostEach'
  BY <1>1, <1>2, <1>3 DEF OnePostEach
<1>9. WaitersHavePosts'
  BY <1>1, <1>2, <1>3, ZenonT(30) DEF WaitersHavePosts
<1>10. OneInPayment'
  BY <1>1, <1>2, <1>3 DEF OneInPayment
<1>11. QueueIsQueued'
  BY <1>1, <1>2, <1>3 DEF QueueIsQueued, QueuedOnce
<1>12. LeftIsQueued'
  <2> SUFFICES ASSUME NEW j \in Replay PROVE QueuedOnce(Left(j))'
    BY DEF LeftIsQueued
  <2>1. QueuedOnce(Left(j)) /\ QueuedOnce(queue)
    BY DEF QueueIsQueued, LeftIsQueued
  <2>2. Left(j)' \in {queue, Left(j)} /\ sale' = sale
    <3>1. CASE j = i
      BY <1>1, <1>2, <3>1
    <3>2. CASE j # i
      BY <1>1, <1>2, <3>2
    <3> QED BY <3>1, <3>2
  <2> QED BY <2>1, <2>2 DEF QueuedOnce
<1>13. OneRunEach'
  <2> SUFFICES ASSUME NEW a \in Replay, NEW b \in Replay, a # b, NEW c \in Cart,
                      Contains(Left(a)', c), Contains(Left(b)', c), c \notin risky'
               PROVE  FALSE
    BY DEF OneRunEach
  <2>1. ASSUME NEW j \in Replay \ {i}, Contains(Left(j), c) PROVE ~Contains(queue, c)
    <3>1. Left(j) # <<>>
      BY <2>1, EmptySeq DEF Contains
    <3>2. Running(j)
      BY <3>1 DEF RunsHaveSales, Running
    <3> QED BY <1>3, <3>2, SMTT(30) DEF Contains
  <2>2. CASE a = i
    BY <1>2, <2>1, <2>2
  <2>3. CASE b = i
    BY <1>2, <2>1, <2>3
  <2>4. CASE a # i /\ b # i
    BY <1>2, <1>3, <2>4 DEF OneRunEach
  <2> QED BY <2>2, <2>3, <2>4
<1>14. BookedIsKnown'
  BY <1>1, <1>2, <1>3 DEF BookedIsKnown
<1>15. UnsentIsUnbooked'
  <2>1. ASSUME NEW k \in 1..Len(queue), queue[k] \in Cart, queue[k] \notin risky'
        PROVE  booked[queue[k]] = 0
    <3>1. \A j \in Replay : replay[j].pc \in {"wait", "remove"} => j # i /\ Running(j)
      BY <1>1 DEF Running
    <3>2. queue[k] \notin risky /\ \A j \in Replay : replay[j].pc \notin {"wait", "remove"}
      BY <1>3, <2>1, <3>1
    <3>3. booked[queue[k]] \in Nat
      BY <2>1
    <3>4. ~(booked[queue[k]] > 0)
      <4> HIDE DEF OfflineInv, TypeOK
      <4>1. QueuedAndBooked
        BY DEF OfflineInv
      <4> QED BY <2>1, <3>2, <4>1 DEF QueuedAndBooked
    <3> QED BY <3>3, <3>4
  <2>2. ASSUME NEW j \in Replay, NEW k \in 1..Len(Left(j)'), Sure(Left(j)[k])',
               k > 1 \/ replay'[j].pc = "send"
        PROVE  booked[Left(j)'[k]] = 0
    <3>1. CASE j = i
      BY <1>2, <2>1, <2>2, <3>1
    <3>2. CASE j # i
      BY <1>2, <1>3, <2>2, <3>2 DEF UnsentIsUnbooked
    <3> QED BY <3>1, <3>2
  <2> QED BY <1>1, <1>3, <2>2 DEF UnsentIsUnbooked
<1>16. QueuedAndBooked'
  <2> SUFFICES ASSUME NEW k \in 1..Len(queue), Sure(queue[k])', booked[queue[k]] > 0
               PROVE  \E j \in Replay : replay'[j].pc \in {"wait", "remove"} /\ Head(Left(j)') = queue[k]
    BY <1>1 DEF QueuedAndBooked
  <2>1. Sure(queue[k])
    BY <1>1, <1>3
  <2>2. PICK j \in Replay : replay[j].pc \in {"wait", "remove"} /\ Head(Left(j)) = queue[k]
    BY <2>1 DEF QueuedAndBooked
  <2> QED BY <1>1, <1>2, <2>2
<1>17. LeftIsInOrder'
  <2>1. InOrder(queue, queue, booked)
    <3> HIDE DEF OfflineInv, TypeOK
    <3>1. \A j, k \in 1..Len(queue) : queue[j] = queue[k] => j = k
      BY DEF OfflineInv, QueueIsQueued, QueuedOnce
    <3>2. Len(queue) \in Nat
      BY LenProperties DEF OfflineInv, TypeOK
    <3> SUFFICES ASSUME NEW l \in 1..Len(queue), NEW j \in 1..Len(queue), NEW k \in 1..Len(queue),
                        j < k, queue[k] = queue[l]
                 PROVE  j \in 1..(l - 1)
      BY DEF InOrder
    <3> QED BY <3>1, <3>2
  <2> QED BY <1>1, <1>2, <2>1 DEF LeftIsInOrder
<1>18. BookedOnce'
  BY <1>1, <1>2, <1>3 DEF BookedOnce
<1> QED BY <1>4, <1>5, <1>6, <1>7, <1>8, <1>9, <1>10, <1>11, <1>12, <1>13, <1>14, <1>15, <1>16,
          <1>17, <1>18

LEMMA ReplaySendStep ==
    ASSUME OfflineInv, NEW i \in Replay, ReplaySend(i)
    PROVE  OfflineInv'
<1> USE SenderAssumption DEF OfflineInv, TypeOK, ReplaySend, NoPost, Left, Looping, Sure, Paying
<1>1. PICK p \in Post :
        /\ post[p].at = "none"
        /\ post' = [post EXCEPT ![p] = [cart |-> Head(Left(i)), by |-> i, at |-> "sent"]]
  BY DEF Send, ReplaySend
<1>2. post[p] = NoPost
  BY <1>1 DEF UnusedPosts
<1>3. Left(i) # <<>>
  BY DEF RunsHaveSales
<1>4. /\ Head(Left(i)) \in Cart /\ 1 \in 1..Len(Left(i)) /\ Head(Left(i)) = Left(i)[1]
      /\ \A j \in Replay : Left(j)' = Left(j)
  BY <1>3, HeadIsFirst
<1>5. \A q \in Post : post[q].by # i
  BY SMTT(30) DEF PostsHaveSenders, UnusedPosts
<1>6. TypeOK'
  BY <1>1, <1>2, <1>4, <1>5 DEF TypeOK
<1>7. RunsHaveSales'
  BY <1>1, <1>2, <1>4, <1>5 DEF RunsHaveSales
<1>8. PostsHaveSenders'
  BY <1>1, <1>2, <1>4, <1>5 DEF PostsHaveSenders
<1>9. UnusedPosts'
  BY <1>1, <1>2, <1>4, <1>5 DEF UnusedPosts
<1>10. OnePostEach'
  BY <1>1, <1>2, <1>4, <1>5 DEF OnePostEach
<1>11. WaitersHavePosts'
  BY <1>1, <1>2, <1>4, <1>5 DEF WaitersHavePosts
<1>12. OneInPayment'
  BY <1>1, <1>2, <1>4, <1>5 DEF OneInPayment
<1>13. QueueIsQueued'
  BY <1>1, <1>2, <1>4, <1>5 DEF QueueIsQueued, QueuedOnce
<1>14. LeftIsQueued'
  BY <1>1, <1>2, <1>4, <1>5 DEF LeftIsQueued, QueuedOnce
<1>15. OneRunEach'
  BY <1>1, <1>2, <1>4, <1>5 DEF OneRunEach
<1>16. BookedIsKnown'
  BY <1>1, <1>2, <1>4, <1>5 DEF BookedIsKnown
<1>17. UnsentIsUnbooked'
  BY <1>1, <1>2, <1>4, <1>5 DEF UnsentIsUnbooked
<1>18. QueuedAndBooked'
  BY <1>1, <1>2, <1>4, <1>5 DEF QueuedAndBooked
<1>19. LeftIsInOrder'
  BY <1>1, <1>2, <1>4, <1>5, OrderKept
<1>20. BookedOnce'
  BY <1>1, <1>2, <1>4, <1>5 DEF BookedOnce
<1> QED BY <1>6, <1>7, <1>8, <1>9, <1>10, <1>11, <1>12, <1>13, <1>14, <1>15, <1>16, <1>17, <1>18,
          <1>19, <1>20

LEMMA RemoveStep ==
    ASSUME OfflineInv, NEW i \in Replay, removePendingSale(i)
    PROVE  OfflineInv'
<1> USE SenderAssumption DEF OfflineInv, TypeOK, Left, Looping, Sure, Paying
<1> DEFINE h == Head(Left(i))
<1>1. /\ replay[i].pc = "remove" /\ Left(i) # <<>> /\ booked[h] > 0
      /\ UNCHANGED <<online, sale, post, booked, faults, risky, broken>>
  BY DEF removePendingSale, RunsHaveSales, BookedIsKnown
<1>2. /\ 1 \in 1..Len(Left(i)) /\ h = Left(i)[1] /\ h \in Cart
      /\ Tail(Left(i)) \in Seq(Cart) /\ Len(Tail(Left(i))) = Len(Left(i)) - 1 /\ Len(Left(i)) \in Nat
      /\ \A k \in 1..(Len(Left(i)) - 1) : Tail(Left(i))[k] = Left(i)[k + 1]
  BY <1>1, HeadIsFirst
<1>3. /\ replay'[i].pc \in {"none", "send"} /\ Left(i)' = Tail(Left(i))
      /\ replay'[i].pc = "none" <=> Left(i)' = <<>>
      /\ replay' \in [Replay -> [pc : {"none", "read", "send", "wait", "remove"}, left : Seq(Cart)]]
      /\ \A j \in Replay \ {i} : replay'[j] = replay[j]
  BY <1>2, EmptySeq DEF removePendingSale, Advance, NoRun
<1> HIDE DEF h
<1>4. queue' = RemoveFirst(queue, h)
  BY DEF removePendingSale, WithoutSent, h
<1>5. queue' \in Seq(Cart)
  BY <1>4, RemoveKeepsOrder DEF QueueIsQueued, QueuedOnce
<1>6. PICK pos \in [1..Len(queue') -> 1..Len(queue)] :
         /\ \A k \in 1..Len(queue') : queue'[k] = queue[pos[k]] /\ queue[pos[k]] # h
         /\ \A j, k \in 1..Len(queue') : j < k => pos[j] < pos[k]
         /\ \A k \in 1..Len(queue) : queue[k] # h => \E m \in 1..Len(queue') : pos[m] = k
  <2>1. \A j, k \in 1..Len(queue) : queue[j] = queue[k] => j = k
    BY DEF QueueIsQueued, QueuedOnce
  <2> HIDE DEF OfflineInv, TypeOK
  <2>2. queue \in Seq(Cart)
    BY DEF OfflineInv, TypeOK
  <2>3. \E pos \in [1..Len(RemoveFirst(queue, h)) -> 1..Len(queue)] :
           /\ \A k \in 1..Len(RemoveFirst(queue, h)) :
                 RemoveFirst(queue, h)[k] = queue[pos[k]] /\ queue[pos[k]] # h
           /\ \A j, k \in 1..Len(RemoveFirst(queue, h)) : j < k => pos[j] < pos[k]
           /\ \A k \in 1..Len(queue) :
                 queue[k] # h => \E m \in 1..Len(RemoveFirst(queue, h)) : pos[m] = k
    BY <2>1, <2>2, RemoveKeepsOrder, SMTT(30)
  <2> QED BY <1>4, <2>3
<1>7. Len(queue) \in Nat /\ Len(queue') \in Nat
  BY <1>5, LenProperties
<1>8. TypeOK'
  BY <1>1, <1>2, <1>3, <1>5, <1>6, <1>7 DEF TypeOK
<1>9. RunsHaveSales'
  BY <1>2, <1>3, ZenonT(30) DEF RunsHaveSales
<1>10. PostsHaveSenders'
  BY <1>1, <1>3, ZenonT(30) DEF PostsHaveSenders
<1>11. UnusedPosts'
  BY <1>1, <1>2, <1>3, <1>5, <1>6, <1>7 DEF UnusedPosts
<1>12. OnePostEach'
  BY <1>1, <1>2, <1>3, <1>5, <1>6, <1>7 DEF OnePostEach
<1>13. WaitersHavePosts'
  BY <1>1, <1>3, ZenonT(30) DEF WaitersHavePosts
<1>14. OneInPayment'
  BY <1>1, <1>2, <1>3, <1>5, <1>6, <1>7 DEF OneInPayment
<1>15. QueueIsQueued'
  <2> SUFFICES ASSUME NEW k \in 1..Len(queue')
               PROVE  /\ sale[queue'[k]] = "queued"
                      /\ \A j \in 1..Len(queue') : queue'[j] = queue'[k] => j = k
    BY <1>1 DEF QueueIsQueued, QueuedOnce
  <2>1. queue'[k] = queue[pos[k]] /\ pos[k] \in 1..Len(queue)
    BY <1>6
  <2>2. ASSUME NEW j \in 1..Len(queue'), queue'[j] = queue'[k], j # k PROVE FALSE
    <3>1. pos[j] # pos[k] /\ pos[j] \in 1..Len(queue) /\ queue'[j] = queue[pos[j]]
      BY <1>6, <1>7, <2>2, SMTT(30)
    <3> QED BY <2>1, <2>2, <3>1 DEF QueueIsQueued, QueuedOnce
  <2> QED BY <2>1, <2>2 DEF QueueIsQueued, QueuedOnce
<1>16. LeftIsQueued'
  <2>1. \A j \in Replay : QueuedOnce(Left(j))
    BY DEF LeftIsQueued
  <2>2. QueuedOnce(Tail(Left(i)))
    <3>1. /\ \A k \in 1..Len(Tail(Left(i))) : k + 1 \in 1..Len(Left(i))
          /\ \A k \in 1..Len(Tail(Left(i))) : Tail(Left(i))[k] = Left(i)[k + 1]
      BY <1>2
    <3>2. QueuedOnce(Left(i)) /\ Len(Left(i)) \in Nat
      BY <1>2, <2>1
    <3> QED BY <3>1, <3>2 DEF QueuedOnce
  <2> SUFFICES ASSUME NEW j \in Replay PROVE QueuedOnce(Left(j))'
    BY DEF LeftIsQueued
  <2>3. CASE j = i
    <3>1. Left(j)' = Tail(Left(i)) /\ sale' = sale
      BY <1>1, <1>3, <2>3
    <3> QED BY <2>2, <3>1 DEF QueuedOnce
  <2>4. CASE j # i
    BY <1>1, <1>3, <2>1, <2>4, SMTT(30) DEF QueuedOnce
  <2> QED BY <2>3, <2>4
<1>17. OneRunEach'
  <2>1. \A c : Contains(Tail(Left(i)), c) => Contains(Left(i), c)
    BY <1>2 DEF Contains
  <2>2. ASSUME NEW j \in Replay, NEW c \in Cart, Contains(Left(j)', c) PROVE Contains(Left(j), c)
    <3>1. CASE j = i
      BY <1>3, <2>1, <2>2, <3>1
    <3>2. CASE j # i
      BY <1>3, <2>2, <3>2
    <3> QED BY <3>1, <3>2
  <2> QED BY <1>1, <2>2 DEF OneRunEach
<1>18. BookedIsKnown'
  BY <1>1, <1>2, <1>3, <1>5, <1>6, <1>7 DEF BookedIsKnown
<1>19. UnsentIsUnbooked'
  <2>1. ASSUME NEW j \in Replay, NEW k \in 1..Len(Left(j)'), Sure(Left(j)[k])',
               k > 1 \/ replay'[j].pc = "send"
        PROVE  booked[Left(j)'[k]] = 0
    <3>1. CASE j = i
      <4>1. k \in 1..Len(Tail(Left(i)))
        BY <1>3, <2>1, <3>1
      <4>2. k + 1 \in 1..Len(Left(i)) /\ k + 1 > 1 /\ Left(i)'[k] = Left(i)[k + 1]
        <5> HIDE DEF OfflineInv, TypeOK, Left
        <5>1. k \in 1..(Len(Left(i)) - 1) /\ Len(Left(i)) \in Nat
          BY <1>2, <4>1
        <5>2. Left(i)'[k] = Left(i)[k + 1]
          BY <1>2, <1>3, <5>1
        <5> QED BY <5>1, <5>2
      <4> QED BY <1>1, <2>1, <3>1, <4>2 DEF UnsentIsUnbooked
    <3>2. CASE j # i
      BY <1>1, <1>3, <2>1, <3>2 DEF UnsentIsUnbooked
    <3> QED BY <3>1, <3>2
  <2> QED BY <1>1, <2>1 DEF UnsentIsUnbooked
<1>20. QueuedAndBooked'
  <2> SUFFICES ASSUME NEW k \in 1..Len(queue'), Sure(queue[k])', booked[queue'[k]] > 0
               PROVE  \E j \in Replay : replay'[j].pc \in {"wait", "remove"} /\ Head(Left(j)') = queue'[k]
    BY <1>1 DEF QueuedAndBooked
  <2>1. pos[k] \in 1..Len(queue) /\ queue'[k] = queue[pos[k]] /\ queue'[k] # h
    BY <1>6
  <2>2. PICK j \in Replay : replay[j].pc \in {"wait", "remove"} /\ Head(Left(j)) = queue'[k]
    BY <1>1, <2>1 DEF QueuedAndBooked
  <2>3. j # i
    BY <2>1, <2>2 DEF h
  <2> QED BY <1>3, <2>2, <2>3
<1>21. LeftIsInOrder'
  <2> SUFFICES ASSUME NEW j \in Replay PROVE InOrder(Left(j)', queue', booked)
    BY <1>1 DEF LeftIsInOrder
  <2>1. \A left : InOrder(left, queue, booked) => InOrder(left, queue', booked)
    <3> SUFFICES ASSUME NEW left, InOrder(left, queue, booked) PROVE InOrder(left, queue', booked)
      OBVIOUS
    <3> SUFFICES ASSUME NEW l \in 1..Len(left), NEW a \in 1..Len(queue'), NEW k \in 1..Len(queue'),
                        a < k, queue'[k] = left[l]
                 PROVE  booked[queue'[a]] > 0 \/ \E m \in 1..(l - 1) : left[m] = queue'[a]
      BY DEF InOrder
    <3>1. /\ pos[a] \in 1..Len(queue) /\ pos[k] \in 1..Len(queue) /\ pos[a] < pos[k]
          /\ queue'[a] = queue[pos[a]] /\ queue'[k] = queue[pos[k]]
      BY <1>6
    <3>2. booked[queue[pos[a]]] > 0 \/ \E m \in 1..(l - 1) : left[m] = queue[pos[a]]
      <4> HIDE DEF OfflineInv
      <4>1. l \in 1..Len(left) /\ queue[pos[k]] = left[l]
        BY <3>1
      <4>2. InOrder(left, queue, booked)
        OBVIOUS
      <4> QED BY <3>1, <4>1, <4>2 DEF InOrder
    <3> QED BY <3>1, <3>2
  <2>2. InOrder(Left(i), queue', booked) => InOrder(Tail(Left(i)), queue', booked)
    <3> SUFFICES ASSUME InOrder(Left(i), queue', booked),
                        NEW l \in 1..Len(Tail(Left(i))), NEW a \in 1..Len(queue'), NEW k \in 1..Len(queue'),
                        a < k, queue'[k] = Tail(Left(i))[l], ~(booked[queue'[a]] > 0)
                 PROVE  \E m \in 1..(l - 1) : Tail(Left(i))[m] = queue'[a]
      BY DEF InOrder
    <3>1. l + 1 \in 1..Len(Left(i)) /\ Left(i)[l + 1] = queue'[k]
      BY <1>2
    <3>2. PICK m \in 1..l : Left(i)[m] = queue'[a]
      <4>1. l + 1 - 1 = l
        BY <1>2
      <4> QED BY <3>1, <4>1 DEF InOrder
    <3>3. m # 1
      BY <1>1, <1>2, <3>2
    <3>4. m - 1 \in 1..(l - 1) /\ Tail(Left(i))[m - 1] = Left(i)[m]
      BY <1>2, <3>2, <3>3
    <3> QED BY <3>2, <3>4
  <2>3. InOrder(Left(j), queue, booked)
    BY DEF LeftIsInOrder
  <2> QED BY <1>3, <2>1, <2>2, <2>3
<1>22. BookedOnce'
  <2> SUFFICES ASSUME NEW c \in Cart, sale[c] \in {"queued", "sold"}
               PROVE  Contains(queue', c) \/ booked[c] > 0
    BY <1>1 DEF BookedOnce
  <2>1. CASE c = h
    BY <1>1, <2>1
  <2>2. CASE c # h /\ Contains(queue, c)
    <3>1. PICK k \in 1..Len(queue) : queue[k] = c
      BY <2>2 DEF Contains
    <3>2. PICK m \in 1..Len(queue') : pos[m] = k
      BY <1>6, <2>2, <3>1
    <3> QED BY <1>6, <3>1, <3>2 DEF Contains
  <2> QED BY <2>1, <2>2 DEF BookedOnce
<1> QED BY <1>8, <1>9, <1>10, <1>11, <1>12, <1>13, <1>14, <1>15, <1>16, <1>17, <1>18, <1>19,
          <1>20, <1>21, <1>22

LEMMA BookStep ==
    ASSUME OfflineInv, NEW p \in Post, Book(p)
    PROVE  OfflineInv'
<1> USE SenderAssumption DEF OfflineInv, TypeOK, NoPost, Left, Looping, Sure, Paying
<1> DEFINE c == post[p].cart
<1>1. /\ c \in Cart /\ post[p].at = "sent"
      /\ Sure(c) => booked[c] = 0
      /\ UNCHANGED <<online, sale, queue, replay, faults, risky, broken>>
      /\ booked' = [booked EXCEPT ![c] = @ + 1]
  BY DEF Book, PostsHaveSenders, UnsentIsUnbooked
<1> HIDE DEF c
<1>2. PICK x \in [cart : Cart \cup {Nobody}, by : Replay \cup {Page, Nobody},
                  at : {"none", "sent", "booked", "refused"}] :
         /\ post' = [post EXCEPT ![p] = x]
         /\ post[p].by = Nobody => x = NoPost
         /\ post[p].by # Nobody => x.cart = c /\ x.by = post[p].by /\ x.at = "booked"
  <2>1. CASE post[p].by = Nobody
    <3>1. post' = [post EXCEPT ![p] = NoPost]
      BY <2>1 DEF Book
    <3>2. NoPost \in [cart : Cart \cup {Nobody}, by : Replay \cup {Page, Nobody},
                     at : {"none", "sent", "booked", "refused"}]
      OBVIOUS
    <3> QED BY <2>1, <3>1, <3>2, Zenon
  <2>2. CASE post[p].by # Nobody
    <3> DEFINE y == [cart |-> c, by |-> post[p].by, at |-> "booked"]
    <3>1. post' = [post EXCEPT ![p].at = "booked"]
      BY <2>2 DEF Book
    <3>2. post' = [post EXCEPT ![p] = y]
      <4>1. post'[p] = y /\ \A q \in Post : q # p => post'[q] = post[q]
        BY <3>1 DEF c
      <4>2. post' = [q \in Post |-> post'[q]] /\ post = [q \in Post |-> post[q]]
        BY <3>1
      <4> HIDE DEF y
      <4> QED BY <4>1, <4>2
    <3>3. y \in [cart : Cart \cup {Nobody}, by : Replay \cup {Page, Nobody},
                at : {"none", "sent", "booked", "refused"}]
          /\ y.cart = c /\ y.by = post[p].by /\ y.at = "booked"
      BY <1>1
    <3> QED BY <2>2, <3>2, <3>3, Zenon
  <2> QED BY <2>1, <2>2
<1>3. booked' \in [Cart -> Nat] /\ booked'[c] > 0 /\ \A d \in Cart : d # c => booked'[d] = booked[d]
  BY <1>1
<1>4. Sure(c) => booked'[c] = 1
  BY <1>1
<1>5. Sure(c) => \/ post[p].by = Page /\ sale[c] = "posting"
                 \/ /\ post[p].by \in Replay /\ replay[post[p].by].pc = "wait"
                    /\ Head(Left(post[p].by)) = c /\ Left(post[p].by)[1] = c
                    /\ 1 \in 1..Len(Left(post[p].by)) /\ sale[c] = "queued"
  <2>1. ASSUME NEW i \in Replay, replay[i].pc = "wait", Head(Left(i)) = c
        PROVE  Left(i)[1] = c /\ 1 \in 1..Len(Left(i)) /\ sale[c] = "queued"
    <3>1. Left(i) # <<>>
      BY <2>1 DEF RunsHaveSales
    <3> QED BY <2>1, <3>1, HeadIsFirst DEF LeftIsQueued, QueuedOnce
  <2> QED BY <1>1, <2>1 DEF PostsHaveSenders, c
<1>6. ASSUME Sure(c), NEW j \in Replay, NEW k \in 1..Len(Left(j)), Left(j)[k] = c
      PROVE  post[p].by = j /\ k = 1
  <2>1. sale[c] = "queued"
    BY <1>6 DEF LeftIsQueued, QueuedOnce
  <2>2. Contains(Left(j), c) /\ Contains(Left(post[p].by), c)
    BY <1>5, <1>6, <2>1 DEF Contains
  <2>3. post[p].by = j
    BY <1>1, <1>5, <1>6, <2>1, <2>2 DEF OneRunEach
  <2> QED BY <1>5, <1>6, <2>1, <2>3 DEF LeftIsQueued, QueuedOnce
<1>7. TypeOK'
  BY <1>1, <1>2, <1>3, <1>4 DEF TypeOK
<1>8. RunsHaveSales'
  BY <1>1, <1>2, <1>3, <1>4 DEF RunsHaveSales
<1>9. PostsHaveSenders'
  <2> SUFFICES ASSUME NEW q \in Post, post'[q].at # "none"
               PROVE  /\ post'[q].cart \in Cart
                      /\ post'[q].by = Nobody => post'[q].at = "sent" /\ post'[q].cart \in risky
                      /\ post'[q].by = Page => sale[post'[q].cart] = "posting"
                      /\ post'[q].by \in Replay =>
                            /\ replay[post'[q].by].pc = "wait"
                            /\ Head(Left(post'[q].by)) = post'[q].cart
    BY <1>1 DEF PostsHaveSenders
  <2>1. CASE q = p
    BY <1>1, <1>2, <2>1 DEF PostsHaveSenders, c
  <2>2. CASE q # p
    BY <1>2, <2>2 DEF PostsHaveSenders
  <2> QED BY <2>1, <2>2
<1>10. UnusedPosts'
  BY <1>1, <1>2, <1>3, <1>4 DEF UnusedPosts
<1>11. OnePostEach'
  BY <1>2 DEF OnePostEach
<1>12. WaitersHavePosts'
  BY <1>1, <1>2, <1>2 DEF WaitersHavePosts, c
<1>13. OneInPayment'
  BY <1>1, <1>2, <1>3, <1>4 DEF OneInPayment
<1>14. QueueIsQueued'
  BY <1>1, <1>2, <1>3, <1>4 DEF QueueIsQueued, QueuedOnce
<1>15. LeftIsQueued'
  BY <1>1, <1>2, <1>3, <1>4 DEF LeftIsQueued, QueuedOnce
<1>16. OneRunEach'
  BY <1>1, <1>2, <1>3, <1>4 DEF OneRunEach
<1>17. BookedIsKnown'
  <2>1. \A d \in Cart : booked[d] > 0 => booked'[d] > 0
    BY <1>3
  <2>2. \A i \in Replay : replay[i].pc = "remove" => Head(Left(i)) \in Cart
    BY HeadIsFirst DEF RunsHaveSales
  <2> QED BY <1>1, <1>2, <1>3, <2>1, <2>2 DEF BookedIsKnown, PostsHaveSenders
<1>18. UnsentIsUnbooked'
  <2>1. ASSUME NEW q \in Post, post'[q].at \in {"sent", "refused"}, Sure(post'[q].cart)
        PROVE  post'[q].cart # c
    <3> SUFFICES ASSUME post'[q].cart = c PROVE FALSE
      OBVIOUS
    <3>1. q # p /\ post'[q] = post[q]
      BY <1>2, <2>1
    <3>2. post[q].by \in Replay \cup {Page} /\ post[p].by # Nobody
      BY <1>1, <1>5, <2>1, <3>1 DEF PostsHaveSenders
    <3>3. CASE post[q].by = Page
      BY <1>5, <2>1, <3>1, <3>3 DEF PostsHaveSenders, OnePostEach
    <3>4. CASE post[q].by \in Replay
      <4>1. Left(post[q].by) # <<>> /\ Head(Left(post[q].by)) = c
        BY <2>1, <3>1, <3>4 DEF PostsHaveSenders, RunsHaveSales
      <4>2. 1 \in 1..Len(Left(post[q].by)) /\ Left(post[q].by)[1] = c
        BY <3>4, <4>1, HeadIsFirst
      <4>3. post[q].by = post[p].by
        BY <1>6, <2>1, <3>4, <4>2
      <4> QED BY <3>1, <3>2, <4>3 DEF OnePostEach
    <3> QED BY <3>2, <3>3, <3>4
  <2>2. ASSUME NEW j \in Replay, NEW k \in 1..Len(Left(j)), Sure(Left(j)[k]),
               k > 1 \/ replay[j].pc = "send"
        PROVE  Left(j)[k] # c
    BY <1>5, <1>6, <2>2
  <2>3. \A d \in Cart : Sure(d) /\ sale[d] \in {"new", "queuing"} => d # c
    BY <1>5
  <2>4. \A q \in Post : post'[q].at \in {"sent", "refused"} => q # p /\ post'[q] = post[q]
    BY <1>2
  <2> QED BY <1>1, <1>3, <2>1, <2>2, <2>3, <2>4 DEF UnsentIsUnbooked
<1>19. QueuedAndBooked'
  <2> SUFFICES ASSUME NEW k \in 1..Len(queue), Sure(queue[k]), booked'[queue[k]] > 0
               PROVE  \E i \in Replay : replay[i].pc \in {"wait", "remove"} /\ Head(Left(i)) = queue[k]
    BY <1>1 DEF QueuedAndBooked
  <2>1. CASE queue[k] = c
    BY <1>5, <2>1 DEF QueueIsQueued, QueuedOnce
  <2>2. CASE queue[k] # c
    BY <1>3, <2>2 DEF QueuedAndBooked
  <2> QED BY <2>1, <2>2
<1>20. LeftIsInOrder'
  BY <1>1, <1>2, <1>3, <1>4, OrderKept
<1>21. BookedOnce'
  BY <1>1, <1>2, <1>3, <1>4 DEF BookedOnce
<1> QED BY <1>7, <1>8, <1>9, <1>10, <1>11, <1>12, <1>13, <1>14, <1>15, <1>16, <1>17, <1>18,
          <1>19, <1>20, <1>21

LEMMA RefuseStep ==
    ASSUME OfflineInv, NEW p \in Post, Refuse(p)
    PROVE  OfflineInv'
<1> USE SenderAssumption DEF OfflineInv, TypeOK, Refuse, Fault, Left, Looping, Sure, Paying
<1>1. TypeOK'
  <2>1. faults' \in 0..MaxFaults
    BY FaultsAssumption
  <2>2. online' \in BOOLEAN /\ broken' \in BOOLEAN
    BY Zenon
  <2> QED BY <2>1, <2>2
<1>2. RunsHaveSales'
  BY DEF RunsHaveSales
<1>3. PostsHaveSenders'
  BY DEF PostsHaveSenders
<1>4. UnusedPosts'
  BY DEF UnusedPosts
<1>5. OnePostEach'
  BY DEF OnePostEach
<1>6. WaitersHavePosts'
  BY DEF WaitersHavePosts
<1>7. OneInPayment'
  BY DEF OneInPayment
<1>8. QueueIsQueued'
  BY DEF QueueIsQueued, QueuedOnce
<1>9. LeftIsQueued'
  BY DEF LeftIsQueued, QueuedOnce
<1>10. OneRunEach'
  BY DEF OneRunEach
<1>11. BookedIsKnown'
  BY DEF BookedIsKnown
<1>12. UnsentIsUnbooked'
  BY DEF UnsentIsUnbooked
<1>13. QueuedAndBooked'
  BY DEF QueuedAndBooked
<1>14. LeftIsInOrder'
  BY OrderKept
<1>15. BookedOnce'
  BY DEF BookedOnce
<1> QED BY <1>1, <1>2, <1>3, <1>4, <1>5, <1>6, <1>7, <1>8, <1>9, <1>10, <1>11, <1>12, <1>13,
          <1>14, <1>15

LEMMA PageSoldStep ==
    ASSUME OfflineInv, NEW p \in Post, post[p].by = Page, post[p].at = "booked", Answer(p)
    PROVE  OfflineInv'
<1> USE SenderAssumption DEF OfflineInv, TypeOK, Left, Looping, Sure, Paying
<1> DEFINE c == post[p].cart
<1>1. /\ c \in Cart /\ sale[c] = "posting" /\ booked[c] > 0
      /\ sale' = [sale EXCEPT ![c] = "sold"] /\ post' = [post EXCEPT ![p] = NoPost]
      /\ UNCHANGED <<online, queue, replay, booked, faults, risky, broken>>
  BY DEF Answer, Success, PostsHaveSenders, BookedIsKnown
<1> USE DEF NoPost
<1> HIDE DEF c
<1>2. TypeOK'
  BY <1>1 DEF TypeOK
<1>3. RunsHaveSales'
  BY <1>1 DEF RunsHaveSales
<1>4. PostsHaveSenders'
  BY <1>1 DEF PostsHaveSenders, OnePostEach, c
<1>5. UnusedPosts'
  BY <1>1 DEF UnusedPosts
<1>6. OnePostEach'
  BY <1>1 DEF OnePostEach
<1>7. WaitersHavePosts'
  BY <1>1 DEF WaitersHavePosts, OneInPayment, c
<1>8. OneInPayment'
  BY <1>1 DEF OneInPayment
<1>9. QueueIsQueued'
  BY <1>1 DEF QueueIsQueued, QueuedOnce
<1>10. LeftIsQueued'
  BY <1>1 DEF LeftIsQueued, QueuedOnce
<1>11. OneRunEach'
  BY <1>1 DEF OneRunEach
<1>12. BookedIsKnown'
  BY <1>1 DEF BookedIsKnown
<1>13. UnsentIsUnbooked'
  BY <1>1 DEF UnsentIsUnbooked
<1>14. QueuedAndBooked'
  BY <1>1 DEF QueuedAndBooked
<1>15. LeftIsInOrder'
  BY <1>1, OrderKept
<1>16. BookedOnce'
  BY <1>1 DEF BookedOnce
<1> QED BY <1>2, <1>3, <1>4, <1>5, <1>6, <1>7, <1>8, <1>9, <1>10, <1>11, <1>12, <1>13, <1>14,
          <1>15, <1>16

LEMMA RunSentStep ==
    ASSUME OfflineInv, NEW p \in Post, post[p].by \in Replay, post[p].at = "booked", Answer(p)
    PROVE  OfflineInv'
<1> USE SenderAssumption DEF OfflineInv, TypeOK, Left, Looping, Sure, Paying
<1> DEFINE i == post[p].by
<1>1. /\ replay[i].pc = "wait" /\ Head(Left(i)) = post[p].cart /\ booked[post[p].cart] > 0
      /\ replay' = [replay EXCEPT ![i].pc = "remove"] /\ post' = [post EXCEPT ![p] = NoPost]
      /\ UNCHANGED <<online, sale, queue, booked, faults, risky, broken>>
  BY DEF Answer, Success, PostsHaveSenders, BookedIsKnown
<1> USE DEF NoPost
<1>2. TypeOK'
  BY <1>1, ZenonT(30) DEF TypeOK
<1>3. RunsHaveSales'
  BY <1>1 DEF RunsHaveSales
<1>4. PostsHaveSenders'
  BY <1>1 DEF PostsHaveSenders, OnePostEach
<1>5. UnusedPosts'
  BY <1>1 DEF UnusedPosts
<1>6. OnePostEach'
  BY <1>1 DEF OnePostEach
<1>7. WaitersHavePosts'
  BY <1>1 DEF WaitersHavePosts
<1>8. OneInPayment'
  BY <1>1 DEF OneInPayment
<1>9. QueueIsQueued'
  BY <1>1 DEF QueueIsQueued, QueuedOnce
<1>10. LeftIsQueued'
  BY <1>1, SMTT(30) DEF LeftIsQueued, QueuedOnce
<1>11. OneRunEach'
  BY <1>1 DEF OneRunEach
<1>12. BookedIsKnown'
  BY <1>1 DEF BookedIsKnown
<1>13. UnsentIsUnbooked'
  BY <1>1 DEF UnsentIsUnbooked
<1>14. QueuedAndBooked'
  BY <1>1 DEF QueuedAndBooked
<1>15. LeftIsInOrder'
  BY <1>1, OrderKept
<1>16. BookedOnce'
  BY <1>1 DEF BookedOnce
<1> QED BY <1>2, <1>3, <1>4, <1>5, <1>6, <1>7, <1>8, <1>9, <1>10, <1>11, <1>12, <1>13, <1>14,
          <1>15, <1>16

\* What is common to a refusal and to a request that is given up.
Failed(p) ==
    /\ post[p].by # Nobody
    /\ \/ post[p].at = "refused" /\ post' = [post EXCEPT ![p] = NoPost] /\ risky' = risky
       \/ post' = [post EXCEPT ![p] = Forgotten(p)] /\ risky' = risky \cup {post[p].cart}
    /\ Error(post[p].by, post[p].cart)
    /\ faults' \in 0..MaxFaults
    /\ UNCHANGED <<online, queue, booked>>

LEMMA FailedFacts ==
    ASSUME OfflineInv, NEW p \in Post, Failed(p)
    PROVE  /\ post[p].at # "none" /\ post[p].cart \in Cart
           /\ \E x \in [cart : Cart \cup {Nobody}, by : {Nobody}, at : {"none", "sent"}] :
                 /\ post' = [post EXCEPT ![p] = x]
                 /\ x.at = "none" => x = NoPost
                 /\ x.at = "sent" => x.cart = post[p].cart /\ x.cart \in risky'
           /\ risky' \in SUBSET Cart /\ risky \subseteq risky'
           /\ post[p].cart \notin risky' => booked[post[p].cart] = 0
<1> USE SenderAssumption DEF OfflineInv, TypeOK
<1>1. post[p].at # "none" /\ post[p].cart \in Cart /\ post[p].by # Nobody
  BY DEF Failed, UnusedPosts, PostsHaveSenders, NoPost
<1>2. CASE post[p].at = "refused" /\ post' = [post EXCEPT ![p] = NoPost] /\ risky' = risky
  <2>1. post[p].cart \notin risky => booked[post[p].cart] = 0
    BY <1>1, <1>2 DEF Sure, UnsentIsUnbooked
  <2>2. /\ NoPost \in [cart : Cart \cup {Nobody}, by : {Nobody}, at : {"none", "sent"}]
        /\ NoPost.at # "sent"
    BY DEF NoPost
  <2>3. \E x \in [cart : Cart \cup {Nobody}, by : {Nobody}, at : {"none", "sent"}] :
           /\ post' = [post EXCEPT ![p] = x]
           /\ x.at = "none" => x = NoPost
           /\ x.at = "sent" => x.cart = post[p].cart /\ x.cart \in risky'
    BY <1>2, <2>2, Zenon
  <2> QED BY <1>1, <1>2, <2>1, <2>3
<1>3. CASE post' = [post EXCEPT ![p] = Forgotten(p)] /\ risky' = risky \cup {post[p].cart}
  <2>1. CASE post[p].at = "sent"
    <3>1. Forgotten(p) = [cart |-> post[p].cart, by |-> Nobody, at |-> "sent"]
      BY <2>1 DEF Forgotten
    <3>2. /\ Forgotten(p) \in [cart : Cart \cup {Nobody}, by : {Nobody}, at : {"none", "sent"}]
          /\ Forgotten(p).at = "sent" /\ Forgotten(p).cart = post[p].cart /\ post[p].cart \in risky'
      BY <1>1, <1>3, <3>1
    <3>3. \E x \in [cart : Cart \cup {Nobody}, by : {Nobody}, at : {"none", "sent"}] :
             /\ post' = [post EXCEPT ![p] = x]
             /\ x.at = "none" => x = NoPost
             /\ x.at = "sent" => x.cart = post[p].cart /\ x.cart \in risky'
      <4> HIDE DEF Forgotten
      <4>1. Forgotten(p).at # "none"
        BY <3>2
      <4> QED BY <1>3, <3>2, <4>1, Zenon
    <3> QED BY <1>1, <1>3, <3>3
  <2>2. CASE post[p].at # "sent"
    <3>1. Forgotten(p) = NoPost
      BY <2>2 DEF Forgotten
    <3>2. /\ NoPost \in [cart : Cart \cup {Nobody}, by : {Nobody}, at : {"none", "sent"}]
          /\ NoPost.at # "sent"
      BY DEF NoPost
    <3>3. \E x \in [cart : Cart \cup {Nobody}, by : {Nobody}, at : {"none", "sent"}] :
             /\ post' = [post EXCEPT ![p] = x]
             /\ x.at = "none" => x = NoPost
             /\ x.at = "sent" => x.cart = post[p].cart /\ x.cart \in risky'
      BY <1>3, <3>1, <3>2, Zenon
    <3> QED BY <1>1, <1>3, <3>3
  <2> QED BY <2>1, <2>2
<1> QED BY <1>2, <1>3 DEF Failed

LEMMA PageFailedStep ==
    ASSUME OfflineInv, NEW p \in Post, post[p].by = Page, Failed(p)
    PROVE  OfflineInv'
<1> USE SenderAssumption DEF OfflineInv, TypeOK, NoPost, Left, Looping, Sure, Paying
<1> DEFINE c == post[p].cart
<1>1. /\ sale[c] = "posting"
      /\ sale' = [sale EXCEPT ![c] = "new"] /\ faults' \in 0..MaxFaults
      /\ UNCHANGED <<online, queue, replay, booked, broken>>
  BY FailedFacts DEF Failed, Error, PostsHaveSenders
<1>2. PICK x \in [cart : Cart \cup {Nobody}, by : {Nobody}, at : {"none", "sent"}] :
         /\ post' = [post EXCEPT ![p] = x]
         /\ x.at = "none" => x = NoPost
         /\ x.at = "sent" => x.cart = post[p].cart /\ x.cart \in risky'
  BY FailedFacts
<1>3. /\ risky' \in SUBSET Cart /\ risky \subseteq risky'
      /\ post[p].at # "none" /\ post[p].cart \in Cart
      /\ post[p].cart \notin risky' => booked[post[p].cart] = 0
  BY FailedFacts
<1>4. TypeOK'
  BY <1>1, <1>2, <1>3 DEF TypeOK
<1>5. RunsHaveSales'
  BY <1>1, <1>2, <1>3 DEF RunsHaveSales
<1>6. PostsHaveSenders'
  BY <1>1, <1>2, <1>3 DEF PostsHaveSenders, OnePostEach
<1>7. UnusedPosts'
  BY <1>1, <1>2, <1>3 DEF UnusedPosts
<1>8. OnePostEach'
  BY <1>1, <1>2, <1>3 DEF OnePostEach
<1>9. WaitersHavePosts'
  BY <1>1, <1>2, <1>3 DEF WaitersHavePosts, OneInPayment
<1>10. OneInPayment'
  BY <1>1, <1>2, <1>3 DEF OneInPayment
<1>11. QueueIsQueued'
  BY <1>1, <1>2, <1>3 DEF QueueIsQueued, QueuedOnce
<1>12. LeftIsQueued'
  BY <1>1, <1>2, <1>3 DEF LeftIsQueued, QueuedOnce
<1>13. OneRunEach'
  BY <1>1, <1>2, <1>3 DEF OneRunEach
<1>14. BookedIsKnown'
  BY <1>1, <1>2, <1>3 DEF BookedIsKnown
<1>15. UnsentIsUnbooked'
  BY <1>1, <1>2, <1>3 DEF UnsentIsUnbooked
<1>16. QueuedAndBooked'
  BY <1>1, <1>2, <1>3 DEF QueuedAndBooked
<1>17. LeftIsInOrder'
  BY <1>1, OrderKept
<1>18. BookedOnce'
  BY <1>1, <1>2, <1>3 DEF BookedOnce
<1> QED BY <1>4, <1>5, <1>6, <1>7, <1>8, <1>9, <1>10, <1>11, <1>12, <1>13, <1>14, <1>15, <1>16,
          <1>17, <1>18

LEMMA RunFailedStep ==
    ASSUME OfflineInv, NEW p \in Post, post[p].by \in Replay, Failed(p)
    PROVE  OfflineInv'
<1> USE SenderAssumption DEF OfflineInv, TypeOK, NoPost, Left, Looping, Sure, Paying
<1>1. PICK i \in Replay :
      /\ post[p].by = i /\ replay[i].pc = "wait" /\ Head(Left(i)) = post[p].cart
      /\ replay' = [replay EXCEPT ![i] = NoRun] /\ broken' = TRUE /\ faults' \in 0..MaxFaults
      /\ UNCHANGED <<online, sale, queue, booked>>
  BY FailedFacts DEF Failed, Error, Break, PostsHaveSenders
<1>2. PICK x \in [cart : Cart \cup {Nobody}, by : {Nobody}, at : {"none", "sent"}] :
         /\ post' = [post EXCEPT ![p] = x]
         /\ x.at = "none" => x = NoPost
         /\ x.at = "sent" => x.cart = post[p].cart /\ x.cart \in risky'
  BY FailedFacts
<1>3. /\ risky' \in SUBSET Cart /\ risky \subseteq risky'
      /\ post[p].at # "none" /\ post[p].cart \in Cart
      /\ post[p].cart \notin risky' => booked[post[p].cart] = 0
  BY FailedFacts
<1>4. /\ \A j \in Replay \ {i} : replay'[j] = replay[j]
      /\ replay'[i].pc = "none" /\ Left(i)' = <<>> /\ Len(<<>>) = 0
      /\ replay' \in [Replay -> [pc : {"none", "read", "send", "wait", "remove"}, left : Seq(Cart)]]
  BY <1>1, EmptySeq DEF NoRun
<1>5. TypeOK'
  BY <1>1, <1>4, <1>2, <1>3 DEF TypeOK
<1>6. RunsHaveSales'
  BY <1>1, <1>2, <1>3, <1>4 DEF RunsHaveSales
<1>7. PostsHaveSenders'
  BY <1>1, <1>2, <1>3, <1>4 DEF PostsHaveSenders, OnePostEach
<1>8. UnusedPosts'
  BY <1>1, <1>2, <1>3, <1>4 DEF UnusedPosts
<1>9. OnePostEach'
  BY <1>1, <1>2, <1>3, <1>4 DEF OnePostEach
<1>10. WaitersHavePosts'
  BY <1>1, <1>2, <1>3, <1>4 DEF WaitersHavePosts
<1>11. OneInPayment'
  BY <1>1, <1>2, <1>3, <1>4 DEF OneInPayment
<1>12. QueueIsQueued'
  BY <1>1, <1>2, <1>3, <1>4 DEF QueueIsQueued, QueuedOnce
<1>13. LeftIsQueued'
  <2> SUFFICES ASSUME NEW j \in Replay PROVE QueuedOnce(Left(j))'
    BY DEF LeftIsQueued
  <2>1. CASE j = i
    BY <1>4, <2>1 DEF QueuedOnce
  <2>2. CASE j # i
    BY <1>1, <1>4, <2>2, SMTT(30) DEF LeftIsQueued, QueuedOnce
  <2> QED BY <2>1, <2>2
<1>14. OneRunEach'
  <2>1. ASSUME NEW j \in Replay, NEW c \in Cart, Contains(Left(j)', c)
        PROVE  Left(j)' = Left(j)
    <3>1. ~Contains(<<>>, c)
      BY <1>4 DEF Contains
    <3> QED BY <1>4, <2>1, <3>1
  <2> QED BY <1>3, <2>1 DEF OneRunEach
<1>15. BookedIsKnown'
  BY <1>1, <1>2, <1>3, <1>4 DEF BookedIsKnown
<1>16. UnsentIsUnbooked'
  BY <1>1, <1>2, <1>3, <1>4, SMTT(30) DEF UnsentIsUnbooked
<1>17. QueuedAndBooked'
  <2> SUFFICES ASSUME NEW k \in 1..Len(queue), Sure(queue[k])', booked[queue[k]] > 0
               PROVE  \E j \in Replay : replay'[j].pc \in {"wait", "remove"} /\ Head(Left(j)') = queue[k]
    BY <1>1 DEF QueuedAndBooked
  <2>1. Sure(queue[k])
    BY <1>1, <1>3
  <2>2. PICK j \in Replay : replay[j].pc \in {"wait", "remove"} /\ Head(Left(j)) = queue[k]
    BY <2>1 DEF QueuedAndBooked
  <2>3. j # i
    BY <1>1, <1>3, <2>1, <2>2
  <2> QED BY <1>4, <2>2, <2>3
<1>18. LeftIsInOrder'
  BY <1>1, <1>4, OrderKept
<1>19. BookedOnce'
  BY <1>1, <1>2, <1>3, <1>4 DEF BookedOnce
<1> QED BY <1>5, <1>6, <1>7, <1>8, <1>9, <1>10, <1>11, <1>12, <1>13, <1>14, <1>15, <1>16, <1>17,
          <1>18, <1>19

LEMMA AnswerStep ==
    ASSUME OfflineInv, NEW p \in Post, Answer(p)
    PROVE  OfflineInv'
<1>1. post[p].by \in Replay \cup {Page} /\ post[p].at \in {"booked", "refused"}
  BY DEF Answer, OfflineInv, TypeOK
<1>2. CASE post[p].at = "booked"
  BY <1>1, <1>2, PageSoldStep, RunSentStep
<1>3. CASE post[p].at = "refused"
  <2>1. Failed(p)
    BY <1>3 DEF Answer, Failed, OfflineInv, TypeOK
  <2> QED BY <1>1, <2>1, PageFailedStep, RunFailedStep
<1> QED BY <1>1, <1>2, <1>3

LEMMA GiveUpStep ==
    ASSUME OfflineInv, NEW p \in Post, GiveUp(p)
    PROVE  OfflineInv'
<1>1. Failed(p)
  BY FaultsAssumption DEF GiveUp, Fault, Failed, OfflineInv, TypeOK
<1>2. post[p].by \in Replay \cup {Page}
  BY <1>1 DEF Failed, OfflineInv, TypeOK
<1> QED BY <1>1, <1>2, PageFailedStep, RunFailedStep

LEMMA VanishStep ==
    ASSUME OfflineInv, NEW p \in Post, Vanish(p)
    PROVE  OfflineInv'
<1> USE SenderAssumption DEF OfflineInv, TypeOK, Vanish, NoPost, Left, Looping, Sure, Paying
<1>1. TypeOK'
  BY DEF TypeOK
<1>2. RunsHaveSales'
  BY DEF RunsHaveSales
<1>3. PostsHaveSenders'
  BY DEF PostsHaveSenders
<1>4. UnusedPosts'
  BY DEF UnusedPosts
<1>5. OnePostEach'
  BY DEF OnePostEach
<1>6. WaitersHavePosts'
  BY DEF WaitersHavePosts
<1>7. OneInPayment'
  BY DEF OneInPayment
<1>8. QueueIsQueued'
  BY DEF QueueIsQueued, QueuedOnce
<1>9. LeftIsQueued'
  BY DEF LeftIsQueued, QueuedOnce
<1>10. OneRunEach'
  BY DEF OneRunEach
<1>11. BookedIsKnown'
  BY DEF BookedIsKnown
<1>12. UnsentIsUnbooked'
  BY DEF UnsentIsUnbooked
<1>13. QueuedAndBooked'
  BY DEF QueuedAndBooked
<1>14. LeftIsInOrder'
  BY OrderKept
<1>15. BookedOnce'
  BY DEF BookedOnce
<1> QED BY <1>1, <1>2, <1>3, <1>4, <1>5, <1>6, <1>7, <1>8, <1>9, <1>10, <1>11, <1>12, <1>13,
          <1>14, <1>15

LEMMA ReloadStep ==
    ASSUME OfflineInv, Reload
    PROVE  OfflineInv'
<1> USE SenderAssumption DEF OfflineInv, TypeOK, NoPost, NoRun, Left, Looping, Sure, Paying
<1>1. /\ \A p \in Post :
            /\ post'[p].by = Nobody /\ post'[p].at \in {"none", "sent"}
            /\ post'[p].at = "none" => post'[p] = NoPost
            /\ post'[p].at = "sent" => post'[p].cart = post[p].cart /\ post[p].at = "sent"
      /\ post' \in [Post -> [cart : Cart \cup {Nobody}, by : Replay \cup {Page, Nobody},
                             at : {"none", "sent", "booked", "refused"}]]
  <2>1. \A p \in Post : post[p].at = "sent" =>
            Forgotten(p) = [cart |-> post[p].cart, by |-> Nobody, at |-> "sent"]
    BY DEF Forgotten
  <2>2. \A p \in Post : post[p].at # "sent" => Forgotten(p) = NoPost
    BY DEF Forgotten
  <2>3. post' = [p \in Post |-> Forgotten(p)]
    BY DEF Reload
  <2> QED BY <2>1, <2>2, <2>3 DEF NoPost
<1>2. /\ replay' = [i \in Replay |-> NoRun] /\ UNCHANGED <<online, queue, booked>>
      /\ sale' = [c \in Cart |-> IF Paying(c) THEN "new" ELSE sale[c]]
  BY DEF Reload
<1>3. /\ risky' \in SUBSET Cart /\ risky \subseteq risky'
      /\ \A p \in Post : post[p].by # Nobody => post[p].cart \in risky'
      /\ \A i \in Replay : replay[i].pc = "remove" => Head(Left(i)) \in risky'
  <2>1. \A p \in Post : post[p].by # Nobody => post[p].cart \in Cart
    BY DEF PostsHaveSenders, UnusedPosts, NoPost
  <2>2. \A i \in Replay : replay[i].pc = "remove" => Head(Left(i)) \in Cart
    BY HeadIsFirst DEF RunsHaveSales
  <2> QED BY <2>1, <2>2 DEF Reload
<1>4. Len(<<>>) = 0 /\ \A i \in Replay : replay'[i].pc = "none" /\ Left(i)' = <<>>
  BY <1>2, EmptySeq
<1>5. TypeOK'
  <2>1. faults' \in 0..MaxFaults
    BY FaultsAssumption DEF Reload, Fault
  <2>2. online' \in BOOLEAN /\ broken' \in BOOLEAN
    BY Zenon DEF Reload
  <2> QED BY <1>1, <1>2, <1>3, <2>1, <2>2, EmptySeq DEF Reload
<1>6. RunsHaveSales'
  BY <1>1, <1>2, <1>3, <1>4 DEF RunsHaveSales
<1>7. PostsHaveSenders'
  BY <1>1, <1>3 DEF PostsHaveSenders
<1>8. UnusedPosts'
  BY <1>1 DEF UnusedPosts
<1>9. OnePostEach'
  BY <1>1 DEF OnePostEach
<1>10. WaitersHavePosts'
  BY <1>1, <1>2, <1>3, <1>4 DEF WaitersHavePosts
<1>11. OneInPayment'
  BY <1>1, <1>2, <1>3, <1>4 DEF OneInPayment
<1>12. QueueIsQueued'
  BY <1>1, <1>2, <1>3, <1>4 DEF QueueIsQueued, QueuedOnce
<1>13. LeftIsQueued'
  BY <1>1, <1>2, <1>3, <1>4 DEF LeftIsQueued, QueuedOnce
<1>14. OneRunEach'
  BY <1>4 DEF OneRunEach, Contains
<1>15. BookedIsKnown'
  BY <1>1, <1>4 DEF BookedIsKnown
<1>16. UnsentIsUnbooked'
  <2>1. ASSUME NEW c \in Cart, Sure(c)', sale'[c] \in {"new", "queuing"} PROVE booked'[c] = 0
    <3>1. sale[c] # "posting"
      BY <1>3, <2>1, SenderAssumption DEF WaitersHavePosts
    <3>2. sale[c] \in {"new", "queuing"} /\ Sure(c)
      BY <1>2, <1>3, <2>1, <3>1
    <3> QED BY <1>2, <3>2 DEF UnsentIsUnbooked
  <2>2. ASSUME NEW p \in Post, post'[p].at \in {"sent", "refused"}, Sure(post'[p].cart)
        PROVE  booked[post'[p].cart] = 0
    <3>1. post[p].at = "sent" /\ post'[p].cart = post[p].cart
      BY <1>1, <2>2
    <3> QED BY <2>2, <3>1 DEF UnsentIsUnbooked
  <2>3. \A p \in Post : Sure(post[p].cart)' => Sure(post'[p].cart)
    BY <1>3
  <2> QED BY <1>2, <1>4, <2>1, <2>2, <2>3 DEF UnsentIsUnbooked
<1>17. QueuedAndBooked'
  <2> SUFFICES ASSUME NEW k \in 1..Len(queue), Sure(queue[k])', booked[queue[k]] > 0
               PROVE  FALSE
    BY <1>2 DEF QueuedAndBooked
  <2>1. Sure(queue[k])
    BY <1>2, <1>3
  <2>2. PICK i \in Replay : replay[i].pc \in {"wait", "remove"} /\ Head(Left(i)) = queue[k]
    BY <2>1 DEF QueuedAndBooked
  <2>3. CASE replay[i].pc = "remove"
    BY <1>2, <1>3, <2>2, <2>3
  <2>4. CASE replay[i].pc = "wait"
    <3>1. PICK p \in Post : post[p].by = i
      BY <2>4 DEF WaitersHavePosts
    <3>2. post[p].by # Nobody /\ post[p].cart = queue[k]
      BY <2>2, <3>1, SMTT(30) DEF PostsHaveSenders, UnusedPosts, NoPost
    <3> QED BY <1>2, <1>3, <3>2
  <2> QED BY <2>2, <2>3, <2>4
<1>18. LeftIsInOrder'
  BY <1>1, <1>2, <1>3, <1>4, OrderKept
<1>19. BookedOnce'
  BY <1>1, <1>2, <1>3, <1>4 DEF BookedOnce
<1> QED BY <1>5, <1>6, <1>7, <1>8, <1>9, <1>10, <1>11, <1>12, <1>13, <1>14, <1>15, <1>16, <1>17,
          <1>18, <1>19

\* Whatever the till, the network and the server do, the conjuncts above
\* hold of the queue in IndexedDB, the runs of retryOfflineSales and the
\* requests of both.
THEOREM OfflineInvariantHolds == Spec => []OfflineInv
<1>1. Init => OfflineInv
  BY OfflineInvInit
<1>2. OfflineInv /\ [Next]_vars => OfflineInv'
  <2> SUFFICES ASSUME OfflineInv, [Next]_vars PROVE OfflineInv'
    OBVIOUS
  <2>1. ASSUME NEW c \in Cart, PayOnline(c) \/ PayOffline(c) \/ enqueueSale(c) PROVE OfflineInv'
    BY <2>1, PayOnlineStep, PayOfflineStep, EnqueueStep
  <2>2. CASE GoOffline
    BY <2>2, GoOfflineStep
  <2>3. ASSUME NEW i \in Replay,
               onOnline(i) \/ getPendingSales(i) \/ ReplaySend(i) \/ removePendingSale(i)
        PROVE  OfflineInv'
    BY <2>3, OnOnlineStep, GetStep, ReplaySendStep, RemoveStep
  <2>4. ASSUME NEW p \in Post, Book(p) \/ Refuse(p) \/ Answer(p) \/ GiveUp(p) \/ Vanish(p)
        PROVE  OfflineInv'
    BY <2>4, BookStep, RefuseStep, AnswerStep, GiveUpStep, VanishStep
  <2>5. CASE Reload
    BY <2>5, ReloadStep
  <2>6. CASE UNCHANGED vars
    BY <2>6 DEF vars, OfflineInv, TypeOK, RunsHaveSales, PostsHaveSenders, UnusedPosts, OnePostEach,
                WaitersHavePosts, OneInPayment, QueueIsQueued, LeftIsQueued, OneRunEach, BookedIsKnown,
                UnsentIsUnbooked, QueuedAndBooked, LeftIsInOrder, BookedOnce, QueuedOnce, InOrder,
                Left, Looping, Sure, Paying, Contains, NoPost
  <2> QED BY <2>1, <2>2, <2>3, <2>4, <2>5, <2>6 DEF Next
<1> QED BY <1>1, <1>2, PTL DEF Spec

\* A sale that the cashier was told is queued or done is never lost, and the
\* server books it once unless a request for it was given up or two runs had
\* it in hand: processPayment, enqueueSale and retryOfflineSales together.
THEOREM SalesAreBookedOnce == Spec => []BookedOnce
<1>1. OfflineInv => BookedOnce
  BY DEF OfflineInv
<1> QED BY <1>1, OfflineInvariantHolds, PTL

\* Of two sales in the queue the later is not booked before the earlier: a
\* sale that is booked and still queued is the first of a run, and what was
\* before it in the queue is booked (LeftIsInOrder).
THEOREM SalesKeepTheirOrder == Spec => []QueueOrder
<1>1. OfflineInv => QueueOrder
  <2> SUFFICES ASSUME OfflineInv, NEW j \in DOMAIN queue, NEW k \in DOMAIN queue,
                      j < k, booked[queue[k]] > 0, queue[k] \notin risky
               PROVE  booked[queue[j]] > 0
    BY DEF QueueOrder
  <2>1. j \in 1..Len(queue) /\ k \in 1..Len(queue) /\ queue[k] \in Cart
    BY LenProperties, ElementOfSeq DEF OfflineInv, TypeOK
  <2>2. PICK i \in Replay : replay[i].pc \in {"wait", "remove"} /\ Head(Left(i)) = queue[k]
    BY <2>1 DEF OfflineInv, QueuedAndBooked, Sure
  <2>3. Left(i) \in Seq(Cart) /\ Left(i) # <<>>
    BY <2>2 DEF OfflineInv, TypeOK, RunsHaveSales, Looping, Left
  <2>4. 1 \in 1..Len(Left(i)) /\ Left(i)[1] = queue[k]
    BY <2>2, <2>3, HeadIsFirst
  <2>5. InOrder(Left(i), queue, booked)
    BY DEF OfflineInv, LeftIsInOrder
  <2>6. booked[queue[j]] > 0 \/ \E m \in 1..(1 - 1) : Left(i)[m] = queue[j]
    BY <2>1, <2>4, <2>5 DEF InOrder
  <2> QED BY <2>6
<1> QED BY <1>1, OfflineInvariantHolds, PTL
=============================================================================
