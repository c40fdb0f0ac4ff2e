--------------------------- MODULE DeliveryProofs ---------------------------
(***************************************************************************)
(* Proofs about MessageDelivery, for any number of events, of instances,   *)
(* of retries and of faults.                                               *)
(*                                                                         *)
(* HandledOnce counts, for an event, the consumers that are at its handler *)
(* and the chance for another to come there against the faults that give   *)
(* one.  NoneLost follows a copy of the event that is never acknowledged:  *)
(* a consumer may drop what it takes for a duplicate because the receipt   *)
(* it met belongs to another that is still to handle or to retry.          *)
(***************************************************************************)
EXTENDS MessageDelivery, DataLemmas

RowRow      == [state : {"none", "pending", "published"},
                lock : {"free", "held", "stale", "later"}, attempts : Nat]
RelayRow    == [batch : SUBSET Event, sent : BOOLEAN]
Operation   == [op : {"publish", "delay", "bury", "ack"}, msg : Message]
ChannelRow  == [up : BOOLEAN, consuming : BOOLEAN, wire : Seq(Operation)]
Place       == {"idle", "claim", "reclaim", "handle", "mark", "ack", "release", "retry"}
ConsumerRow == [pc : Place, msg : Message \cup {None}]
Receipts    == {"none", "processing", "stale", "processed"}

Shelf(bag) == IsABag(bag) /\ BagToSet(bag) \subseteq Message

DeliveryTypes ==
    /\ row \in [Event -> RowRow] /\ relay \in [Instance -> RelayRow]
    /\ channel \in [Instance -> ChannelRow]
    /\ Shelf(ready) /\ Shelf(delayed) /\ Shelf(dead)
    /\ unacked \in [Instance -> Message \cup {None}]
    /\ consumer \in [Instance -> ConsumerRow]
    /\ receipt \in [Event -> Receipts]
    /\ handled \in [Event -> Nat]
    /\ faults \in [FaultKinds -> 0 .. MaxFaults]

\* Who is at work has a message, and a relay that has sent has a row.
InHand ==
    \A i \in Instance : /\ consumer[i].pc # "idle" => consumer[i].msg \in Message
                        /\ relay[i].sent => relay[i].batch # {}

DeliveryInv == DeliveryTypes /\ InHand

LEMMA TypesAreTypeOK == DeliveryTypes <=> DeliveryTypeOK
<1>1. (\A bag \in {ready, delayed, dead} : IsABag(bag) /\ BagToSet(bag) \subseteq Message)
        <=> Shelf(ready) /\ Shelf(delayed) /\ Shelf(dead)
  BY DEF Shelf
<1> QED BY <1>1, Zenon DEF DeliveryTypes, DeliveryTypeOK, RowRow, RelayRow, ChannelRow, Operation, ConsumerRow,
                    Place, Receipts

LEMMA EventFacts == Event \subseteq Nat /\ None \notin Message
BY BoundAssumption DEF Event, None, Message

LEMMA FaultsAreFinite == IsFiniteSet(FaultKinds)
<1>1. \A k : IsFiniteSet({k})
  BY FS_Singleton
<1>2. /\ IsFiniteSet({"throw"} \cup {"crash"}) /\ IsFiniteSet({"disconnect"} \cup {"database"})
      /\ IsFiniteSet({"outbox"} \cup {"slow relay"})
  BY <1>1, FS_Union, Zenon
<1>3. IsFiniteSet(({"throw"} \cup {"crash"}) \cup ({"disconnect"} \cup {"database"}))
  BY <1>2, FS_Union, Zenon
<1>4. IsFiniteSet(({"outbox"} \cup {"slow relay"}) \cup {"stale receipt"})
  BY <1>1, <1>2, FS_Union, Zenon
<1>5. IsFiniteSet((({"throw"} \cup {"crash"}) \cup ({"disconnect"} \cup {"database"}))
                    \cup (({"outbox"} \cup {"slow relay"}) \cup {"stale receipt"}))
  BY <1>3, <1>4, FS_Union, Zenon
<1>6. FaultKinds = (({"throw"} \cup {"crash"}) \cup ({"disconnect"} \cup {"database"}))
                    \cup (({"outbox"} \cup {"slow relay"}) \cup {"stale receipt"})
  BY DEF FaultKinds
<1> QED BY <1>5, <1>6

LEMMA FaultFacts ==
    ASSUME faults \in [FaultKinds -> 0 .. MaxFaults], NEW kind \in FaultKinds, Fault(kind)
    PROVE  /\ faults' \in [FaultKinds -> 0 .. MaxFaults] /\ faults'[kind] = faults[kind] + 1
           /\ \A k \in FaultKinds \ {kind} : faults'[k] = faults[k]
           /\ \A k \in FaultKinds : faults[k] \in Nat /\ faults'[k] \in Nat
<1>1. faults' = [faults EXCEPT ![kind] = @ + 1]
  BY DEF Fault
<1>2. SumOver(faults, FaultKinds) < MaxFaults
  <2>1. DOMAIN faults = FaultKinds
    OBVIOUS
  <2>2. FoldFunction(+, 0, faults) = SumOver(faults, FaultKinds)
    BY <2>1, FoldIsSum
  <2> QED BY <2>2, Zenon DEF Fault
<1>3. faults' \in [FaultKinds -> 0 .. MaxFaults]
  BY <1>1, <1>2, FaultsAreFinite, CountGoesUp, BoundAssumption
<1> QED BY <1>1, <1>3, BoundAssumption

-----------------------------------------------------------------------------
(***************************************************************************)
(* The wire of a channel.                                                  *)
(***************************************************************************)
Ops(s)    == {s[k] : k \in DOMAIN s}
Acks(s)   == {k \in DOMAIN s : s[k].op = "ack"}
OneAck(s) == \A k, l \in Acks(s) : k = l

LEMMA OpAppended ==
    ASSUME NEW s \in Seq(Operation), NEW a \in Operation
    PROVE  /\ s \o <<a>> \in Seq(Operation) /\ Ops(s \o <<a>>) = Ops(s) \cup {a}
           /\ Acks(s) = {} => OneAck(s \o <<a>>)
           /\ a.op # "ack" /\ Acks(s) = {} => Acks(s \o <<a>>) = {}
           /\ a.op # "ack" /\ OneAck(s) => OneAck(s \o <<a>>)
<1>1. PICK t \in Seq(Operation), n \in Nat :
        /\ t = s \o <<a>> /\ n = Len(s) /\ Len(t) = n + 1 /\ t[n + 1] = a
        /\ \A k \in 1 .. n : t[k] = s[k]
  <2>1. s \o <<a>> \in Seq(Operation) /\ Len(s) \in Nat
    OBVIOUS
  <2>2. Len(s \o <<a>>) = Len(s) + 1 /\ (s \o <<a>>)[Len(s) + 1] = a
    OBVIOUS
  <2>3. \A k \in 1 .. Len(s) : (s \o <<a>>)[k] = s[k]
    OBVIOUS
  <2> QED BY <2>1, <2>2, <2>3
<1>2. DOMAIN s = 1 .. n /\ DOMAIN t = 1 .. n + 1
  BY <1>1
<1>3. DOMAIN t = DOMAIN s \cup {n + 1} /\ n + 1 \notin DOMAIN s
  BY <1>2
<1>4. Ops(t) = Ops(s) \cup {a}
  BY <1>1, <1>2, <1>3 DEF Ops
<1>5. Acks(t) = IF a.op = "ack" THEN Acks(s) \cup {n + 1} ELSE Acks(s)
  BY <1>1, <1>2, <1>3 DEF Acks
<1> QED BY <1>1, <1>4, <1>5 DEF OneAck

LEMMA OpTaken ==
    ASSUME NEW s \in Seq(Operation), s # <<>>
    PROVE  /\ Tail(s) \in Seq(Operation) /\ Head(s) \in Operation
           /\ Ops(s) = Ops(Tail(s)) \cup {Head(s)}
           /\ Acks(s) = {} => Acks(Tail(s)) = {} /\ Head(s).op # "ack"
           /\ OneAck(s) => OneAck(Tail(s)) /\ (Head(s).op = "ack" => Acks(Tail(s)) = {})
<1>1. PICK t \in Seq(Operation), n \in Nat :
        /\ t = Tail(s) /\ n = Len(t) /\ Len(s) = n + 1 /\ Head(s) = s[1] /\ s[1] \in Operation
        /\ \A k \in 1 .. n : t[k] = s[k + 1]
  <2>1. /\ Tail(s) \in Seq(Operation) /\ Len(Tail(s)) \in Nat /\ Len(s) = Len(Tail(s)) + 1
        /\ Head(s) = s[1] /\ s[1] \in Operation
    OBVIOUS
  <2>2. \A k \in 1 .. Len(Tail(s)) : Tail(s)[k] = s[k + 1]
    OBVIOUS
  <2> QED BY <2>1, <2>2
<1>2. DOMAIN s = 1 .. n + 1 /\ DOMAIN t = 1 .. n
  BY <1>1
<1>3. \A k \in DOMAIN t : k + 1 \in DOMAIN s /\ t[k] = s[k + 1]
  BY <1>1, <1>2
<1>4. \A k \in DOMAIN s : k = 1 \/ (k - 1 \in DOMAIN t /\ s[k] = t[k - 1])
  BY <1>1, <1>2
<1>5. 1 \in DOMAIN s
  BY <1>2
<1>6. Ops(s) = Ops(t) \cup {s[1]}
  BY <1>3, <1>4, <1>5 DEF Ops
<1>7. \A k \in Acks(t) : k + 1 \in Acks(s) /\ k \in Nat /\ k + 1 # 1
  BY <1>2, <1>3 DEF Acks
<1>8. s[1].op = "ack" => 1 \in Acks(s)
  BY <1>5 DEF Acks
<1>9. OneAck(s) => OneAck(t) /\ (s[1].op = "ack" => Acks(t) = {})
  BY <1>7, <1>8 DEF OneAck
<1> QED BY <1>1, <1>6, <1>7, <1>8, <1>9

-----------------------------------------------------------------------------
(***************************************************************************)
(* What a step leaves of the records that it rewrites.                     *)
(***************************************************************************)
\* A consumer goes on to pc with its message.
WentTo(i, pc) ==
    /\ consumer' \in [Instance -> ConsumerRow]
    /\ consumer'[i].pc = pc /\ consumer'[i].msg = consumer[i].msg
    /\ \A j \in Instance \ {i} : consumer'[j] = consumer[j]

LEMMA GotoFacts ==
    ASSUME consumer \in [Instance -> ConsumerRow], NEW i \in Instance, NEW pc \in Place, Goto(i, pc)
    PROVE  WentTo(i, pc)
BY DEF Goto, WentTo, ConsumerRow

Idled(i) ==
    /\ consumer' \in [Instance -> ConsumerRow]
    /\ consumer'[i].pc = "idle" /\ consumer'[i].msg = None
    /\ \A j \in Instance \ {i} : consumer'[j] = consumer[j]

LEMMA DoneFacts ==
    ASSUME consumer \in [Instance -> ConsumerRow], NEW i \in Instance, Done(i)
    PROVE  Idled(i)
BY DEF Done, Idled, ConsumerRow, Place

\* An instance puts the operations ops on the wire.
Sent(i, ops) ==
    /\ channel' \in [Instance -> ChannelRow]
    /\ channel'[i].up = channel[i].up /\ channel'[i].wire = channel[i].wire \o ops
    /\ \A j \in Instance \ {i} : channel'[j] = channel[j]

LEMMA SendFacts ==
    ASSUME channel \in [Instance -> ChannelRow], NEW i \in Instance, NEW ops \in Seq(Operation), Send(i, ops)
    PROVE  Sent(i, ops)
<1>1. channel[i].wire \in Seq(Operation)
  BY DEF ChannelRow
<1>2. channel[i].wire \o ops \in Seq(Operation)
  BY <1>1
<1> PICK w \in Seq(Operation) : w = channel[i].wire \o ops
  BY <1>2
<1>3. channel' = [channel EXCEPT ![i].wire = w]
  BY DEF Send
<1> QED BY <1>3 DEF Sent, ChannelRow

LEMMA AtRowFacts ==
    ASSUME relay \in [Instance -> RelayRow], NEW i \in Instance, relay[i].batch # {}
    PROVE  AtRow(i) \in relay[i].batch /\ AtRow(i) \in Event
<1>1. relay[i].batch \subseteq Event
  BY DEF RelayRow
<1>2. relay[i].batch \subseteq Nat
  BY <1>1, EventFacts
<1>3. \E n \in relay[i].batch : \A m \in relay[i].batch : n <= m
  BY <1>2, LeastNumber
<1>4. AtRow(i) = CHOOSE x \in relay[i].batch : \A y \in relay[i].batch : x <= y
  BY Zenon DEF AtRow, Min
<1>5. AtRow(i) \in relay[i].batch
  BY <1>3, <1>4, Zenon
<1> QED BY <1>1, <1>5

LEMMA MessageFacts ==
    ASSUME NEW m \in Message
    PROVE  /\ m.event \in Event /\ m.attempt \in Nat /\ [m EXCEPT !.attempt = @ + 1] \in Message
           /\ [m EXCEPT !.attempt = @ + 1].event = m.event
           /\ \A op \in {"publish", "delay", "bury", "ack"} : [op |-> op, msg |-> m] \in Operation
BY DEF Message, Operation

LEMMA ShelfWithOne ==
    ASSUME NEW B, Shelf(B), NEW m \in Message
    PROVE  Shelf(B (+) One(m)) /\ BagToSet(B (+) One(m)) = BagToSet(B) \cup {m}
<1>1. IsABag(B)
  BY DEF Shelf
<1>2. IsABag(B (+) One(m)) /\ BagToSet(B (+) One(m)) = BagToSet(B) \cup {m}
  BY <1>1, BagWithOne DEF One
<1> QED BY <1>2 DEF Shelf

LEMMA ShelfWithoutOne ==
    ASSUME NEW B, Shelf(B), NEW m \in BagToSet(B)
    PROVE  /\ Shelf(B (-) One(m)) /\ BagToSet(B (-) One(m)) \subseteq BagToSet(B)
           /\ BagToSet(B) \ {m} \subseteq BagToSet(B (-) One(m)) /\ m \in Message
<1>1. IsABag(B) /\ m \in Message
  BY DEF Shelf
<1>2. /\ IsABag(B (-) One(m)) /\ BagToSet(B (-) One(m)) \subseteq BagToSet(B)
      /\ BagToSet(B) \ {m} \subseteq BagToSet(B (-) One(m))
  BY <1>1, BagWithoutOne DEF One
<1> QED BY <1>1, <1>2 DEF Shelf

LEMMA RequeueFacts ==
    ASSUME DeliveryTypes, NEW i \in Instance, Requeue(i)
    PROVE  /\ Shelf(ready') /\ BagToSet(ready) \subseteq BagToSet(ready')
           /\ unacked' \in [Instance -> Message \cup {None}] /\ delayed' = delayed /\ dead' = dead
<1>1. unacked' \in [Instance -> Message \cup {None}] /\ delayed' = delayed /\ dead' = dead
  BY DEF Requeue, DeliveryTypes
<1>2. CASE unacked[i] = None
  BY <1>1, <1>2 DEF Requeue, DeliveryTypes
<1>3. CASE unacked[i] # None
  <2>1. PICK m \in Message : m = unacked[i]
    BY <1>3 DEF DeliveryTypes
  <2>2. ready' = ready (+) One(m)
    BY <1>3, <2>1 DEF Requeue
  <2> QED BY <1>1, <2>2, ShelfWithOne DEF DeliveryTypes
<1> QED BY <1>2, <1>3
-----------------------------------------------------------------------------
(***************************************************************************)
(* The types.                                                              *)
(***************************************************************************)
LEMMA DeliveryInvInit == DeliveryInit => DeliveryInv
<1> SUFFICES ASSUME DeliveryInit PROVE DeliveryInv
  OBVIOUS
<1>1. Shelf(EmptyBag)
  <2>1. EmptyBag = [x \in {} |-> 0]
    BY DEF EmptyBag, SetToBag
  <2> QED BY <2>1 DEF Shelf, IsABag, BagToSet
<1>2. Shelf(ready) /\ Shelf(delayed) /\ Shelf(dead)
  BY <1>1 DEF DeliveryInit
<1>3. <<>> \in Seq(Operation) /\ {} \in SUBSET Event /\ 0 \in 0 .. MaxFaults
  BY BoundAssumption
<1>4. DeliveryTypes
  BY <1>2, <1>3 DEF DeliveryInit, DeliveryTypes, RowRow, RelayRow, ChannelRow, ConsumerRow, Place, Receipts
<1>5. InHand
  BY DEF DeliveryInit, InHand
<1> QED BY <1>4, <1>5 DEF DeliveryInv

LEMMA EnqueueStep == DeliveryInv /\ enqueueOutboxMessage => DeliveryInv'
BY DEF DeliveryInv, DeliveryTypes, InHand, enqueueOutboxMessage, broker, RowRow, Shelf

LEMMA ClaimBatchStep ==
    ASSUME DeliveryInv, NEW i \in Instance, claimOutboxBatch(i)
    PROVE  DeliveryInv'
<1>1. PICK batch \in SUBSET Event :
        /\ batch # {} /\ relay[i].batch = {} /\ relay' = [relay EXCEPT ![i].batch = batch]
        /\ row' = [e \in Event |-> IF e \in batch THEN [row[e] EXCEPT !.lock = "held"] ELSE row[e]]
        /\ UNCHANGED <<channel, broker, consumer, receipt, handled, faults>>
  <2> DEFINE batch == {e \in Candidates : Cardinality({f \in Candidates : f < e}) < Batch}
  <2>1. batch \in SUBSET Event
    BY DEF Candidates
  <2>2. /\ batch # {} /\ relay[i].batch = {} /\ relay' = [relay EXCEPT ![i].batch = batch]
        /\ row' = [e \in Event |-> IF e \in batch THEN [row[e] EXCEPT !.lock = "held"] ELSE row[e]]
        /\ UNCHANGED <<channel, broker, consumer, receipt, handled, faults>>
    BY DEF claimOutboxBatch
  <2> HIDE DEF batch
  <2> QED BY <2>1, <2>2
<1>2. row' \in [Event -> RowRow]
  <2>1. \A e \in Event : [row[e] EXCEPT !.lock = "held"] \in RowRow /\ row[e] \in RowRow
    BY DEF DeliveryInv, DeliveryTypes, RowRow
  <2> QED BY <1>1, <2>1
<1>3. relay' \in [Instance -> RelayRow] /\ \A j \in Instance : relay'[j].sent => relay'[j].batch # {}
  BY <1>1 DEF DeliveryInv, DeliveryTypes, RelayRow, InHand
<1> QED BY <1>1, <1>2, <1>3 DEF DeliveryInv, DeliveryTypes, InHand, broker, Shelf

LEMMA PublishStep ==
    ASSUME DeliveryInv, NEW i \in Instance, publishEnvelope(i)
    PROVE  /\ DeliveryInv'
           /\ \E m \in Message : m.event = AtRow(i) /\ Sent(i, <<[op |-> "publish", msg |-> m]>>)
<1>1. /\ relay[i].batch # {} /\ relay' = [relay EXCEPT ![i].sent = TRUE]
      /\ UNCHANGED <<row, broker, consumer, receipt, handled, faults>>
      /\ Send(i, <<[op |-> "publish", msg |-> [event |-> AtRow(i), attempt |-> row[AtRow(i)].attempts]]>>)
  BY DEF publishEnvelope
<1>2. AtRow(i) \in Event
  BY <1>1, AtRowFacts DEF DeliveryInv, DeliveryTypes
<1>3. PICK m \in Message : m = [event |-> AtRow(i), attempt |-> row[AtRow(i)].attempts]
  BY <1>2 DEF DeliveryInv, DeliveryTypes, RowRow, Message
<1>4. PICK a \in Operation : a = [op |-> "publish", msg |-> m]
  BY MessageFacts
<1>5. <<a>> \in Seq(Operation) /\ Send(i, <<a>>)
  BY <1>1, <1>3, <1>4
<1>6. Sent(i, <<a>>)
  BY <1>5, SendFacts DEF DeliveryInv, DeliveryTypes
<1>7. relay' \in [Instance -> RelayRow] /\ \A j \in Instance : relay'[j].sent => relay'[j].batch # {}
  BY <1>1 DEF DeliveryInv, DeliveryTypes, RelayRow, InHand
<1>8. DeliveryInv'
  BY <1>1, <1>6, <1>7 DEF Sent, DeliveryInv, DeliveryTypes, InHand, broker, Shelf
<1> QED BY <1>3, <1>4, <1>6, <1>8

\* The relay has done with a row.
LEMMA RelayedStep ==
    ASSUME DeliveryInv, NEW i \in Instance, relay[i].batch # {}, NextRow(i),
           row' \in [Event -> RowRow], UNCHANGED <<channel, broker, consumer, receipt, handled, faults>>
    PROVE  DeliveryInv' /\ relay'[i].sent = FALSE /\ \A j \in Instance \ {i} : relay'[j] = relay[j]
<1>1. relay[i].batch \ {AtRow(i)} \in SUBSET Event
  BY DEF DeliveryInv, DeliveryTypes, RelayRow
<1>2. /\ relay' \in [Instance -> RelayRow] /\ relay'[i].sent = FALSE
      /\ \A j \in Instance \ {i} : relay'[j] = relay[j]
  BY <1>1 DEF NextRow, DeliveryInv, DeliveryTypes, RelayRow
<1> QED BY <1>2 DEF DeliveryInv, DeliveryTypes, InHand, broker, Shelf

LEMMA MarkPublishedStep ==
    ASSUME DeliveryInv, NEW i \in Instance, markOutboxPublished(i)
    PROVE  DeliveryInv'
<1>1. /\ relay[i].batch # {} /\ NextRow(i) /\ UNCHANGED <<channel, broker, consumer, receipt, handled, faults>>
      /\ row' = [row EXCEPT ![AtRow(i)].state = "published", ![AtRow(i)].lock = "free"]
  BY DEF markOutboxPublished, DeliveryInv, InHand
<1>2. row' \in [Event -> RowRow]
  <2>1. \A e \in Event : [row[e] EXCEPT !.state = "published", !.lock = "free"] \in RowRow /\ row[e] \in RowRow
    BY DEF DeliveryInv, DeliveryTypes, RowRow
  <2>2. row \in [Event -> RowRow] /\ AtRow(i) \in Event
    BY <1>1, AtRowFacts DEF DeliveryInv, DeliveryTypes
  <2>3. row' = [row EXCEPT ![AtRow(i)] = [row[AtRow(i)] EXCEPT !.state = "published", !.lock = "free"]]
    BY <1>1, <2>2 DEF RowRow
  <2> QED BY <2>1, <2>2, <2>3
<1> QED BY <1>1, <1>2, RelayedStep

LEMMA MarkFailedStep ==
    ASSUME DeliveryInv, NEW i \in Instance, markOutboxFailed(i)
    PROVE  DeliveryInv'
<1>1. /\ relay[i].batch # {} /\ NextRow(i) /\ UNCHANGED <<channel, broker, consumer, receipt, handled, faults>>
      /\ row' = [row EXCEPT ![AtRow(i)].lock = "later", ![AtRow(i)].attempts = @ + 1]
  BY DEF markOutboxFailed
<1>2. row' \in [Event -> RowRow]
  <2>1. ASSUME NEW e \in Event
        PROVE  [row[e] EXCEPT !.lock = "later", !.attempts = @ + 1] \in RowRow /\ row[e] \in RowRow
    <3>1. row[e] \in RowRow /\ row[e].attempts + 1 \in Nat
      BY DEF DeliveryInv, DeliveryTypes, RowRow
    <3> QED BY <3>1 DEF RowRow
  <2>2. row \in [Event -> RowRow] /\ AtRow(i) \in Event
    BY <1>1, AtRowFacts DEF DeliveryInv, DeliveryTypes
  <2>3. row' = [row EXCEPT ![AtRow(i)] = [row[AtRow(i)] EXCEPT !.lock = "later", !.attempts = @ + 1]]
    BY <1>1, <2>2 DEF RowRow
  <2> QED BY <2>1, <2>2, <2>3
<1> QED BY <1>1, <1>2, RelayedStep

LEMMA RelayFailsStep ==
    ASSUME DeliveryInv, NEW i \in Instance, RelayFails(i)
    PROVE  DeliveryInv'
<1>1. /\ Fault("outbox") /\ UNCHANGED <<row, channel, broker, consumer, receipt, handled>>
      /\ relay' = [relay EXCEPT ![i] = [batch |-> {}, sent |-> FALSE]]
  BY DEF RelayFails
<1>2. faults' \in [FaultKinds -> 0 .. MaxFaults]
  BY <1>1, FaultFacts DEF FaultKinds, DeliveryInv, DeliveryTypes
<1>3. relay' \in [Instance -> RelayRow] /\ \A j \in Instance : relay'[j].sent => relay'[j].batch # {}
  BY <1>1 DEF DeliveryInv, DeliveryTypes, RelayRow, InHand
<1> QED BY <1>1, <1>2, <1>3 DEF DeliveryInv, DeliveryTypes, InHand, broker, Shelf

LEMMA RowTimerStep ==
    ASSUME DeliveryInv, NEW e \in Event, RowTimer(e)
    PROVE  DeliveryInv' /\ row'[e].state = row[e].state /\ \A f \in Event \ {e} : row'[f] = row[f]
<1>1. PICK lock \in {"free", "stale"} : row' = [row EXCEPT ![e].lock = lock]
  BY DEF RowTimer
<1>2. UNCHANGED <<relay, channel, broker, consumer, receipt, handled, faults>>
  BY DEF RowTimer
<1>3. /\ row' \in [Event -> RowRow] /\ row'[e].state = row[e].state
      /\ \A f \in Event \ {e} : row'[f] = row[f]
  BY <1>1 DEF DeliveryInv, DeliveryTypes, RowRow
<1> QED BY <1>2, <1>3 DEF DeliveryInv, DeliveryTypes, InHand, broker, Shelf

\* The operation that the broker takes, and where it puts the message.
Took(i, op) ==
    /\ op = Head(channel[i].wire) /\ op \in Operation
    /\ channel'[i].wire = Tail(channel[i].wire) /\ channel'[i].up = channel[i].up
    /\ \A j \in Instance \ {i} : channel'[j] = channel[j]
    /\ BagToSet(ready) \subseteq BagToSet(ready') /\ BagToSet(delayed) \subseteq BagToSet(delayed')
    /\ BagToSet(dead) \subseteq BagToSet(dead')
    /\ op.op # "ack" => op.msg \in BagToSet(ready') \cup BagToSet(delayed') \cup BagToSet(dead')
    /\ unacked' = IF op.op = "ack" /\ unacked[i] = op.msg
                  THEN [unacked EXCEPT ![i] = None] ELSE unacked

LEMMA BrokerTakesStep ==
    ASSUME DeliveryInv, NEW i \in Instance, BrokerTakes(i)
    PROVE  DeliveryInv' /\ channel[i].wire # <<>> /\ \E op \in Operation : Took(i, op)
<1>1. channel[i].wire \in Seq(Operation) /\ channel[i].wire # <<>>
  BY DEF BrokerTakes, DeliveryInv, DeliveryTypes, ChannelRow
<1>2. PICK op \in Operation, w \in Seq(Operation) : op = Head(channel[i].wire) /\ w = Tail(channel[i].wire)
  BY <1>1, OpTaken
<1>3. PICK m \in Message : m = op.msg
  BY DEF Operation
<1>4. /\ channel' = [channel EXCEPT ![i].wire = w]
      /\ ready' = IF op.op = "publish" THEN ready (+) One(m) ELSE ready
      /\ delayed' = IF op.op = "delay" THEN delayed (+) One(m) ELSE delayed
      /\ dead' = IF op.op = "bury" THEN dead (+) One(m) ELSE dead
      /\ unacked' = IF op.op = "ack" /\ unacked[i] = op.msg THEN [unacked EXCEPT ![i] = None] ELSE unacked
      /\ UNCHANGED <<row, relay, consumer, receipt, handled, faults>>
  BY <1>2, <1>3 DEF BrokerTakes
<1>5. Shelf(ready) /\ Shelf(delayed) /\ Shelf(dead)
  BY DEF DeliveryInv, DeliveryTypes
<1>6. \A B : Shelf(B) => Shelf(B (+) One(m)) /\ BagToSet(B (+) One(m)) = BagToSet(B) \cup {m}
  BY ShelfWithOne
<1>7. /\ Shelf(ready') /\ BagToSet(ready') = IF op.op = "publish" THEN BagToSet(ready) \cup {m} ELSE BagToSet(ready)
  BY <1>4, <1>5, <1>6
<1>8. /\ Shelf(delayed') /\ BagToSet(delayed') = IF op.op = "delay" THEN BagToSet(delayed) \cup {m} ELSE BagToSet(delayed)
  BY <1>4, <1>5, <1>6
<1>9. /\ Shelf(dead') /\ BagToSet(dead') = IF op.op = "bury" THEN BagToSet(dead) \cup {m} ELSE BagToSet(dead)
  BY <1>4, <1>5, <1>6
<1>10. /\ channel' \in [Instance -> ChannelRow] /\ channel'[i].wire = w /\ channel'[i].up = channel[i].up
       /\ \A j \in Instance \ {i} : channel'[j] = channel[j]
  BY <1>4 DEF DeliveryInv, DeliveryTypes, ChannelRow
<1>11. unacked' \in [Instance -> Message \cup {None}]
  BY <1>4 DEF DeliveryInv, DeliveryTypes
<1>12. op.op \in {"publish", "delay", "bury", "ack"}
  BY DEF Operation
<1>13. Took(i, op)
  BY <1>2, <1>3, <1>4, <1>7, <1>8, <1>9, <1>10, <1>12 DEF Took
<1>14. DeliveryInv'
  BY <1>4, <1>7, <1>8, <1>9, <1>10, <1>11 DEF DeliveryInv, DeliveryTypes, InHand
<1> QED BY <1>1, <1>13, <1>14

\* The message m is delivered to i.
Delivered(i, m) ==
    /\ m \in BagToSet(ready) /\ m \in Message
    /\ channel[i].up /\ unacked[i] = None /\ consumer[i].pc = "idle"
    /\ BagToSet(ready) \ {m} \subseteq BagToSet(ready')
    /\ unacked' = [unacked EXCEPT ![i] = m]
    /\ consumer'[i].pc = "claim" /\ consumer'[i].msg = m
    /\ \A j \in Instance \ {i} : consumer'[j] = consumer[j]
    /\ UNCHANGED <<row, relay, channel, delayed, dead, receipt, handled, faults>>

LEMMA DeliverStep ==
    ASSUME DeliveryInv, NEW i \in Instance, Deliver(i)
    PROVE  DeliveryInv' /\ \E m \in Message : Delivered(i, m)
<1>1. PICK m \in BagToSet(ready) :
        /\ channel[i].up /\ unacked[i] = None /\ consumer[i].pc = "idle"
        /\ ready' = ready (-) One(m) /\ unacked' = [unacked EXCEPT ![i] = m]
        /\ consumer' = [consumer EXCEPT ![i] = [pc |-> "claim", msg |-> m]]
        /\ UNCHANGED <<row, relay, channel, delayed, dead, receipt, handled, faults>>
  BY DEF Deliver
<1>2. Shelf(ready') /\ BagToSet(ready) \ {m} \subseteq BagToSet(ready') /\ m \in Message
  BY <1>1, ShelfWithoutOne DEF DeliveryInv, DeliveryTypes
<1>3. /\ consumer' \in [Instance -> ConsumerRow] /\ consumer'[i].pc = "claim" /\ consumer'[i].msg = m
      /\ \A j \in Instance \ {i} : consumer'[j] = consumer[j]
  BY <1>1, <1>2 DEF DeliveryInv, DeliveryTypes, ConsumerRow, Place
<1>4. unacked' \in [Instance -> Message \cup {None}]
  BY <1>1, <1>2 DEF DeliveryInv, DeliveryTypes
<1>5. DeliveryInv'
  BY <1>1, <1>2, <1>3, <1>4 DEF DeliveryInv, DeliveryTypes, InHand, Shelf
<1> QED BY <1>1, <1>2, <1>3, <1>5 DEF Delivered

LEMMA RetryDueStep ==
    ASSUME DeliveryInv, RetryDue
    PROVE  /\ DeliveryInv' /\ UNCHANGED <<row, relay, channel, dead, unacked, consumer, receipt, handled, faults>>
           /\ BagToSet(ready) \cup BagToSet(delayed) \subseteq BagToSet(ready') \cup BagToSet(delayed')
<1>1. PICK m \in BagToSet(delayed) :
        /\ delayed' = delayed (-) One(m) /\ ready' = ready (+) One(m)
        /\ UNCHANGED <<row, relay, channel, dead, unacked, consumer, receipt, handled, faults>>
  BY DEF RetryDue
<1>2. Shelf(delayed') /\ BagToSet(delayed) \ {m} \subseteq BagToSet(delayed') /\ m \in Message
  BY <1>1, ShelfWithoutOne DEF DeliveryInv, DeliveryTypes
<1>3. Shelf(ready') /\ BagToSet(ready') = BagToSet(ready) \cup {m}
  BY <1>1, <1>2, ShelfWithOne DEF DeliveryInv, DeliveryTypes
<1>4. DeliveryInv'
  BY <1>1, <1>2, <1>3 DEF DeliveryInv, DeliveryTypes, InHand, Shelf
<1> QED BY <1>1, <1>2, <1>3, <1>4

-----------------------------------------------------------------------------
LEMMA ClaimedFacts ==
    ASSUME DeliveryInv, NEW i \in Instance, consumer[i].pc # "idle"
    PROVE  consumer[i].msg \in Message /\ Claimed(i) \in Event
BY MessageFacts DEF DeliveryInv, InHand, Claimed

\* A consumer goes on with its message, and no queue is touched.
LEMMA ConsumerMoves ==
    ASSUME DeliveryInv, NEW i \in Instance, NEW pc \in Place, consumer[i].pc # "idle", Goto(i, pc),
           UNCHANGED <<row, relay, channel, broker>>,
           receipt' \in [Event -> Receipts], handled' \in [Event -> Nat],
           faults' \in [FaultKinds -> 0 .. MaxFaults]
    PROVE  DeliveryInv' /\ WentTo(i, pc)
<1>1. WentTo(i, pc)
  BY GotoFacts DEF DeliveryInv, DeliveryTypes
<1> QED BY <1>1 DEF WentTo, DeliveryInv, DeliveryTypes, InHand, broker, Shelf

LEMMA ReceiptSet ==
    ASSUME DeliveryInv, NEW e \in Event, NEW r \in Receipts, receipt' = [receipt EXCEPT ![e] = r]
    PROVE  /\ receipt' \in [Event -> Receipts] /\ receipt'[e] = r
           /\ \A f \in Event \ {e} : receipt'[f] = receipt[f]
BY DEF DeliveryInv, DeliveryTypes

LEMMA TypesKept ==
    ASSUME DeliveryInv
    PROVE  /\ UNCHANGED receipt => receipt' \in [Event -> Receipts]
           /\ UNCHANGED handled => handled' \in [Event -> Nat]
           /\ UNCHANGED faults => faults' \in [FaultKinds -> 0 .. MaxFaults]
           /\ \A kind \in FaultKinds : Fault(kind) => faults' \in [FaultKinds -> 0 .. MaxFaults]
BY FaultFacts DEF DeliveryInv, DeliveryTypes

\* The steps of a consumer that has a message: where it goes from pc, and what
\* becomes of the receipt of its event.
Moved(i, from, pc, r) ==
    /\ consumer[i].pc = from /\ WentTo(i, pc) /\ Claimed(i) \in Event
    /\ receipt'[Claimed(i)] = r /\ \A f \in Event \ {Claimed(i)} : receipt'[f] = receipt[f]
    /\ UNCHANGED <<row, relay, channel, broker>>

LEMMA MovedStep ==
    ASSUME DeliveryInv, NEW i \in Instance, NEW pc \in Place, NEW r \in Receipts, NEW from,
           from # "idle", consumer[i].pc = from, Goto(i, pc),
           receipt' = [receipt EXCEPT ![Claimed(i)] = r], UNCHANGED <<row, relay, channel, broker>>,
           handled' \in [Event -> Nat], faults' \in [FaultKinds -> 0 .. MaxFaults]
    PROVE  DeliveryInv' /\ Moved(i, from, pc, r)
<1>1. Claimed(i) \in Event
  BY ClaimedFacts
<1>2. /\ receipt' \in [Event -> Receipts] /\ receipt'[Claimed(i)] = r
      /\ \A f \in Event \ {Claimed(i)} : receipt'[f] = receipt[f]
  BY <1>1, ReceiptSet
<1>3. DeliveryInv' /\ WentTo(i, pc)
  BY <1>2, ConsumerMoves
<1> QED BY <1>1, <1>2, <1>3 DEF Moved

\* ... or the receipts stay.
MovedOn(i, from, pc) ==
    /\ consumer[i].pc = from /\ WentTo(i, pc) /\ Claimed(i) \in Event
    /\ UNCHANGED <<row, relay, channel, broker, receipt>>

LEMMA MovedOnStep ==
    ASSUME DeliveryInv, NEW i \in Instance, NEW pc \in Place, NEW from,
           from # "idle", consumer[i].pc = from, Goto(i, pc), UNCHANGED <<row, relay, channel, broker, receipt>>,
           handled' \in [Event -> Nat], faults' \in [FaultKinds -> 0 .. MaxFaults]
    PROVE  DeliveryInv' /\ MovedOn(i, from, pc)
<1>1. Claimed(i) \in Event /\ receipt' \in [Event -> Receipts]
  BY ClaimedFacts, TypesKept
<1>2. DeliveryInv' /\ WentTo(i, pc)
  BY <1>1, ConsumerMoves
<1> QED BY <1>1, <1>2 DEF MovedOn

LEMMA ClaimStep ==
    ASSUME DeliveryInv, NEW i \in Instance, claimMessage(i)
    PROVE  /\ DeliveryInv' /\ UNCHANGED handled
           /\ \/ UNCHANGED faults /\ receipt[Claimed(i)] = "none" /\ Moved(i, "claim", "handle", "processing")
              \/ UNCHANGED faults /\ receipt[Claimed(i)] # "none" /\ MovedOn(i, "claim", "reclaim")
              \/ Fault("database") /\ MovedOn(i, "claim", "release")
<1>1. /\ consumer[i].pc = "claim" /\ UNCHANGED <<row, relay, channel, broker, handled>>
      /\ handled' \in [Event -> Nat]
  BY TypesKept DEF claimMessage
<1>2. CASE /\ receipt[Claimed(i)] = "none" /\ receipt' = [receipt EXCEPT ![Claimed(i)] = "processing"]
           /\ Goto(i, "handle") /\ UNCHANGED faults
  <2>1. "handle" \in Place /\ "processing" \in Receipts /\ consumer[i].pc # "idle"
    BY <1>1 DEF Place, Receipts
  <2>2. DeliveryInv' /\ Moved(i, "claim", "handle", "processing")
    BY <1>1, <1>2, <2>1, MovedStep, TypesKept
  <2> QED BY <1>1, <1>2, <2>2
<1>3. CASE receipt[Claimed(i)] # "none" /\ Goto(i, "reclaim") /\ UNCHANGED <<receipt, faults>>
  <2>1. DeliveryInv' /\ MovedOn(i, "claim", "reclaim")
    BY <1>1, <1>3, MovedOnStep, TypesKept DEF Place
  <2> QED BY <1>1, <1>3, <2>1
<1>4. CASE Fault("database") /\ Goto(i, "release") /\ UNCHANGED receipt
  <2>1. faults' \in [FaultKinds -> 0 .. MaxFaults]
    BY <1>4, TypesKept DEF FaultKinds
  <2>2. DeliveryInv' /\ MovedOn(i, "claim", "release")
    BY <1>1, <1>4, <2>1, MovedOnStep DEF Place
  <2> QED BY <1>1, <1>4, <2>2
<1> QED BY <1>2, <1>3, <1>4 DEF claimMessage, ClaimThrows

LEMMA ReclaimStep ==
    ASSUME DeliveryInv, NEW i \in Instance, Reclaim(i)
    PROVE  /\ DeliveryInv' /\ UNCHANGED handled
           /\ \/ UNCHANGED faults /\ receipt[Claimed(i)] = "stale" /\ Moved(i, "reclaim", "handle", "processing")
              \/ UNCHANGED faults /\ MovedOn(i, "reclaim", "ack")
              \/ Fault("database") /\ MovedOn(i, "reclaim", "release")
<1>1. /\ consumer[i].pc = "reclaim" /\ UNCHANGED <<row, relay, channel, broker, handled>>
      /\ handled' \in [Event -> Nat]
  BY TypesKept DEF Reclaim
<1>2. CASE /\ receipt[Claimed(i)] = "stale" /\ receipt' = [receipt EXCEPT ![Claimed(i)] = "processing"]
           /\ Goto(i, "handle") /\ UNCHANGED faults
  <2>1. "handle" \in Place /\ "processing" \in Receipts /\ consumer[i].pc # "idle"
    BY <1>1 DEF Place, Receipts
  <2>2. DeliveryInv' /\ Moved(i, "reclaim", "handle", "processing")
    BY <1>1, <1>2, <2>1, MovedStep, TypesKept
  <2> QED BY <1>1, <1>2, <2>2
<1>3. CASE receipt[Claimed(i)] # "stale" /\ Goto(i, "ack") /\ UNCHANGED <<receipt, faults>>
  <2>1. DeliveryInv' /\ MovedOn(i, "reclaim", "ack")
    BY <1>1, <1>3, MovedOnStep, TypesKept DEF Place
  <2> QED BY <1>1, <1>3, <2>1
<1>4. CASE Fault("database") /\ Goto(i, "release") /\ UNCHANGED receipt
  <2>1. faults' \in [FaultKinds -> 0 .. MaxFaults]
    BY <1>4, TypesKept DEF FaultKinds
  <2>2. DeliveryInv' /\ MovedOn(i, "reclaim", "release")
    BY <1>1, <1>4, <2>1, MovedOnStep DEF Place
  <2> QED BY <1>1, <1>4, <2>2
<1> QED BY <1>2, <1>3, <1>4 DEF Reclaim, ClaimThrows

LEMMA HandlerStep ==
    ASSUME DeliveryInv, NEW i \in Instance, Handler(i)
    PROVE  /\ DeliveryInv' /\ UNCHANGED faults
           /\ \/ /\ MovedOn(i, "handle", "mark") /\ handled'[Claimed(i)] = handled[Claimed(i)] + 1
                 /\ \A f \in Event \ {Claimed(i)} : handled'[f] = handled[f]
              \/ MovedOn(i, "handle", "release") /\ UNCHANGED handled
<1>1. /\ consumer[i].pc = "handle" /\ UNCHANGED <<row, relay, channel, broker, receipt, faults>>
      /\ faults' \in [FaultKinds -> 0 .. MaxFaults]
  BY TypesKept DEF Handler
<1>2. CASE handled' = [handled EXCEPT ![Claimed(i)] = @ + 1] /\ Goto(i, "mark")
  <2>1. Claimed(i) \in Event /\ handled \in [Event -> Nat]
    BY <1>1, ClaimedFacts DEF DeliveryInv, DeliveryTypes
  <2>2. /\ handled' \in [Event -> Nat] /\ handled'[Claimed(i)] = handled[Claimed(i)] + 1
        /\ \A f \in Event \ {Claimed(i)} : handled'[f] = handled[f]
    BY <1>2, <2>1
  <2>3. DeliveryInv' /\ MovedOn(i, "handle", "mark")
    BY <1>1, <1>2, <2>2, MovedOnStep DEF Place
  <2> QED BY <1>1, <2>2, <2>3
<1>3. CASE Goto(i, "release") /\ UNCHANGED handled
  <2>1. DeliveryInv' /\ MovedOn(i, "handle", "release")
    BY <1>1, <1>3, TypesKept, MovedOnStep DEF Place
  <2> QED BY <1>1, <1>3, <2>1
<1> QED BY <1>2, <1>3 DEF Handler

LEMMA MarkStep ==
    ASSUME DeliveryInv, NEW i \in Instance, markMessageProcessed(i)
    PROVE  /\ DeliveryInv' /\ UNCHANGED handled
           /\ \/ /\ UNCHANGED faults /\ \E r \in Receipts :
                        Moved(i, "mark", "ack", r) /\ r \in {receipt[Claimed(i)], "processed"}
                                                   /\ (r = "none" => receipt[Claimed(i)] = "none")
              \/ Fault("database") /\ MovedOn(i, "mark", "release")
<1>1. /\ consumer[i].pc = "mark" /\ UNCHANGED <<row, relay, channel, broker, handled>>
      /\ handled' \in [Event -> Nat]
  BY TypesKept DEF markMessageProcessed
<1>2. CASE /\ receipt' = [receipt EXCEPT ![Claimed(i)] = IF @ = "none" THEN @ ELSE "processed"]
           /\ Goto(i, "ack") /\ UNCHANGED faults
  <2>1. PICK r \in Receipts : /\ r = IF receipt[Claimed(i)] = "none" THEN receipt[Claimed(i)] ELSE "processed"
    BY DEF Receipts
  <2>2. receipt' = [receipt EXCEPT ![Claimed(i)] = r]
    BY <1>2, <2>1
  <2>3. DeliveryInv' /\ Moved(i, "mark", "ack", r)
    BY <1>1, <1>2, <2>2, MovedStep, TypesKept DEF Place
  <2> QED BY <1>1, <1>2, <2>1, <2>3
<1>3. CASE Fault("database") /\ Goto(i, "release") /\ UNCHANGED receipt
  <2>1. faults' \in [FaultKinds -> 0 .. MaxFaults]
    BY <1>3, TypesKept DEF FaultKinds
  <2>2. DeliveryInv' /\ MovedOn(i, "mark", "release")
    BY <1>1, <1>3, <2>1, MovedOnStep DEF Place
  <2> QED BY <1>1, <1>3, <2>2
<1> QED BY <1>2, <1>3 DEF markMessageProcessed

LEMMA ReleaseStep ==
    ASSUME DeliveryInv, NEW i \in Instance, releaseMessage(i)
    PROVE  /\ DeliveryInv' /\ UNCHANGED handled
           /\ \/ UNCHANGED faults /\ Moved(i, "release", "retry", "none")
              \/ Fault("database") /\ MovedOn(i, "release", "retry")
<1>1. /\ consumer[i].pc = "release" /\ UNCHANGED <<row, relay, channel, broker, handled>>
      /\ Goto(i, "retry") /\ handled' \in [Event -> Nat]
  BY TypesKept DEF releaseMessage
<1>2. CASE receipt' = [receipt EXCEPT ![Claimed(i)] = "none"] /\ UNCHANGED faults
  <2>1. DeliveryInv' /\ Moved(i, "release", "retry", "none")
    BY <1>1, <1>2, MovedStep, TypesKept DEF Place, Receipts
  <2> QED BY <1>1, <1>2, <2>1
<1>3. CASE Fault("database") /\ UNCHANGED receipt
  <2>1. faults' \in [FaultKinds -> 0 .. MaxFaults]
    BY <1>3, TypesKept DEF FaultKinds
  <2>2. DeliveryInv' /\ MovedOn(i, "release", "retry")
    BY <1>1, <1>3, <2>1, MovedOnStep DEF Place
  <2> QED BY <1>1, <1>3, <2>2
<1> QED BY <1>2, <1>3 DEF releaseMessage

\* A consumer has done with its message: it sent ops, or its channel was gone.
Closed(i, from, ops) ==
    /\ consumer[i].pc = from /\ Claimed(i) \in Event /\ Idled(i)
    /\ channel[i].up => Sent(i, ops)
    /\ ~channel[i].up => UNCHANGED channel
    /\ UNCHANGED <<row, relay, broker, receipt, handled, faults>>

LEMMA ClosedStep ==
    ASSUME DeliveryInv, NEW i \in Instance, NEW ops \in Seq(Operation), NEW from,
           from # "idle", consumer[i].pc = from, Done(i),
           IF channel[i].up THEN Send(i, ops) ELSE UNCHANGED channel,
           UNCHANGED <<row, relay, broker, receipt, handled, faults>>
    PROVE  DeliveryInv' /\ Closed(i, from, ops)
<1>1. Idled(i) /\ Claimed(i) \in Event
  BY DoneFacts, ClaimedFacts DEF DeliveryInv, DeliveryTypes
<1>2. channel[i].up => Sent(i, ops)
  BY SendFacts DEF DeliveryInv, DeliveryTypes
<1>3. channel' \in [Instance -> ChannelRow]
  BY <1>2 DEF DeliveryInv, DeliveryTypes, Sent
<1>4. DeliveryInv'
  BY <1>1, <1>3 DEF Idled, DeliveryInv, DeliveryTypes, InHand, broker, Shelf
<1> QED BY <1>1, <1>2, <1>4 DEF Closed

LEMMA AcknowledgeStep ==
    ASSUME DeliveryInv, NEW i \in Instance, Acknowledge(i)
    PROVE  /\ DeliveryInv'
           /\ \E a \in Operation : a.op = "ack" /\ a.msg = consumer[i].msg /\ Closed(i, "ack", <<a>>)
<1>1. consumer[i].pc = "ack" /\ consumer[i].msg \in Message
  BY ClaimedFacts DEF Acknowledge
<1>2. PICK a \in Operation : a = [op |-> "ack", msg |-> consumer[i].msg]
  BY <1>1, MessageFacts
<1>3. <<a>> \in Seq(Operation) /\ a.op = "ack" /\ a.msg = consumer[i].msg
  BY <1>2
<1>4. /\ IF channel[i].up THEN Send(i, <<a>>) ELSE UNCHANGED channel
      /\ Done(i) /\ UNCHANGED <<row, relay, broker, receipt, handled, faults>>
  BY <1>2 DEF Acknowledge
<1>5. DeliveryInv' /\ Closed(i, "ack", <<a>>)
  BY <1>1, <1>3, <1>4, ClosedStep
<1> QED BY <1>3, <1>5

LEMMA RetryStep ==
    ASSUME DeliveryInv, NEW i \in Instance, retryOrDeadLetter(i)
    PROVE  /\ DeliveryInv'
           /\ \E a, b \in Operation :
                  /\ a.op \in {"delay", "bury"} /\ a.msg.event = Claimed(i)
                  /\ b.op = "ack" /\ b.msg = consumer[i].msg /\ Closed(i, "retry", <<a, b>>)
<1>1. consumer[i].pc = "retry" /\ consumer[i].msg \in Message
  BY ClaimedFacts DEF retryOrDeadLetter
<1> PICK m \in Message : m = consumer[i].msg
  BY <1>1
<1>2. PICK n \in Message : n = [m EXCEPT !.attempt = @ + 1] /\ n.event = m.event
  BY MessageFacts
<1>3. PICK target \in {"delay", "bury"} : target = IF m.attempt < Retries THEN "delay" ELSE "bury"
  OBVIOUS
<1>4. PICK a \in Operation : a = [op |-> target, msg |-> n]
  BY MessageFacts
<1>5. PICK b \in Operation : b = [op |-> "ack", msg |-> m]
  BY MessageFacts
<1>6. /\ a.op \in {"delay", "bury"} /\ a.msg.event = Claimed(i)
      /\ b.op = "ack" /\ b.msg = consumer[i].msg /\ <<a, b>> \in Seq(Operation)
  <2>1. a.op = target /\ a.msg = n
    BY <1>4
  <2>2. b.op = "ack" /\ b.msg = m
    BY <1>5
  <2>3. Claimed(i) = m.event
    BY DEF Claimed
  <2>4. <<a, b>> \in Seq(Operation)
    OBVIOUS
  <2> QED BY <1>2, <2>1, <2>2, <2>3, <2>4
<1>7. /\ IF channel[i].up THEN Send(i, <<a, b>>) ELSE UNCHANGED channel
      /\ Done(i) /\ UNCHANGED <<row, relay, broker, receipt, handled, faults>>
  BY <1>2, <1>3, <1>4, <1>5 DEF retryOrDeadLetter
<1>8. DeliveryInv' /\ Closed(i, "retry", <<a, b>>)
  BY <1>1, <1>6, <1>7, ClosedStep
<1> QED BY <1>6, <1>8

LEMMA ReceiptTimerStep ==
    ASSUME DeliveryInv, NEW e \in Event, ReceiptTimer(e)
    PROVE  /\ DeliveryInv' /\ receipt[e] = "processing" /\ receipt'[e] = "stale" /\ Fault("stale receipt")
           /\ \A f \in Event \ {e} : receipt'[f] = receipt[f]
           /\ UNCHANGED <<row, relay, channel, broker, consumer, handled>>
<1>1. /\ receipt[e] = "processing" /\ Fault("stale receipt") /\ receipt' = [receipt EXCEPT ![e] = "stale"]
      /\ UNCHANGED <<row, relay, channel, broker, consumer, handled>>
  BY DEF ReceiptTimer
<1>2. /\ receipt' \in [Event -> Receipts] /\ receipt'[e] = "stale"
      /\ \A f \in Event \ {e} : receipt'[f] = receipt[f]
  BY <1>1, ReceiptSet DEF Receipts
<1>3. faults' \in [FaultKinds -> 0 .. MaxFaults]
  BY <1>1, TypesKept DEF FaultKinds
<1> QED BY <1>1, <1>2, <1>3 DEF DeliveryInv, DeliveryTypes, InHand, broker, Shelf

LEMMA CrashStep ==
    ASSUME DeliveryInv, NEW i \in Instance, InstanceCrash(i)
    PROVE  DeliveryInv' /\ Fault("crash") /\ Idled(i) /\ UNCHANGED <<receipt, handled>>
<1>1. /\ relay' = [relay EXCEPT ![i] = [batch |-> {}, sent |-> FALSE]]
      /\ channel' = [channel EXCEPT ![i] = [up |-> TRUE, consuming |-> TRUE, wire |-> <<>>]]
      /\ Done(i) /\ Requeue(i) /\ UNCHANGED <<row, receipt, handled>> /\ Fault("crash")
  BY DEF InstanceCrash
<1>2. <<>> \in Seq(Operation)
  OBVIOUS
<1>3. channel' \in [Instance -> ChannelRow]
  BY <1>1, <1>2 DEF DeliveryInv, DeliveryTypes, ChannelRow
<1>4. relay' \in [Instance -> RelayRow] /\ \A j \in Instance : relay'[j].sent => relay'[j].batch # {}
  BY <1>1 DEF DeliveryInv, DeliveryTypes, RelayRow, InHand
<1>5. Idled(i)
  BY <1>1, DoneFacts DEF DeliveryInv, DeliveryTypes
<1>6. \A j \in Instance : consumer'[j].pc # "idle" => consumer'[j].msg \in Message
  BY <1>5 DEF Idled, DeliveryInv, InHand
<1>7. faults' \in [FaultKinds -> 0 .. MaxFaults]
  BY <1>1, TypesKept DEF FaultKinds
<1>8. Shelf(ready') /\ unacked' \in [Instance -> Message \cup {None}] /\ UNCHANGED <<delayed, dead>>
  BY <1>1, RequeueFacts DEF DeliveryInv
<1>9. DeliveryTypes'
  BY <1>1, <1>3, <1>4, <1>5, <1>7, <1>8 DEF Idled, DeliveryInv, DeliveryTypes, Shelf
<1> QED BY <1>1, <1>4, <1>5, <1>6, <1>9 DEF DeliveryInv, InHand

LEMMA DisconnectStep ==
    ASSUME DeliveryInv, NEW i \in Instance, Disconnect(i)
    PROVE  DeliveryInv' /\ Fault("disconnect") /\ UNCHANGED <<consumer, receipt, handled>>
<1>1. /\ channel' = [channel EXCEPT ![i] = [up |-> FALSE, consuming |-> FALSE, wire |-> <<>>]]
      /\ Requeue(i) /\ UNCHANGED <<row, relay, consumer, receipt, handled>> /\ Fault("disconnect")
  BY DEF Disconnect
<1>2. <<>> \in Seq(Operation)
  OBVIOUS
<1>3. channel' \in [Instance -> ChannelRow]
  BY <1>1, <1>2 DEF DeliveryInv, DeliveryTypes, ChannelRow
<1>7. faults' \in [FaultKinds -> 0 .. MaxFaults]
  BY <1>1, TypesKept DEF FaultKinds
<1>8. Shelf(ready') /\ unacked' \in [Instance -> Message \cup {None}] /\ UNCHANGED <<delayed, dead>>
  BY <1>1, RequeueFacts DEF DeliveryInv
<1> QED BY <1>1, <1>3, <1>7, <1>8 DEF DeliveryInv, DeliveryTypes, InHand, Shelf

LEMMA ReconnectStep ==
    ASSUME DeliveryInv, NEW i \in Instance, connectRabbitMQ(i)
    PROVE  DeliveryInv' /\ ~channel[i].up /\ UNCHANGED <<row, relay, broker, consumer, receipt, handled, faults>>
<1>1. /\ ~channel[i].up /\ channel' = [channel EXCEPT ![i].up = TRUE]
      /\ UNCHANGED <<row, relay, broker, consumer, receipt, handled, faults>>
  BY DEF connectRabbitMQ
<1>2. channel' \in [Instance -> ChannelRow]
  BY <1>1 DEF DeliveryInv, DeliveryTypes, ChannelRow
<1> QED BY <1>1, <1>2 DEF DeliveryInv, DeliveryTypes, InHand, broker, Shelf

LEMMA DeliveryInvStep == DeliveryInv /\ [DeliveryNext]_deliveryVars => DeliveryInv'
<1> SUFFICES ASSUME DeliveryInv, [DeliveryNext]_deliveryVars PROVE DeliveryInv'
  OBVIOUS
<1>1. CASE enqueueOutboxMessage
  BY <1>1, EnqueueStep
<1>2. CASE RetryDue
  BY <1>2, RetryDueStep
<1>3. CASE \E e \in Event : RowTimer(e) \/ ReceiptTimer(e)
  BY <1>3, RowTimerStep, ReceiptTimerStep
<1>4. CASE \E i \in Instance : Relay(i) \/ RelayFails(i)
  BY <1>4, ClaimBatchStep, PublishStep, MarkPublishedStep, MarkFailedStep, RelayFailsStep DEF Relay
<1>5. CASE \E i \in Instance : Consume(i)
  BY <1>5, ClaimStep, ReclaimStep, HandlerStep, MarkStep, ReleaseStep, AcknowledgeStep, RetryStep DEF Consume
<1>6. CASE \E i \in Instance : BrokerTakes(i) \/ Deliver(i)
  BY <1>6, BrokerTakesStep, DeliverStep
<1>7. CASE \E i \in Instance : InstanceCrash(i) \/ Disconnect(i) \/ connectRabbitMQ(i)
  BY <1>7, CrashStep, DisconnectStep, ReconnectStep
<1>8. CASE UNCHANGED deliveryVars
  BY <1>8 DEF deliveryVars, broker, DeliveryInv, DeliveryTypes, InHand, Shelf
<1> QED BY <1>1, <1>2, <1>3, <1>4, <1>5, <1>6, <1>7, <1>8 DEF DeliveryNext

(***************************************************************************)
(* Outbox rows, the wire of every channel, the queues, the consumers and   *)
(* the receipts are always of their types, for any number of messages,     *)
(* instances and faults.                                                   *)
(***************************************************************************)
THEOREM DeliveryIsTyped == DeliverySpec => []DeliveryTypeOK
<1>1. DeliveryInv => DeliveryTypeOK
  BY TypesAreTypeOK DEF DeliveryInv
<1> QED BY <1>1, DeliveryInvInit, DeliveryInvStep, PTL DEF DeliverySpec

-----------------------------------------------------------------------------
(***************************************************************************)
(* At most once.                                                           *)
(***************************************************************************)
AtHandler == {"handle", "release"}

\* The consumers that may still run the handler of e to its end, or have failed
\* to and not yet given the event back; and the chance for one more.
Hands(e)  == {i \in Instance : consumer[i].pc \in AtHandler /\ consumer[i].msg.event = e}
Chance(e) == IF receipt[e] \in {"none", "stale"} THEN 1 ELSE 0
Untold    == faults["database"]
Overdue   == faults["stale receipt"]
Room      == 1 + Untold + Overdue

WithinRoom(e) == IsFiniteSet(Hands(e)) /\ handled[e] + Cardinality(Hands(e)) + Chance(e) <= Room

OnceInv == \A e \in Event : WithinRoom(e)

LEMMA RoomType == DeliveryInv => Room \in Nat /\ \A e \in Event : handled[e] \in Nat
<1> SUFFICES ASSUME DeliveryInv PROVE Room \in Nat
  BY DEF DeliveryInv, DeliveryTypes
<1>1. \A kind \in FaultKinds : faults[kind] \in Nat
  BY BoundAssumption DEF DeliveryInv, DeliveryTypes
<1>2. Untold \in Nat /\ Overdue \in Nat
  BY <1>1, Zenon DEF FaultKinds, Untold, Overdue
<1> QED BY <1>2 DEF Room

LEMMA OnceFacts ==
    ASSUME DeliveryInv, NEW e \in Event, IsFiniteSet(Hands(e))
    PROVE  handled[e] \in Nat /\ Cardinality(Hands(e)) \in Nat /\ Chance(e) \in {0, 1} /\ Room \in Nat
<1>1. Cardinality(Hands(e)) \in Nat
  BY FS_CardinalityType
<1> QED BY <1>1, RoomType DEF Chance

LEMMA OnceInitially == DeliveryInit => OnceInv
<1> SUFFICES ASSUME DeliveryInit, NEW e \in Event PROVE WithinRoom(e)
  BY DEF OnceInv
<1>1. Hands(e) = {}
  BY DEF DeliveryInit, Hands, AtHandler
<1>2. IsFiniteSet(Hands(e)) /\ Cardinality(Hands(e)) = 0
  BY <1>1, FS_EmptySet
<1>3. handled[e] = 0 /\ Chance(e) = 1
  BY DEF DeliveryInit, Chance
<1>4. Room = 1
  <2>1. Untold = 0 /\ Overdue = 0
    BY Zenon DEF DeliveryInit, FaultKinds, Untold, Overdue
  <2> QED BY <2>1 DEF Room
<1> QED BY <1>2, <1>3, <1>4 DEF WithinRoom

\* How a consumer that moves changes the hands of an event.
LEMMA HandsMoved ==
    ASSUME DeliveryInv, NEW i \in Instance, NEW pc \in Place, WentTo(i, pc),
           NEW e \in Event, IsFiniteSet(Hands(e))
    PROVE  /\ IsFiniteSet(Hands(e)')
           /\ Claimed(i) # e \/ (pc \in AtHandler <=> consumer[i].pc \in AtHandler) =>
                  Cardinality(Hands(e)') = Cardinality(Hands(e))
           /\ Claimed(i) = e /\ pc \in AtHandler /\ consumer[i].pc \notin AtHandler =>
                  Cardinality(Hands(e)') = Cardinality(Hands(e)) + 1
           /\ Claimed(i) = e /\ pc \notin AtHandler /\ consumer[i].pc \in AtHandler =>
                  Cardinality(Hands(e)') = Cardinality(Hands(e)) - 1
<1>1. \A j \in Instance \ {i} : j \in Hands(e)' <=> j \in Hands(e)
  BY DEF WentTo, Hands
<1>2. i \in Hands(e) <=> consumer[i].pc \in AtHandler /\ Claimed(i) = e
  BY DEF Hands, Claimed
<1>3. i \in Hands(e)' <=> pc \in AtHandler /\ Claimed(i) = e
  BY DEF WentTo, Hands, Claimed
<1>4. Hands(e) \subseteq Instance /\ Hands(e)' \subseteq Instance
  BY DEF Hands
<1>5. CASE i \in Hands(e) <=> i \in Hands(e)'
  <2>1. Hands(e)' = Hands(e)
    BY <1>1, <1>4, <1>5
  <2> QED BY <2>1, <1>2, <1>3, <1>5
<1>6. CASE i \notin Hands(e) /\ i \in Hands(e)'
  <2>1. Hands(e)' = Hands(e) \cup {i}
    BY <1>1, <1>4, <1>6
  <2>2. IsFiniteSet(Hands(e) \cup {i}) /\ Cardinality(Hands(e) \cup {i}) = Cardinality(Hands(e)) + 1
    BY <1>6, FS_AddElement
  <2>3. IsFiniteSet(Hands(e)') /\ Cardinality(Hands(e)') = Cardinality(Hands(e)) + 1
    BY <2>1, <2>2, Zenon
  <2> QED BY <2>3, <1>2, <1>3, <1>6
<1>7. CASE i \in Hands(e) /\ i \notin Hands(e)'
  <2>1. Hands(e)' = Hands(e) \ {i}
    BY <1>1, <1>4, <1>7
  <2>2. IsFiniteSet(Hands(e) \ {i}) /\ Cardinality(Hands(e) \ {i}) = Cardinality(Hands(e)) - 1
    BY <1>7, FS_RemoveElement
  <2>3. IsFiniteSet(Hands(e)') /\ Cardinality(Hands(e)') = Cardinality(Hands(e)) - 1
    BY <2>1, <2>2, Zenon
  <2> QED BY <2>3, <1>2, <1>3, <1>7
<1> QED BY <1>5, <1>6, <1>7

LEMMA RoomGrows ==
    ASSUME DeliveryInv
    PROVE  /\ UNCHANGED faults => Room' = Room /\ Room' >= Room /\ Room' \in Nat /\ Room \in Nat
           /\ \A kind \in FaultKinds : Fault(kind) => Room' >= Room /\ Room' \in Nat /\ Room \in Nat
           /\ Fault("database") => Room' = Room + 1
           /\ Fault("stale receipt") => Room' = Room + 1
<1>1. "database" \in FaultKinds /\ "stale receipt" \in FaultKinds /\ "database" # "stale receipt"
  BY DEF FaultKinds
<1>2. (\E kind \in FaultKinds : Fault(kind)) =>
          \A k \in FaultKinds : faults[k] \in Nat /\ faults'[k] \in Nat /\ faults'[k] >= faults[k]
  <2> SUFFICES ASSUME NEW kind \in FaultKinds, Fault(kind), NEW k \in FaultKinds
               PROVE  faults[k] \in Nat /\ faults'[k] \in Nat /\ faults'[k] >= faults[k]
    OBVIOUS
  <2>1. /\ faults'[kind] = faults[kind] + 1 /\ (k # kind => faults'[k] = faults[k])
        /\ faults[k] \in Nat /\ faults'[k] \in Nat
    BY FaultFacts DEF DeliveryInv, DeliveryTypes
  <2> QED BY <2>1
<1>3. ASSUME NEW kind \in FaultKinds, Fault(kind)
      PROVE  /\ Untold \in Nat /\ Overdue \in Nat /\ Untold' \in Nat /\ Overdue' \in Nat
             /\ Untold' >= Untold /\ Overdue' >= Overdue
  BY <1>1, <1>2, <1>3, Zenon DEF Untold, Overdue
<1>4. ASSUME NEW kind \in FaultKinds, Fault(kind)
      PROVE  Room' >= Room /\ Room' \in Nat /\ Room \in Nat
  BY <1>3, <1>4 DEF Room
<1>5. Fault("database") => Untold' = Untold + 1 /\ Overdue' = Overdue
  BY <1>1, FaultFacts, Zenon DEF DeliveryInv, DeliveryTypes, Untold, Overdue
<1>6. Fault("stale receipt") => Untold' = Untold /\ Overdue' = Overdue + 1
  BY <1>1, FaultFacts, Zenon DEF DeliveryInv, DeliveryTypes, Untold, Overdue
<1>7. ASSUME Fault("database") PROVE Room' = Room + 1
  <2>1. Untold \in Nat /\ Overdue \in Nat /\ Untold' = Untold + 1 /\ Overdue' = Overdue
    BY <1>1, <1>3, <1>5, <1>7, Zenon
  <2> QED BY <2>1 DEF Room
<1>8. ASSUME Fault("stale receipt") PROVE Room' = Room + 1
  <2>1. Untold \in Nat /\ Overdue \in Nat /\ Untold' = Untold /\ Overdue' = Overdue + 1
    BY <1>1, <1>3, <1>6, <1>8, Zenon
  <2> QED BY <2>1 DEF Room
<1>9. UNCHANGED faults => Room' = Room /\ Room' >= Room /\ Room' \in Nat /\ Room \in Nat
  <2>1. UNCHANGED faults => Room' = Room
    BY Zenon DEF Room, Untold, Overdue
  <2>2. Room \in Nat /\ Room >= Room
    BY RoomType
  <2> QED BY <2>1, <2>2, Zenon
<1> QED BY <1>4, <1>7, <1>8, <1>9, Zenon

\* Nothing happens to e that would bring one more consumer to its handler.
LEMMA RoomKept ==
    ASSUME DeliveryInv, NEW e \in Event, WithinRoom(e),
           Hands(e)' \subseteq Hands(e), handled'[e] = handled[e],
           Chance(e)' <= Chance(e) \/ (Chance(e)' <= Chance(e) + 1 /\ Room' = Room + 1),
           Room' >= Room, Room' \in Nat
    PROVE  WithinRoom(e)'
<1>1. IsFiniteSet(Hands(e)') /\ Cardinality(Hands(e)') <= Cardinality(Hands(e))
  BY FS_Subset DEF WithinRoom
<1>2. handled[e] \in Nat /\ Cardinality(Hands(e)) \in Nat /\ Chance(e) \in {0, 1} /\ Room \in Nat
  BY OnceFacts DEF WithinRoom
<1>3. Cardinality(Hands(e)') \in Nat
  BY <1>1, FS_CardinalityType
<1>4. Chance(e)' \in {0, 1}
  BY DEF Chance
<1> QED BY <1>1, <1>2, <1>3, <1>4 DEF WithinRoom

LEMMA OnceUntouched ==
    ASSUME DeliveryInv, OnceInv, UNCHANGED <<consumer, receipt, handled>>, Room' >= Room, Room' \in Nat
    PROVE  OnceInv'
<1> SUFFICES ASSUME NEW e \in Event PROVE WithinRoom(e)'
  BY DEF OnceInv
<1>1. Hands(e)' \subseteq Hands(e) /\ handled'[e] = handled[e] /\ Chance(e)' = Chance(e)
  BY DEF Hands, Chance
<1>2. Chance(e)' <= Chance(e)
  BY <1>1 DEF Chance
<1> QED BY <1>1, <1>2, RoomKept DEF OnceInv

\* A consumer that takes a message or has done with one is not at its handler.
LEMMA OnceAway ==
    ASSUME DeliveryInv, OnceInv, NEW i \in Instance, consumer'[i].pc \in {"idle", "claim"},
           \A j \in Instance \ {i} : consumer'[j] = consumer[j],
           UNCHANGED <<receipt, handled>>, Room' >= Room, Room' \in Nat
    PROVE  OnceInv'
<1> SUFFICES ASSUME NEW e \in Event PROVE WithinRoom(e)'
  BY DEF OnceInv
<1>1. Hands(e)' \subseteq Hands(e) /\ handled'[e] = handled[e] /\ Chance(e)' = Chance(e)
  BY DEF Hands, Chance, AtHandler
<1>2. Chance(e)' <= Chance(e)
  BY <1>1 DEF Chance
<1> QED BY <1>1, <1>2, RoomKept DEF OnceInv

\* Of the events only that of the consumer that moves has to be looked at.
LEMMA OnceMoved ==
    ASSUME DeliveryInv, OnceInv, NEW i \in Instance, NEW pc \in Place, WentTo(i, pc),
           NEW c \in Event, c = Claimed(i),
           \A f \in Event \ {c} : receipt'[f] = receipt[f] /\ handled'[f] = handled[f],
           Room' >= Room, Room' \in Nat, WithinRoom(c)'
    PROVE  OnceInv'
<1> SUFFICES ASSUME NEW e \in Event PROVE WithinRoom(e)'
  BY DEF OnceInv
<1>1. CASE e # c
  <2>1. Hands(e)' \subseteq Hands(e) /\ handled'[e] = handled[e] /\ Chance(e)' = Chance(e)
    BY <1>1 DEF Hands, Chance, WentTo, Claimed
  <2>2. Chance(e)' <= Chance(e)
    BY <2>1 DEF Chance
  <2> QED BY <2>1, <2>2, RoomKept DEF OnceInv
<1>2. CASE e = c
  BY <1>2
<1> QED BY <1>1, <1>2

\* A statement on the receipts throws before the handler or after its end: the
\* consumer joins those that may give the event back.
LEMMA OnceThrown ==
    ASSUME DeliveryInv, OnceInv, NEW i \in Instance, NEW c \in Event, c = Claimed(i),
           consumer[i].pc \notin AtHandler, Fault("database"), WentTo(i, "release"),
           UNCHANGED <<receipt, handled>>
    PROVE  OnceInv'
<1>1. Room' = Room + 1 /\ Room \in Nat
  BY RoomGrows, RoomType
<1>2. IsFiniteSet(Hands(c)') /\ Cardinality(Hands(c)') = Cardinality(Hands(c)) + 1
  BY HandsMoved DEF OnceInv, WithinRoom, AtHandler, Place
<1>3. /\ handled'[c] = handled[c] /\ handled[c] \in Nat /\ Cardinality(Hands(c)) \in Nat
      /\ Chance(c) \in {0, 1} /\ Chance(c)' = Chance(c)
  BY OnceFacts DEF OnceInv, WithinRoom, Chance
<1>4. handled[c] + Cardinality(Hands(c)) + Chance(c) <= Room
  BY DEF OnceInv, WithinRoom
<1>5. WithinRoom(c)'
  BY <1>1, <1>2, <1>3, <1>4 DEF WithinRoom
<1>6. Room' >= Room /\ Room' \in Nat
  BY <1>1
<1> QED BY <1>5, <1>6, OnceMoved DEF Place

LEMMA OnceClaims ==
    ASSUME DeliveryInv, OnceInv, NEW i \in Instance, claimMessage(i) \/ Reclaim(i)
    PROVE  OnceInv'
<1>1. PICK c \in Event : c = Claimed(i)
  BY ClaimedFacts DEF claimMessage, Reclaim
<1>2. UNCHANGED handled /\ consumer[i].pc \in {"claim", "reclaim"}
  BY ClaimStep, ReclaimStep DEF claimMessage, Reclaim
<1>3. UNCHANGED faults => Room' = Room /\ Room' \in Nat /\ Room' >= Room
  BY RoomGrows, Zenon
<1>4. CASE /\ UNCHANGED faults
           /\ receipt[c] \in {"none", "stale"} /\ WentTo(i, "handle") /\ receipt'[c] = "processing"
           /\ \A f \in Event \ {c} : receipt'[f] = receipt[f]
  <2>1. Chance(c) = 1 /\ Chance(c)' = 0
    BY <1>4 DEF Chance
  <2>2. IsFiniteSet(Hands(c)') /\ Cardinality(Hands(c)') = Cardinality(Hands(c)) + 1
    BY <1>1, <1>2, <1>4, HandsMoved DEF OnceInv, WithinRoom, AtHandler, Place
  <2>3. handled'[c] = handled[c] /\ handled[c] \in Nat /\ Cardinality(Hands(c)) \in Nat
    BY <1>2, OnceFacts DEF OnceInv, WithinRoom
  <2>4. handled[c] + Cardinality(Hands(c)) + Chance(c) <= Room
    BY DEF OnceInv, WithinRoom
  <2>5. WithinRoom(c)'
    BY <1>3, <1>4, <2>1, <2>2, <2>3, <2>4 DEF WithinRoom
  <2> QED BY <1>1, <1>2, <1>3, <1>4, <2>5, OnceMoved DEF Place
<1>5. CASE UNCHANGED faults /\ \E pc \in {"reclaim", "ack"} : WentTo(i, pc) /\ UNCHANGED receipt
  <2>1. PICK pc \in {"reclaim", "ack"} : WentTo(i, pc) /\ UNCHANGED receipt
    BY <1>5
  <2>2. \A e \in Event : Hands(e)' \subseteq Hands(e) /\ handled'[e] = handled[e] /\ Chance(e)' <= Chance(e)
    BY <1>2, <2>1 DEF Hands, WentTo, Chance, AtHandler
  <2> QED BY <1>3, <1>5, <2>2, RoomKept DEF OnceInv
<1>6. CASE Fault("database") /\ WentTo(i, "release") /\ UNCHANGED receipt
  BY <1>1, <1>2, <1>6, OnceThrown DEF AtHandler
<1>7. \/ /\ UNCHANGED faults
         /\ receipt[c] \in {"none", "stale"} /\ WentTo(i, "handle") /\ receipt'[c] = "processing"
         /\ \A f \in Event \ {c} : receipt'[f] = receipt[f]
      \/ UNCHANGED faults /\ \E pc \in {"reclaim", "ack"} : WentTo(i, pc) /\ UNCHANGED receipt
      \/ Fault("database") /\ WentTo(i, "release") /\ UNCHANGED receipt
  <2>1. CASE claimMessage(i)
    <3>1. \/ UNCHANGED faults /\ receipt[c] = "none" /\ Moved(i, "claim", "handle", "processing")
          \/ UNCHANGED faults /\ MovedOn(i, "claim", "reclaim")
          \/ Fault("database") /\ MovedOn(i, "claim", "release")
      BY <1>1, <2>1, ClaimStep
    <3> QED BY <1>1, <3>1 DEF Moved, MovedOn
  <2>2. CASE Reclaim(i)
    <3>1. \/ UNCHANGED faults /\ receipt[c] = "stale" /\ Moved(i, "reclaim", "handle", "processing")
          \/ UNCHANGED faults /\ MovedOn(i, "reclaim", "ack")
          \/ Fault("database") /\ MovedOn(i, "reclaim", "release")
      BY <1>1, <2>2, ReclaimStep
    <3> QED BY <1>1, <3>1 DEF Moved, MovedOn
  <2> QED BY <2>1, <2>2
<1> QED BY <1>4, <1>5, <1>6, <1>7

LEMMA OnceHandled ==
    ASSUME DeliveryInv, OnceInv, NEW i \in Instance, Handler(i)
    PROVE  OnceInv'
<1>1. PICK c \in Event : c = Claimed(i)
  BY ClaimedFacts DEF Handler
<1>2. UNCHANGED faults /\ consumer[i].pc = "handle"
  BY HandlerStep DEF Handler
<1>3. Room' = Room /\ Room' \in Nat /\ Room' >= Room
  BY <1>2, RoomGrows, Zenon
<1>4. CASE /\ WentTo(i, "mark") /\ UNCHANGED receipt /\ handled'[c] = handled[c] + 1
           /\ \A f \in Event \ {c} : handled'[f] = handled[f]
  <2>1. Chance(c)' = Chance(c)
    BY <1>4 DEF Chance
  <2>2. IsFiniteSet(Hands(c)') /\ Cardinality(Hands(c)') = Cardinality(Hands(c)) - 1
    BY <1>1, <1>2, <1>4, HandsMoved DEF OnceInv, WithinRoom, AtHandler, Place
  <2>3. handled[c] \in Nat /\ Cardinality(Hands(c)) \in Nat /\ Chance(c) \in {0, 1}
    BY OnceFacts DEF OnceInv, WithinRoom
  <2>4. handled[c] + Cardinality(Hands(c)) + Chance(c) <= Room
    BY DEF OnceInv, WithinRoom
  <2>5. WithinRoom(c)'
    BY <1>3, <1>4, <2>1, <2>2, <2>3, <2>4 DEF WithinRoom
  <2> QED BY <1>1, <1>2, <1>3, <1>4, <2>5, OnceMoved DEF Place
<1>5. CASE WentTo(i, "release") /\ UNCHANGED <<receipt, handled>>
  <2>1. \A e \in Event : Hands(e)' \subseteq Hands(e) /\ handled'[e] = handled[e] /\ Chance(e)' <= Chance(e)
    BY <1>2, <1>5 DEF Hands, WentTo, Chance, AtHandler
  <2> QED BY <1>3, <2>1, RoomKept DEF OnceInv
<1>6. \/ /\ WentTo(i, "mark") /\ UNCHANGED receipt /\ handled'[c] = handled[c] + 1
         /\ \A f \in Event \ {c} : handled'[f] = handled[f]
      \/ WentTo(i, "release") /\ UNCHANGED <<receipt, handled>>
  <2>1. \/ /\ MovedOn(i, "handle", "mark") /\ handled'[c] = handled[c] + 1
           /\ \A f \in Event \ {c} : handled'[f] = handled[f]
        \/ MovedOn(i, "handle", "release") /\ UNCHANGED handled
    BY <1>1, HandlerStep
  <2> QED BY <2>1 DEF MovedOn
<1> QED BY <1>4, <1>5, <1>6

LEMMA OnceMarked ==
    ASSUME DeliveryInv, OnceInv, NEW i \in Instance, markMessageProcessed(i)
    PROVE  OnceInv'
<1>1. PICK c \in Event : c = Claimed(i)
  BY ClaimedFacts DEF markMessageProcessed
<1>2. UNCHANGED handled /\ consumer[i].pc = "mark"
  BY MarkStep DEF markMessageProcessed
<1>3. CASE /\ UNCHANGED faults /\ WentTo(i, "ack") /\ \A f \in Event \ {c} : receipt'[f] = receipt[f]
           /\ receipt'[c] \in {receipt[c], "processed"}
  <2>1. \A e \in Event : Hands(e)' \subseteq Hands(e) /\ handled'[e] = handled[e] /\ Chance(e)' <= Chance(e)
    BY <1>2, <1>3 DEF Hands, WentTo, Chance, AtHandler
  <2>2. Room' >= Room /\ Room' \in Nat
    BY <1>3, RoomGrows, Zenon
  <2> QED BY <2>1, <2>2, RoomKept DEF OnceInv
<1>4. CASE Fault("database") /\ WentTo(i, "release") /\ UNCHANGED receipt
  BY <1>1, <1>2, <1>4, OnceThrown DEF AtHandler
<1>5. \/ /\ UNCHANGED faults /\ WentTo(i, "ack") /\ \A f \in Event \ {c} : receipt'[f] = receipt[f]
         /\ receipt'[c] \in {receipt[c], "processed"}
      \/ Fault("database") /\ WentTo(i, "release") /\ UNCHANGED receipt
  <2>1. \/ /\ UNCHANGED faults
           /\ \E r \in Receipts : Moved(i, "mark", "ack", r) /\ r \in {receipt[c], "processed"}
        \/ Fault("database") /\ MovedOn(i, "mark", "release")
    BY <1>1, MarkStep
  <2> QED BY <1>1, <2>1 DEF Moved, MovedOn
<1> QED BY <1>3, <1>4, <1>5

LEMMA OnceReleased ==
    ASSUME DeliveryInv, OnceInv, NEW i \in Instance, releaseMessage(i)
    PROVE  OnceInv'
<1>1. PICK c \in Event : c = Claimed(i)
  BY ClaimedFacts DEF releaseMessage
<1>2. UNCHANGED handled /\ consumer[i].pc = "release"
  BY ReleaseStep DEF releaseMessage
<1>3. /\ WentTo(i, "retry") /\ \A f \in Event \ {c} : receipt'[f] = receipt[f]
      /\ UNCHANGED faults \/ Fault("database")
  <2>1. \/ UNCHANGED faults /\ Moved(i, "release", "retry", "none")
        \/ Fault("database") /\ MovedOn(i, "release", "retry")
    BY ReleaseStep
  <2> QED BY <1>1, <2>1 DEF Moved, MovedOn
<1>4. Room' >= Room /\ Room' \in Nat /\ Room \in Nat
  BY <1>3, RoomGrows, Zenon DEF FaultKinds
<1>5. IsFiniteSet(Hands(c)') /\ Cardinality(Hands(c)') = Cardinality(Hands(c)) - 1
  BY <1>1, <1>2, <1>3, HandsMoved DEF OnceInv, WithinRoom, AtHandler, Place
<1>6. /\ handled'[c] = handled[c] /\ handled[c] \in Nat /\ Cardinality(Hands(c)) \in Nat
      /\ Chance(c) \in {0, 1}
  BY <1>2, OnceFacts DEF OnceInv, WithinRoom
<1>7. handled[c] + Cardinality(Hands(c)) + Chance(c) <= Room
  BY DEF OnceInv, WithinRoom
<1>8. Chance(c)' \in {0, 1}
  BY DEF Chance
<1>9. WithinRoom(c)'
  BY <1>4, <1>5, <1>6, <1>7, <1>8 DEF WithinRoom
<1> QED BY <1>1, <1>2, <1>3, <1>4, <1>9, OnceMoved DEF Place

LEMMA OnceTimed ==
    ASSUME DeliveryInv, OnceInv, NEW e \in Event, ReceiptTimer(e)
    PROVE  OnceInv'
<1>1. /\ receipt[e] = "processing" /\ receipt'[e] = "stale" /\ Fault("stale receipt")
      /\ \A f \in Event \ {e} : receipt'[f] = receipt[f] /\ UNCHANGED <<consumer, handled>>
  BY ReceiptTimerStep
<1>2. Room' = Room + 1 /\ Room \in Nat
  BY <1>1, RoomGrows, RoomType, Zenon
<1>3. Room' >= Room /\ Room' \in Nat
  BY <1>2
<1>4. UNCHANGED <<consumer, handled>>
  BY ReceiptTimerStep
<1>5. \A f \in Event : Hands(f)' \subseteq Hands(f) /\ handled'[f] = handled[f]
  BY <1>4 DEF Hands
<1>6. \A f \in Event : Chance(f)' <= Chance(f) + 1
  BY DEF Chance
<1> QED BY <1>2, <1>3, <1>5, <1>6, RoomKept DEF OnceInv

LEMMA OnceStep == DeliveryInv /\ OnceInv /\ [DeliveryNext]_deliveryVars => OnceInv'
<1> SUFFICES ASSUME DeliveryInv, OnceInv, [DeliveryNext]_deliveryVars PROVE OnceInv'
  OBVIOUS
<1> DEFINE Quiet == UNCHANGED <<consumer, receipt, handled>> /\ (UNCHANGED faults \/ \E k \in FaultKinds : Fault(k))
<1>1. ASSUME Quiet PROVE OnceInv'
  <2>1. Room' >= Room /\ Room' \in Nat
    BY <1>1, RoomGrows, Zenon
  <2> QED BY <1>1, <2>1, OnceUntouched
<1>2. ASSUME NEW i \in Instance, consumer'[i].pc \in {"idle", "claim"},
             \A j \in Instance \ {i} : consumer'[j] = consumer[j],
             UNCHANGED <<receipt, handled>>, UNCHANGED faults \/ \E k \in FaultKinds : Fault(k)
      PROVE  OnceInv'
  <2>1. Room' >= Room /\ Room' \in Nat
    BY <1>2, RoomGrows, Zenon
  <2> QED BY <1>2, <2>1, OnceAway
<1>3. CASE enqueueOutboxMessage \/ RetryDue \/ \E e \in Event : RowTimer(e)
  <2>1. Quiet
    BY <1>3 DEF enqueueOutboxMessage, RetryDue, RowTimer
  <2> QED BY <1>1, <2>1
<1>4. CASE \E e \in Event : ReceiptTimer(e)
  BY <1>4, OnceTimed
<1>5. CASE \E i \in Instance : Relay(i) \/ RelayFails(i) \/ BrokerTakes(i) \/ connectRabbitMQ(i)
  <2>1. Quiet
    BY <1>5 DEF Relay, claimOutboxBatch, publishEnvelope, markOutboxPublished, markOutboxFailed, RelayFails,
                BrokerTakes, connectRabbitMQ, FaultKinds
  <2> QED BY <1>1, <2>1
<1>6. CASE \E i \in Instance : Disconnect(i)
  <2>1. Quiet
    BY <1>6, DisconnectStep DEF FaultKinds
  <2> QED BY <1>1, <2>1
<1>7. ASSUME NEW i \in Instance, Deliver(i) PROVE OnceInv'
  <2>1. PICK m \in Message : Delivered(i, m)
    BY <1>7, DeliverStep
  <2> QED BY <1>2, <2>1 DEF Delivered
<1>8. ASSUME NEW i \in Instance, InstanceCrash(i) PROVE OnceInv'
  <2>1. Idled(i) /\ Fault("crash") /\ UNCHANGED <<receipt, handled>> /\ "crash" \in FaultKinds
    BY <1>8, CrashStep DEF FaultKinds
  <2> QED BY <1>2, <2>1 DEF Idled
<1>9. ASSUME NEW i \in Instance, Acknowledge(i) \/ retryOrDeadLetter(i) PROVE OnceInv'
  <2>1. Idled(i) /\ UNCHANGED <<receipt, handled, faults>>
    BY <1>9, AcknowledgeStep, RetryStep DEF Closed
  <2> QED BY <1>2, <2>1 DEF Idled
<1>10. CASE \E i \in Instance : Consume(i)
  BY <1>9, <1>10, OnceClaims, OnceHandled, OnceMarked, OnceReleased DEF Consume
<1>11. CASE UNCHANGED deliveryVars
  <2>1. Quiet
    BY <1>11 DEF deliveryVars
  <2> QED BY <1>1, <2>1
<1> QED BY <1>3, <1>4, <1>5, <1>6, <1>7, <1>8, <1>10, <1>11 DEF DeliveryNext

(***************************************************************************)
(* However often a message is published, redelivered or retried, and       *)
(* however many instances consume it, the handler of its event runs to its *)
(* end once, and once more only for each statement on the receipts that    *)
(* failed, be it a claim, the record of an answer or a release, and each   *)
(* receipt met ten minutes after it was claimed.                           *)
(***************************************************************************)
THEOREM HandledAtMostOnce == DeliverySpec => []HandledOnce
<1>1. DeliveryInv /\ OnceInv => HandledOnce
  <2> SUFFICES ASSUME DeliveryInv, OnceInv, NEW e \in Event
               PROVE  handled[e] <= 1 + faults["database"] + faults["stale receipt"]
    BY DEF HandledOnce
  <2>1. /\ handled[e] \in Nat /\ Cardinality(Hands(e)) \in Nat /\ Chance(e) \in {0, 1} /\ Room \in Nat
        /\ handled[e] + Cardinality(Hands(e)) + Chance(e) <= Room
    BY OnceFacts DEF OnceInv, WithinRoom
  <2>2. handled[e] <= Room
    BY <2>1
  <2> QED BY <2>2, Zenon DEF Room, Untold, Overdue
<1> QED BY <1>1, DeliveryInvInit, DeliveryInvStep, OnceInitially, OnceStep, PTL DEF DeliverySpec

-----------------------------------------------------------------------------
(***************************************************************************)
(* At least once, while no process dies, no connection is lost and         *)
(* receipts can be written.                                                *)
(***************************************************************************)
Calm == Never({"crash", "disconnect", "database"})

Working == {"claim", "handle", "mark", "release", "retry"}
Holding == {"handle", "mark", "release"}

At(S, e)   == \E i \in Instance : consumer[i].pc \in S /\ consumer[i].msg.event = e
OnShelf(e) == \E m \in BagToSet(ready) \cup BagToSet(delayed) \cup BagToSet(dead) : m.event = e
OnWire(e)  == \E i \in Instance : \E a \in Ops(channel[i].wire) : a.op # "ack" /\ a.msg.event = e

\* A copy of the event waits where nothing will drop it; a consumer holds the
\* receipt of the event.
Waits(e) == handled[e] >= 1 \/ OnShelf(e) \/ OnWire(e) \/ At(Working, e)
Held(e)  == handled[e] >= 1 \/ At(Holding, e)

\* The broker keeps a message for a consumer as long as it has it, and is told
\* once that it is done.
Wired(i) ==
    /\ channel[i].up /\ OneAck(channel[i].wire)
    /\ consumer[i].pc # "idle" => unacked[i] = consumer[i].msg
    /\ consumer[i].pc # "idle" \/ unacked[i] = None => Acks(channel[i].wire) = {}

Copied(e) ==
    /\ receipt[e] = "processed" => handled[e] >= 1
    /\ receipt[e] \in {"processing", "stale"} => Held(e)
    /\ row[e].state = "published" => Waits(e)
    /\ \A i \in Instance : relay[i].sent /\ AtRow(i) = e => Waits(e)
    /\ \A i \in Instance : consumer[i].pc = "mark" /\ consumer[i].msg.event = e => handled[e] >= 1

Kept    == (\A i \in Instance : Wired(i)) /\ (\A e \in Event : Copied(e))
KeptInv == Calm => Kept

LEMMA KeptInitially == DeliveryInit => KeptInv
<1> SUFFICES ASSUME DeliveryInit PROVE Kept
  BY DEF KeptInv
<1>1. Acks(<<>>) = {}
  BY DEF Acks
<1>2. \A i \in Instance : Wired(i)
  BY <1>1 DEF DeliveryInit, Wired, OneAck
<1>3. \A e \in Event : Copied(e)
  BY DEF DeliveryInit, Copied
<1> QED BY <1>2, <1>3 DEF Kept

LEMMA OneFaultAtMost == [DeliveryNext]_deliveryVars => UNCHANGED faults \/ \E kind \in FaultKinds : Fault(kind)
<1> SUFFICES ASSUME [DeliveryNext]_deliveryVars
             PROVE  UNCHANGED faults \/ \E kind \in FaultKinds : Fault(kind)
  OBVIOUS
<1>1. CASE enqueueOutboxMessage \/ RetryDue \/ UNCHANGED deliveryVars
  BY <1>1, Zenon DEF enqueueOutboxMessage, RetryDue, deliveryVars
<1>2. CASE \E e \in Event : RowTimer(e) \/ ReceiptTimer(e)
  BY <1>2, Zenon DEF RowTimer, ReceiptTimer, FaultKinds
<1>3. CASE \E i \in Instance : Relay(i)
  BY <1>3, Zenon DEF Relay, claimOutboxBatch, publishEnvelope, markOutboxPublished, markOutboxFailed
<1>4. CASE \E i \in Instance : Consume(i)
  BY <1>4, Zenon DEF Consume, claimMessage, Reclaim, ClaimThrows, Handler, markMessageProcessed,
                     releaseMessage, Acknowledge, retryOrDeadLetter, FaultKinds
<1>5. CASE \E i \in Instance : BrokerTakes(i) \/ Deliver(i) \/ connectRabbitMQ(i)
  BY <1>5, Zenon DEF BrokerTakes, Deliver, connectRabbitMQ
<1>6. CASE \E i \in Instance : RelayFails(i) \/ InstanceCrash(i) \/ Disconnect(i)
  BY <1>6, Zenon DEF RelayFails, InstanceCrash, Disconnect, FaultKinds
<1> QED BY <1>1, <1>2, <1>3, <1>4, <1>5, <1>6, Zenon DEF DeliveryNext

LEMMA CalmBefore == DeliveryInv /\ [DeliveryNext]_deliveryVars /\ Calm' => Calm
<1> SUFFICES ASSUME DeliveryInv, [DeliveryNext]_deliveryVars, Calm' PROVE Calm
  OBVIOUS
<1>1. {"crash", "disconnect", "database"} \subseteq FaultKinds
  BY DEF FaultKinds
<1>2. ASSUME NEW kind \in FaultKinds, faults'[kind] = 0 PROVE faults[kind] = 0
  <2>1. CASE UNCHANGED faults
    BY <1>2, <2>1, Zenon
  <2>2. ASSUME NEW k \in FaultKinds, Fault(k) PROVE faults[kind] = 0
    <3>1. /\ faults'[k] = faults[k] + 1 /\ (kind # k => faults'[kind] = faults[kind])
          /\ faults[k] \in Nat
      BY <2>2, FaultFacts DEF DeliveryInv, DeliveryTypes
    <3> QED BY <1>2, <3>1
  <2> QED BY <2>1, <2>2, OneFaultAtMost, Zenon
<1> QED BY <1>1, <1>2 DEF Calm, Never

LEMMA CalmMeans ==
    ASSUME DeliveryInv, Calm'
    PROVE  ~Fault("crash") /\ ~Fault("disconnect") /\ ~Fault("database")
<1> SUFFICES ASSUME NEW kind \in {"crash", "disconnect", "database"}, Fault(kind) PROVE FALSE
  OBVIOUS
<1>1. kind \in FaultKinds
  BY DEF FaultKinds
<1>2. faults'[kind] = faults[kind] + 1 /\ faults[kind] \in Nat
  BY <1>1, FaultFacts DEF DeliveryInv, DeliveryTypes
<1>3. faults'[kind] = 0
  BY DEF Calm, Never
<1> QED BY <1>2, <1>3

LEMMA KeptFacts ==
    ASSUME Kept
    PROVE  (\A i \in Instance : Wired(i)) /\ (\A e \in Event : Copied(e))
BY DEF Kept

\* Where an event waits and who is at it, when nothing of it changes.
LEMMA WaitsSame ==
    ASSUME UNCHANGED <<handled, ready, delayed, dead, channel, consumer>>, NEW e
    PROVE  (Waits(e)' <=> Waits(e)) /\ (Held(e)' <=> Held(e))
BY DEF Waits, Held, OnShelf, OnWire, At

\* A copy goes from the wire or from a queue to a queue.
LEMMA WaitsOnShelf ==
    ASSUME NEW e, Waits(e), UNCHANGED <<handled, consumer>>,
           OnShelf(e) => OnShelf(e)', OnWire(e) => OnWire(e)' \/ OnShelf(e)'
    PROVE  Waits(e)'
BY DEF Waits, At

\* Copied says the same of an event that waits, and is held, as before, and
\* whose receipt and row are what they were.
LEMMA CopiedStays ==
    ASSUME NEW e \in Event, Copied(e), receipt'[e] = receipt[e], row'[e].state = row[e].state,
           UNCHANGED <<relay, consumer, handled>>,
           Waits(e) => Waits(e)', Held(e) => Held(e)'
    PROVE  Copied(e)'
<1>1. \A i \in Instance : AtRow(i)' = AtRow(i)
  BY DEF AtRow
<1> QED BY <1>1 DEF Copied

LEMMA WiredStays ==
    ASSUME \A i \in Instance : Wired(i), UNCHANGED <<channel, unacked, consumer>>
    PROVE  \A i \in Instance : Wired(i)'
BY DEF Wired

LEMMA AtMoved ==
    ASSUME NEW S, NEW e, NEW i \in Instance, NEW pc \in Place, WentTo(i, pc),
           \/ At(S, e) /\ (pc \in S \/ consumer[i].pc \notin S \/ Claimed(i) # e)
           \/ pc \in S /\ Claimed(i) = e
    PROVE  At(S, e)'
<1>1. CASE pc \in S /\ Claimed(i) = e
  BY <1>1 DEF At, WentTo, Claimed
<1>2. CASE At(S, e) /\ (pc \in S \/ consumer[i].pc \notin S \/ Claimed(i) # e)
  <2>1. PICK j \in Instance : consumer[j].pc \in S /\ consumer[j].msg.event = e
    BY <1>2 DEF At
  <2> QED BY <1>1, <1>2, <2>1 DEF At, WentTo, Claimed
<1> QED BY <1>1, <1>2

LEMMA WiredMoved ==
    ASSUME \A j \in Instance : Wired(j), NEW i \in Instance, NEW pc \in Place, WentTo(i, pc),
           consumer[i].pc # "idle", UNCHANGED <<channel, unacked>>
    PROVE  \A j \in Instance : Wired(j)'
<1> SUFFICES ASSUME NEW j \in Instance PROVE Wired(j)'
  OBVIOUS
<1>1. Wired(j)
  OBVIOUS
<1> QED BY <1>1 DEF Wired, WentTo

\* A consumer moves, and the rows, the relays and the queues stay.
LEMMA CopiedMoved ==
    ASSUME Kept, NEW i \in Instance, NEW pc \in Place, WentTo(i, pc), NEW c \in Event, c = Claimed(i),
           UNCHANGED <<row, relay, channel, ready, delayed, dead>>,
           \A f \in Event \ {c} : receipt'[f] = receipt[f] /\ handled'[f] = handled[f],
           Copied(c)'
    PROVE  \A e \in Event : Copied(e)'
<1> SUFFICES ASSUME NEW e \in Event, e # c PROVE Copied(e)'
  OBVIOUS
<1>1. \A S : At(S, e) => At(S, e)'
  BY AtMoved
<1>2. (Waits(e) => Waits(e)') /\ (Held(e) => Held(e)')
  BY <1>1 DEF Waits, Held, OnShelf, OnWire
<1>3. \A j \in Instance : consumer'[j].pc = "mark" /\ consumer'[j].msg.event = e =>
                          consumer[j].pc = "mark" /\ consumer[j].msg.event = e
  BY DEF WentTo, Claimed
<1>4. \A j \in Instance : AtRow(j)' = AtRow(j)
  BY DEF AtRow
<1>5. Copied(e)
  BY KeptFacts
<1> QED BY <1>2, <1>3, <1>4, <1>5 DEF Copied

-----------------------------------------------------------------------------
LEMMA EnqueueKeeps ==
    ASSUME DeliveryInv, Kept, enqueueOutboxMessage
    PROVE  Kept'
<1>1. PICK e \in Event : row' = [row EXCEPT ![e].state = "pending"]
  BY DEF enqueueOutboxMessage
<1>2. UNCHANGED <<relay, channel, ready, delayed, dead, unacked, consumer, receipt, handled>>
  BY DEF enqueueOutboxMessage, broker
<1>3. \A i \in Instance : Wired(i)'
  BY <1>2, KeptFacts, WiredStays
<1>4. ASSUME NEW f \in Event PROVE Copied(f)'
  <2>1. Waits(f)' <=> Waits(f)
    BY <1>2, WaitsSame
  <2>2. Held(f)' <=> Held(f)
    BY <1>2, WaitsSame
  <2>3. row'[f].state = "published" => row[f].state = "published"
    BY <1>1 DEF DeliveryInv, DeliveryTypes, RowRow
  <2>4. \A i \in Instance : AtRow(i)' = AtRow(i)
    BY <1>2 DEF AtRow
  <2>5. Copied(f)
    BY KeptFacts
  <2> QED BY <1>2, <2>1, <2>2, <2>3, <2>4, <2>5 DEF Copied
<1> QED BY <1>3, <1>4 DEF Kept

\* What a step of a relay that touches no queue has to leave.
LEMMA RelayKeeps ==
    ASSUME DeliveryInv, Kept, NEW i \in Instance,
           UNCHANGED <<channel, ready, delayed, dead, unacked, consumer, receipt, handled>>,
           ~relay'[i].sent, \A j \in Instance \ {i} : relay'[j] = relay[j],
           \A e \in Event : row'[e].state = "published" => row[e].state = "published" \/ Waits(e)
    PROVE  Kept'
<1>1. \A j \in Instance : Wired(j)'
  BY KeptFacts, WiredStays
<1>2. ASSUME NEW f \in Event PROVE Copied(f)'
  <2>1. Waits(f)' <=> Waits(f)
    BY WaitsSame
  <2>2. Held(f)' <=> Held(f)
    BY WaitsSame
  <2>3. \A j \in Instance \ {i} : AtRow(j)' = AtRow(j)
    BY DEF AtRow
  <2>4. Copied(f)
    BY KeptFacts
  <2> QED BY <2>1, <2>2, <2>3, <2>4 DEF Copied
<1> QED BY <1>1, <1>2 DEF Kept

LEMMA ClaimBatchKeeps ==
    ASSUME DeliveryInv, Kept, NEW i \in Instance, claimOutboxBatch(i)
    PROVE  Kept'
<1>1. /\ UNCHANGED <<channel, ready, delayed, dead, unacked, consumer, receipt, handled>>
      /\ relay[i].batch = {} /\ \E batch : relay' = [relay EXCEPT ![i].batch = batch]
  BY DEF claimOutboxBatch, broker
<1>2. \E batch : row' = [e \in Event |-> IF e \in batch THEN [row[e] EXCEPT !.lock = "held"] ELSE row[e]]
  BY DEF claimOutboxBatch
<1>3. \A e \in Event : row'[e].state = row[e].state
  BY <1>2 DEF DeliveryInv, DeliveryTypes, RowRow
<1>4. ~relay'[i].sent /\ \A j \in Instance \ {i} : relay'[j] = relay[j]
  BY <1>1 DEF DeliveryInv, DeliveryTypes, InHand, RelayRow
<1> QED BY <1>1, <1>3, <1>4, RelayKeeps

LEMMA PublishKeeps ==
    ASSUME DeliveryInv, Kept, NEW i \in Instance, publishEnvelope(i)
    PROVE  Kept'
<1>1. PICK m \in Message : m.event = AtRow(i) /\ Sent(i, <<[op |-> "publish", msg |-> m]>>)
  BY PublishStep
<1>2. PICK a \in Operation : a = [op |-> "publish", msg |-> m] /\ a.op = "publish" /\ a.msg = m
  BY MessageFacts
<1>3. /\ channel'[i].up = channel[i].up /\ channel'[i].wire = channel[i].wire \o <<a>>
      /\ \A j \in Instance \ {i} : channel'[j] = channel[j]
  BY <1>1, <1>2 DEF Sent
<1>4. channel[i].wire \in Seq(Operation) /\ a.op # "ack"
  BY <1>2 DEF DeliveryInv, DeliveryTypes, ChannelRow
<1>5. /\ Ops(channel'[i].wire) = Ops(channel[i].wire) \cup {a}
      /\ Acks(channel[i].wire) = {} => Acks(channel'[i].wire) = {}
      /\ OneAck(channel[i].wire) => OneAck(channel'[i].wire)
  BY <1>3, <1>4, OpAppended
<1>6. /\ UNCHANGED <<row, ready, delayed, dead, unacked, consumer, receipt, handled>>
      /\ relay' = [relay EXCEPT ![i].sent = TRUE]
  BY DEF publishEnvelope, broker
<1>7. ASSUME NEW j \in Instance PROVE Wired(j)'
  <2>1. Wired(j)
    BY KeptFacts
  <2> QED BY <1>3, <1>5, <1>6, <2>1 DEF Wired
<1>8. \A j \in Instance : AtRow(j)' = AtRow(j) /\ (j # i => relay'[j].sent = relay[j].sent)
  BY <1>6 DEF AtRow, DeliveryInv, DeliveryTypes, RelayRow
<1>9. ASSUME NEW e \in Event PROVE Copied(e)'
  <2>1. OnWire(e) \/ e = AtRow(i) => OnWire(e)'
    BY <1>1, <1>2, <1>3, <1>5 DEF OnWire
  <2>2. (Waits(e) => Waits(e)') /\ (Held(e) => Held(e)') /\ (e = AtRow(i) => Waits(e)')
    BY <1>6, <2>1 DEF Waits, Held, At, OnShelf
  <2>3. Copied(e)
    BY KeptFacts
  <2> QED BY <1>6, <1>8, <2>2, <2>3 DEF Copied
<1> QED BY <1>7, <1>9 DEF Kept

LEMMA MarkPublishedKeeps ==
    ASSUME DeliveryInv, Kept, NEW i \in Instance, markOutboxPublished(i)
    PROVE  Kept'
<1>1. /\ relay[i].sent /\ relay[i].batch # {} /\ NextRow(i)
      /\ UNCHANGED <<channel, ready, delayed, dead, unacked, consumer, receipt, handled>>
      /\ row' = [row EXCEPT ![AtRow(i)].state = "published", ![AtRow(i)].lock = "free"]
  BY DEF markOutboxPublished, DeliveryInv, InHand, broker
<1>2. PICK r \in Event : r = AtRow(i)
  BY <1>1, AtRowFacts DEF DeliveryInv, DeliveryTypes
<1>3. Waits(r)
  BY <1>1, <1>2, KeptFacts DEF Copied
<1>4. \A e \in Event : e # r => row'[e].state = row[e].state
  BY <1>1, <1>2 DEF DeliveryInv, DeliveryTypes, RowRow
<1>5. ~relay'[i].sent /\ \A j \in Instance \ {i} : relay'[j] = relay[j]
  BY <1>1 DEF NextRow, DeliveryInv, DeliveryTypes, RelayRow
<1> QED BY <1>1, <1>3, <1>4, <1>5, RelayKeeps

LEMMA RelayFailsKeeps ==
    ASSUME DeliveryInv, Kept, NEW i \in Instance, RelayFails(i)
    PROVE  Kept'
<1>1. /\ relay' = [relay EXCEPT ![i] = [batch |-> {}, sent |-> FALSE]]
      /\ UNCHANGED <<row, channel, ready, delayed, dead, unacked, consumer, receipt, handled>>
  BY DEF RelayFails, broker
<1>2. ~relay'[i].sent /\ \A j \in Instance \ {i} : relay'[j] = relay[j]
  BY <1>1 DEF DeliveryInv, DeliveryTypes, RelayRow
<1> QED BY <1>1, <1>2, RelayKeeps

LEMMA RowTimerKeeps ==
    ASSUME DeliveryInv, Kept, NEW e \in Event, RowTimer(e)
    PROVE  Kept'
<1>1. UNCHANGED <<relay, channel, ready, delayed, dead, unacked, consumer, receipt, handled>>
  BY DEF RowTimer, broker
<1>2. \A i \in Instance : Wired(i)'
  BY <1>1, KeptFacts, WiredStays
<1>3. \A f \in Event : row'[f].state = row[f].state
  BY RowTimerStep
<1>4. ASSUME NEW f \in Event PROVE Copied(f)'
  <2>1. (Waits(f) => Waits(f)') /\ (Held(f) => Held(f)')
    BY <1>1, WaitsSame
  <2> QED BY <1>1, <1>3, <2>1, KeptFacts, CopiedStays
<1> QED BY <1>2, <1>4 DEF Kept

LEMMA RetryDueKeeps ==
    ASSUME DeliveryInv, Kept, RetryDue
    PROVE  Kept'
<1>1. /\ UNCHANGED <<row, relay, channel, dead, unacked, consumer, receipt, handled>>
      /\ BagToSet(ready) \cup BagToSet(delayed) \subseteq BagToSet(ready') \cup BagToSet(delayed')
  BY RetryDueStep
<1>2. \A i \in Instance : Wired(i)'
  BY <1>1, KeptFacts, WiredStays
<1>3. ASSUME NEW f \in Event PROVE Copied(f)'
  <2>1. (Waits(f) => Waits(f)') /\ (Held(f) => Held(f)')
    BY <1>1 DEF Waits, Held, OnShelf, OnWire, At
  <2> QED BY <1>1, <2>1, KeptFacts, CopiedStays
<1> QED BY <1>2, <1>3 DEF Kept

LEMMA BrokerKeeps ==
    ASSUME DeliveryInv, Kept, NEW i \in Instance, BrokerTakes(i)
    PROVE  Kept'
<1>1. PICK op \in Operation : Took(i, op)
  BY BrokerTakesStep
<1>2. channel[i].wire \in Seq(Operation) /\ channel[i].wire # <<>>
  BY BrokerTakesStep DEF DeliveryInv, DeliveryTypes, ChannelRow
<1>3. UNCHANGED <<row, relay, consumer, receipt, handled>>
  BY DEF BrokerTakes
<1>4. /\ op.op = "ack" /\ unacked[i] = op.msg => unacked' = [unacked EXCEPT ![i] = None]
      /\ ~(op.op = "ack" /\ unacked[i] = op.msg) => unacked' = unacked
  BY <1>1 DEF Took
<1>5. PICK w \in Seq(Operation) : w = channel[i].wire
  BY <1>2
<1>6. /\ Ops(w) = Ops(Tail(w)) \cup {op} /\ (Acks(w) = {} => Acks(Tail(w)) = {} /\ op.op # "ack")
      /\ OneAck(w) => OneAck(Tail(w)) /\ (op.op = "ack" => Acks(Tail(w)) = {})
  BY <1>1, <1>2, <1>5, OpTaken DEF Took
<1>7. channel'[i].wire = Tail(w) /\ channel'[i].up = channel[i].up /\ \A j \in Instance \ {i} : channel'[j] = channel[j]
  BY <1>1, <1>5 DEF Took
<1>8. Wired(i)'
  <2>1. Wired(i)
    BY KeptFacts
  <2>2. unacked'[i] = None => unacked[i] = None \/ op.op = "ack"
    BY <1>4
  <2>3. op.op # "ack" => unacked'[i] = unacked[i]
    BY <1>4
  <2>4. op.op = "ack" => consumer[i].pc = "idle" /\ Acks(Tail(w)) = {}
    BY <1>5, <1>6, <2>1 DEF Wired
  <2> QED BY <1>3, <1>5, <1>6, <1>7, <2>1, <2>2, <2>3, <2>4 DEF Wired
<1>9. ASSUME NEW j \in Instance, j # i PROVE Wired(j)'
  <2>1. unacked'[j] = unacked[j] /\ channel'[j] = channel[j]
    BY <1>4, <1>7, <1>9 DEF DeliveryInv, DeliveryTypes
  <2>2. Wired(j)
    BY KeptFacts
  <2> QED BY <1>3, <2>1, <2>2 DEF Wired
<1>10. ASSUME NEW e \in Event PROVE Copied(e)'
  <2>1. OnShelf(e) => OnShelf(e)'
    BY <1>1 DEF OnShelf, Took
  <2>2. OnWire(e) => OnWire(e)' \/ OnShelf(e)'
    <3> SUFFICES ASSUME NEW j \in Instance, NEW a \in Ops(channel[j].wire), a.op # "ack", a.msg.event = e
                 PROVE  OnWire(e)' \/ OnShelf(e)'
      BY DEF OnWire
    <3>1. CASE j = i /\ a = op
      BY <1>1, <3>1 DEF OnShelf, Took
    <3>2. CASE j = i /\ a # op
      <4>1. a \in Ops(channel'[i].wire)
        BY <1>5, <1>6, <1>7, <3>2
      <4> QED BY <4>1 DEF OnWire
    <3>3. CASE j # i
      BY <1>7, <3>3 DEF OnWire
    <3> QED BY <3>1, <3>2, <3>3
  <2>3. Waits(e) => Waits(e)'
    BY <1>3, <2>1, <2>2 DEF Waits, At
  <2>4. Held(e) => Held(e)'
    BY <1>3 DEF Held, At
  <2> QED BY <1>3, <2>3, <2>4, KeptFacts, CopiedStays
<1> QED BY <1>8, <1>9, <1>10 DEF Kept

LEMMA DeliverKeeps ==
    ASSUME DeliveryInv, Kept, NEW i \in Instance, Deliver(i)
    PROVE  Kept'
<1>1. PICK m \in Message : Delivered(i, m)
  BY DeliverStep
<1>2. /\ unacked[i] = None /\ consumer[i].pc = "idle" /\ unacked' = [unacked EXCEPT ![i] = m]
      /\ consumer'[i].pc = "claim" /\ consumer'[i].msg = m
      /\ \A j \in Instance \ {i} : consumer'[j] = consumer[j]
      /\ UNCHANGED <<row, relay, channel, delayed, dead, receipt, handled>>
      /\ BagToSet(ready) \ {m} \subseteq BagToSet(ready')
  BY <1>1 DEF Delivered
<1>3. \A j \in Instance : unacked'[j] = IF j = i THEN m ELSE unacked[j]
  BY <1>2 DEF DeliveryInv, DeliveryTypes
<1>4. ASSUME NEW j \in Instance PROVE Wired(j)'
  <2>1. Wired(j)
    BY KeptFacts
  <2> QED BY <1>2, <1>3, <2>1 DEF Wired
<1>5. ASSUME NEW e \in Event PROVE Copied(e)'
  <2>1. \A S : At(S, e) /\ "idle" \notin S => At(S, e)'
    BY <1>2 DEF At
  <2>2. OnShelf(e) => OnShelf(e)' \/ At(Working, e)'
    BY <1>2 DEF OnShelf, At, Working
  <2>3. (Waits(e) => Waits(e)') /\ (Held(e) => Held(e)')
    BY <1>2, <2>1, <2>2 DEF Waits, Held, OnWire, Working, Holding
  <2>4. \A j \in Instance : AtRow(j)' = AtRow(j)
    BY <1>2 DEF AtRow
  <2>5. \A j \in Instance : consumer'[j].pc = "mark" => consumer'[j] = consumer[j]
    BY <1>2
  <2>6. Copied(e)
    BY KeptFacts
  <2> QED BY <1>2, <2>3, <2>4, <2>5, <2>6 DEF Copied
<1> QED BY <1>4, <1>5 DEF Kept

\* What a consumer that moves has to say of its own event.
LEMMA MovedKeeps ==
    ASSUME DeliveryInv, Kept, NEW i \in Instance, NEW pc \in Place, WentTo(i, pc), NEW c \in Event, c = Claimed(i),
           consumer[i].pc # "idle", UNCHANGED <<row, relay, channel, broker>>,
           \A f \in Event \ {c} : receipt'[f] = receipt[f] /\ handled'[f] = handled[f],
           handled[c] >= 1 => handled'[c] >= 1,
           receipt'[c] = "processed" => handled'[c] >= 1,
           receipt'[c] \in {"processing", "stale"} => Held(c)',
           At(Working, c) => Waits(c)', pc = "mark" => handled'[c] >= 1
    PROVE  Kept'
<1>1. UNCHANGED <<channel, unacked, ready, delayed, dead>>
  BY DEF broker
<1>2. \A j \in Instance : Wired(j)'
  BY <1>1, KeptFacts, WiredMoved
<1>3. Copied(c)'
  <2>1. Waits(c) => Waits(c)'
    BY <1>1 DEF Waits, OnShelf, OnWire
  <2>2. \A j \in Instance : consumer'[j].pc = "mark" /\ consumer'[j].msg.event = c => handled'[c] >= 1
    <3>1. \A j \in Instance \ {i} : consumer'[j] = consumer[j]
      BY DEF WentTo
    <3>2. Copied(c)
      BY KeptFacts
    <3> QED BY <3>1, <3>2 DEF Copied, WentTo
  <2>3. \A j \in Instance : AtRow(j)' = AtRow(j)
    BY DEF AtRow
  <2>4. Copied(c)
    BY KeptFacts
  <2> QED BY <2>1, <2>2, <2>3, <2>4 DEF Copied
<1>4. \A e \in Event : Copied(e)'
  BY <1>1, <1>3, CopiedMoved
<1> QED BY <1>2, <1>4 DEF Kept

LEMMA HeldWaits ==
    ASSUME NEW e, Held(e)'
    PROVE  Waits(e)'
BY DEF Held, Waits, At, Holding, Working

LEMMA ClaimKeeps ==
    ASSUME DeliveryInv, Kept, ~Fault("database"), NEW i \in Instance, claimMessage(i) \/ Reclaim(i)
    PROVE  Kept'
<1>1. PICK c \in Event : c = Claimed(i)
  BY ClaimedFacts DEF claimMessage, Reclaim
<1>2. UNCHANGED handled /\ consumer[i].pc \in {"claim", "reclaim"} /\ UNCHANGED <<row, relay, channel, broker>>
  BY DEF claimMessage, Reclaim
<1>3. CASE /\ WentTo(i, "handle") /\ receipt'[c] = "processing"
           /\ \A f \in Event \ {c} : receipt'[f] = receipt[f]
  <2>1. At(Holding, c)' /\ At(Working, c)'
    BY <1>1, <1>3, AtMoved DEF Holding, Working, Place
  <2>2. Held(c)' /\ Waits(c)'
    BY <2>1 DEF Held, Waits
  <2> QED BY <1>1, <1>2, <1>3, <2>2, MovedKeeps DEF Place
<1>4. CASE /\ UNCHANGED receipt
           /\ \/ consumer[i].pc = "claim" /\ receipt[c] # "none" /\ WentTo(i, "reclaim")
              \/ consumer[i].pc = "reclaim" /\ WentTo(i, "ack")
  <2>1. PICK pc \in {"reclaim", "ack"} : WentTo(i, pc)
    BY <1>4
  <2>2. consumer[i].pc \notin Holding /\ pc # "mark" /\ pc \in Place
    BY <1>2 DEF Holding, Place
  <2>3. At(Holding, c) => At(Holding, c)'
    BY <2>1, <2>2, AtMoved
  <2>4. Held(c) => Held(c)'
    BY <1>2, <2>3 DEF Held
  <2>5. Copied(c)
    BY KeptFacts
  <2>6. At(Working, c) => Waits(c)'
    <3>1. CASE consumer[i].pc = "claim" /\ receipt[c] # "none"
      <4>1. receipt[c] \in {"processing", "stale", "processed"}
        BY <3>1 DEF DeliveryInv, DeliveryTypes, Receipts
      <4>2. Held(c)
        BY <2>5, <4>1 DEF Copied, Held
      <4> QED BY <2>4, <4>2, HeldWaits
    <3>2. CASE consumer[i].pc = "reclaim"
      <4>1. At(Working, c) => At(Working, c)'
        BY <2>1, <2>2, <3>2, AtMoved DEF Working
      <4> QED BY <4>1 DEF Waits
    <3> QED BY <1>4, <3>1, <3>2
  <2>7. receipt'[c] = "processed" => handled'[c] >= 1
    BY <1>2, <1>4, <2>5 DEF Copied
  <2>8. receipt'[c] \in {"processing", "stale"} => Held(c)'
    BY <1>4, <2>4, <2>5 DEF Copied
  <2> QED BY <1>1, <1>2, <1>4, <2>1, <2>2, <2>6, <2>7, <2>8, MovedKeeps
<1>5. \/ /\ WentTo(i, "handle") /\ receipt'[c] = "processing" /\ \A f \in Event \ {c} : receipt'[f] = receipt[f]
      \/ /\ UNCHANGED receipt
         /\ \/ consumer[i].pc = "claim" /\ receipt[c] # "none" /\ WentTo(i, "reclaim")
            \/ consumer[i].pc = "reclaim" /\ WentTo(i, "ack")
  <2>1. CASE claimMessage(i)
    <3>1. \/ Moved(i, "claim", "handle", "processing")
          \/ receipt[c] # "none" /\ MovedOn(i, "claim", "reclaim")
      BY <1>1, <2>1, ClaimStep
    <3> QED BY <1>1, <3>1 DEF Moved, MovedOn
  <2>2. CASE Reclaim(i)
    <3>1. Moved(i, "reclaim", "handle", "processing") \/ MovedOn(i, "reclaim", "ack")
      BY <2>2, ReclaimStep
    <3> QED BY <1>1, <3>1 DEF Moved, MovedOn
  <2> QED BY <2>1, <2>2
<1> QED BY <1>3, <1>4, <1>5

LEMMA HandlerKeeps ==
    ASSUME DeliveryInv, Kept, NEW i \in Instance, Handler(i)
    PROVE  Kept'
<1>1. PICK c \in Event : c = Claimed(i)
  BY ClaimedFacts DEF Handler
<1>2. consumer[i].pc = "handle" /\ UNCHANGED <<row, relay, channel, broker, receipt>>
  BY DEF Handler
<1>3. \/ /\ WentTo(i, "mark") /\ handled'[c] = handled[c] + 1
         /\ \A f \in Event \ {c} : handled'[f] = handled[f]
      \/ WentTo(i, "release") /\ UNCHANGED handled
  <2>1. \/ /\ MovedOn(i, "handle", "mark") /\ handled'[c] = handled[c] + 1
           /\ \A f \in Event \ {c} : handled'[f] = handled[f]
        \/ MovedOn(i, "handle", "release") /\ UNCHANGED handled
    BY <1>1, HandlerStep
  <2> QED BY <2>1 DEF MovedOn
<1>4. handled[c] \in Nat
  BY DEF DeliveryInv, DeliveryTypes
<1>5. Copied(c)
  BY KeptFacts
<1>6. CASE /\ WentTo(i, "mark") /\ handled'[c] = handled[c] + 1
           /\ \A f \in Event \ {c} : handled'[f] = handled[f]
  <2>1. handled'[c] >= 1
    BY <1>4, <1>6
  <2>2. Held(c)' /\ Waits(c)'
    BY <2>1 DEF Held, Waits
  <2> QED BY <1>1, <1>2, <1>6, <2>1, <2>2, MovedKeeps DEF Place
<1>7. CASE WentTo(i, "release") /\ UNCHANGED handled
  <2>1. At(Working, c)' /\ At(Holding, c)'
    BY <1>1, <1>7, AtMoved DEF Working, Holding, Place
  <2>2. Waits(c)' /\ (Held(c) => Held(c)')
    BY <1>7, <2>1 DEF Waits, Held
  <2>3. receipt'[c] = "processed" => handled'[c] >= 1
    BY <1>2, <1>5, <1>7 DEF Copied
  <2>4. receipt'[c] \in {"processing", "stale"} => Held(c)'
    BY <1>2, <1>5, <2>2 DEF Copied
  <2>5. "release" # "mark" /\ "release" \in Place /\ consumer[i].pc # "idle"
    BY <1>2 DEF Place
  <2> QED BY <1>1, <1>2, <1>7, <2>2, <2>3, <2>4, <2>5, MovedKeeps
<1> QED BY <1>3, <1>6, <1>7

LEMMA MarkKeeps ==
    ASSUME DeliveryInv, Kept, ~Fault("database"), NEW i \in Instance, markMessageProcessed(i)
    PROVE  Kept'
<1>1. PICK c \in Event : c = Claimed(i)
  BY ClaimedFacts DEF markMessageProcessed
<1>2. consumer[i].pc = "mark" /\ UNCHANGED <<row, relay, channel, broker, handled>>
  BY DEF markMessageProcessed
<1>3. WentTo(i, "ack") /\ \A f \in Event \ {c} : receipt'[f] = receipt[f]
  <2>1. \E r \in Receipts : Moved(i, "mark", "ack", r)
    BY MarkStep
  <2> QED BY <1>1, <2>1 DEF Moved
<1>4. handled[c] >= 1
  BY <1>1, <1>2, KeptFacts DEF Copied, Claimed
<1>5. handled'[c] >= 1 /\ Held(c)' /\ Waits(c)'
  BY <1>2, <1>4 DEF Held, Waits
<1> QED BY <1>1, <1>2, <1>3, <1>5, MovedKeeps DEF Place

LEMMA ReleaseKeeps ==
    ASSUME DeliveryInv, Kept, ~Fault("database"), NEW i \in Instance, releaseMessage(i)
    PROVE  Kept'
<1>1. PICK c \in Event : c = Claimed(i)
  BY ClaimedFacts DEF releaseMessage
<1>2. consumer[i].pc = "release" /\ UNCHANGED <<row, relay, channel, broker, handled>>
  BY DEF releaseMessage
<1>3. WentTo(i, "retry") /\ receipt'[c] = "none" /\ \A f \in Event \ {c} : receipt'[f] = receipt[f]
  <2>1. Moved(i, "release", "retry", "none")
    BY ReleaseStep
  <2> QED BY <1>1, <2>1 DEF Moved
<1>4. At(Working, c)'
  BY <1>1, <1>3, AtMoved DEF Working, Place
<1>5. Waits(c)'
  BY <1>4 DEF Waits
<1> QED BY <1>1, <1>2, <1>3, <1>5, MovedKeeps DEF Place

LEMMA OpsAppended ==
    ASSUME NEW s \in Seq(Operation), NEW a \in Operation, NEW b \in Operation,
           a.op # "ack", b.op = "ack", Acks(s) = {}
    PROVE  Ops(s \o <<a, b>>) = Ops(s) \cup {a, b} /\ OneAck(s \o <<a, b>>)
<1>1. PICK t \in Seq(Operation) : t = s \o <<a>>
  BY OpAppended
<1>2. Ops(t) = Ops(s) \cup {a} /\ Acks(t) = {}
  BY <1>1, OpAppended
<1>3. Ops(t \o <<b>>) = Ops(t) \cup {b} /\ OneAck(t \o <<b>>)
  BY <1>2, OpAppended
<1>4. s \o <<a, b>> = t \o <<b>>
  <2>1. PICK n \in Nat, u \in Seq(Operation), v \in Seq(Operation) :
          n = Len(s) /\ u = s \o <<a, b>> /\ v = t \o <<b>>
    <3>1. <<a, b>> \in Seq(Operation) /\ <<b>> \in Seq(Operation) /\ Len(s) \in Nat
      OBVIOUS
    <3>2. s \o <<a, b>> \in Seq(Operation) /\ t \o <<b>> \in Seq(Operation)
      BY <3>1
    <3> QED BY <3>1, <3>2
  <2>2. Len(t) = n + 1 /\ t[n + 1] = a /\ \A k \in 1 .. n : t[k] = s[k]
    BY <1>1, <2>1
  <2>3. Len(u) = n + 2 /\ u[n + 1] = a /\ u[n + 2] = b /\ \A k \in 1 .. n : u[k] = s[k]
    BY <2>1
  <2>4. Len(v) = n + 2 /\ v[n + 2] = b /\ \A k \in 1 .. n + 1 : v[k] = t[k]
    BY <2>1, <2>2
  <2>5. \A k \in 1 .. n + 2 : u[k] = v[k]
    <3>1. \A k \in 1 .. n + 2 : k \in 1 .. n \/ k = n + 1 \/ k = n + 2
      OBVIOUS
    <3> QED BY <2>2, <2>3, <2>4, <3>1
  <2>6. u = v
    BY <2>3, <2>4, <2>5
  <2> QED BY <2>1, <2>6
<1>5. Ops(s \o <<a, b>>) = Ops(t) \cup {b} /\ OneAck(s \o <<a, b>>)
  BY <1>3, <1>4, Zenon
<1> QED BY <1>2, <1>5

\* A consumer has done with its message: what it sent leaves a copy on the wire
\* if it was one that waited.
LEMMA ClosedKeeps ==
    ASSUME DeliveryInv, Kept, NEW i \in Instance, NEW c \in Event, c = Claimed(i), Idled(i),
           consumer[i].pc \in {"ack", "retry"}, UNCHANGED <<row, relay, broker, receipt, handled>>,
           NEW w \in Seq(Operation), channel'[i].up = channel[i].up, channel'[i].wire = w,
           \A j \in Instance \ {i} : channel'[j] = channel[j],
           Ops(channel[i].wire) \subseteq Ops(w), OneAck(w),
           consumer[i].pc = "retry" => \E a \in Ops(w) : a.op # "ack" /\ a.msg.event = c
    PROVE  Kept'
<1>1. UNCHANGED <<unacked, ready, delayed, dead>>
  BY DEF broker
<1>2. ASSUME NEW j \in Instance PROVE Wired(j)'
  <2>1. Wired(j)
    BY KeptFacts
  <2>2. CASE j = i
    <3>1. unacked[i] # None
      BY <2>1, <2>2, ClaimedFacts, EventFacts DEF Wired
    <3> QED BY <1>1, <2>1, <2>2, <3>1 DEF Wired, Idled
  <2>3. CASE j # i
    BY <1>1, <2>1, <2>3 DEF Wired, Idled
  <2> QED BY <2>2, <2>3
<1>3. ASSUME NEW e \in Event PROVE Copied(e)'
  <2>1. OnWire(e) => OnWire(e)'
    BY DEF OnWire
  <2>2. At(Working, e) => At(Working, e)' \/ OnWire(e)'
    <3> SUFFICES ASSUME NEW j \in Instance, consumer[j].pc \in Working, consumer[j].msg.event = e
                 PROVE  At(Working, e)' \/ OnWire(e)'
      BY DEF At
    <3>1. CASE j = i
      <4>1. consumer[i].pc = "retry" /\ e = c
        BY <3>1 DEF Working, Claimed
      <4> QED BY <4>1 DEF OnWire
    <3>2. CASE j # i
      BY <3>2 DEF At, Idled
    <3> QED BY <3>1, <3>2
  <2>3. At(Holding, e) => At(Holding, e)'
    BY DEF At, Holding, Idled
  <2>4. (Waits(e) => Waits(e)') /\ (Held(e) => Held(e)')
    BY <1>1, <2>1, <2>2, <2>3 DEF Waits, Held, OnShelf
  <2>5. \A j \in Instance : consumer'[j].pc = "mark" => consumer'[j] = consumer[j]
    BY DEF Idled
  <2>6. \A j \in Instance : AtRow(j)' = AtRow(j)
    BY DEF AtRow
  <2>7. Copied(e)
    BY KeptFacts
  <2> QED BY <2>4, <2>5, <2>6, <2>7 DEF Copied
<1> QED BY <1>2, <1>3 DEF Kept

LEMMA AcknowledgeKeeps ==
    ASSUME DeliveryInv, Kept, NEW i \in Instance, Acknowledge(i)
    PROVE  Kept'
<1>1. PICK a \in Operation : a.op = "ack" /\ Closed(i, "ack", <<a>>)
  BY AcknowledgeStep
<1>2. PICK c \in Event : c = Claimed(i)
  BY <1>1 DEF Closed
<1>3. PICK v \in Seq(Operation) : v = channel[i].wire
  BY DEF DeliveryInv, DeliveryTypes, ChannelRow
<1>4. channel[i].up /\ Acks(v) = {} /\ consumer[i].pc = "ack"
  BY <1>1, <1>3, KeptFacts DEF Wired, Closed
<1>5. PICK w \in Seq(Operation) : w = v \o <<a>>
  BY OpAppended
<1>6. OneAck(w) /\ Ops(v) \subseteq Ops(w)
  BY <1>4, <1>5, OpAppended
<1>7. /\ channel'[i].up = channel[i].up /\ channel'[i].wire = w
      /\ \A j \in Instance \ {i} : channel'[j] = channel[j]
  BY <1>1, <1>3, <1>4, <1>5 DEF Closed, Sent
<1>8. Idled(i) /\ UNCHANGED <<row, relay, broker, receipt, handled>>
  BY <1>1 DEF Closed
<1> QED BY <1>2, <1>3, <1>4, <1>6, <1>7, <1>8, ClosedKeeps

LEMMA RetryKeeps ==
    ASSUME DeliveryInv, Kept, NEW i \in Instance, retryOrDeadLetter(i)
    PROVE  Kept'
<1>1. PICK a \in Operation, b \in Operation :
        /\ a.op \in {"delay", "bury"} /\ a.msg.event = Claimed(i)
        /\ b.op = "ack" /\ Closed(i, "retry", <<a, b>>)
  BY RetryStep
<1>2. PICK c \in Event : c = Claimed(i)
  BY <1>1 DEF Closed
<1>3. PICK v \in Seq(Operation) : v = channel[i].wire
  BY DEF DeliveryInv, DeliveryTypes, ChannelRow
<1>4. channel[i].up /\ Acks(v) = {} /\ consumer[i].pc = "retry"
  BY <1>1, <1>3, KeptFacts DEF Wired, Closed
<1>5. PICK w \in Seq(Operation) : w = v \o <<a, b>>
  <2>1. <<a, b>> \in Seq(Operation)
    OBVIOUS
  <2>2. v \o <<a, b>> \in Seq(Operation)
    BY <2>1
  <2> QED BY <2>2
<1>6. OneAck(w) /\ Ops(w) = Ops(v) \cup {a, b}
  BY <1>1, <1>4, <1>5, OpsAppended
<1>7. /\ channel'[i].up = channel[i].up /\ channel'[i].wire = w
      /\ \A j \in Instance \ {i} : channel'[j] = channel[j]
  BY <1>1, <1>3, <1>4, <1>5 DEF Closed, Sent
<1>8. Idled(i) /\ UNCHANGED <<row, relay, broker, receipt, handled>>
  BY <1>1 DEF Closed
<1>9. a \in Ops(w) /\ a.op # "ack" /\ a.msg.event = c /\ Ops(v) \subseteq Ops(w)
  BY <1>1, <1>2, <1>6
<1> QED BY <1>2, <1>3, <1>4, <1>6, <1>7, <1>8, <1>9, ClosedKeeps

LEMMA TimerKeeps ==
    ASSUME DeliveryInv, Kept, NEW e \in Event, ReceiptTimer(e)
    PROVE  Kept'
<1>1. /\ receipt[e] = "processing" /\ receipt'[e] = "stale"
      /\ \A f \in Event \ {e} : receipt'[f] = receipt[f]
  BY ReceiptTimerStep
<1>2. UNCHANGED <<row, relay, channel, unacked, ready, delayed, dead, consumer, handled>>
  BY DEF ReceiptTimer, broker
<1>3. \A i \in Instance : Wired(i)'
  BY <1>2, KeptFacts, WiredStays
<1>4. ASSUME NEW f \in Event PROVE Copied(f)'
  <2>1. (Waits(f) => Waits(f)') /\ (Held(f) => Held(f)')
    BY <1>2, WaitsSame
  <2>2. \A i \in Instance : AtRow(i)' = AtRow(i)
    BY <1>2 DEF AtRow
  <2>3. Copied(f)
    BY KeptFacts
  <2> QED BY <1>1, <1>2, <2>1, <2>2, <2>3 DEF Copied
<1> QED BY <1>3, <1>4 DEF Kept

LEMMA KeptStep == DeliveryInv /\ KeptInv /\ [DeliveryNext]_deliveryVars => KeptInv'
<1> SUFFICES ASSUME DeliveryInv, KeptInv, [DeliveryNext]_deliveryVars, Calm' PROVE Kept'
  BY DEF KeptInv
<1>1. Kept
  BY CalmBefore DEF KeptInv
<1>2. ~Fault("crash") /\ ~Fault("disconnect") /\ ~Fault("database")
  BY CalmMeans
<1>3. CASE enqueueOutboxMessage \/ RetryDue \/ \E e \in Event : RowTimer(e) \/ ReceiptTimer(e)
  BY <1>1, <1>3, EnqueueKeeps, RetryDueKeeps, RowTimerKeeps, TimerKeeps
<1>4. CASE \E i \in Instance : Relay(i) \/ RelayFails(i)
  <2>1. \A i \in Instance : ~markOutboxFailed(i)
    BY <1>1, KeptFacts DEF markOutboxFailed, Wired
  <2> QED BY <1>1, <1>4, <2>1, ClaimBatchKeeps, PublishKeeps, MarkPublishedKeeps, RelayFailsKeeps DEF Relay
<1>5. CASE \E i \in Instance : Consume(i)
  BY <1>1, <1>2, <1>5, ClaimKeeps, HandlerKeeps, MarkKeeps, ReleaseKeeps, AcknowledgeKeeps, RetryKeeps DEF Consume
<1>6. CASE \E i \in Instance : BrokerTakes(i) \/ Deliver(i)
  BY <1>1, <1>6, BrokerKeeps, DeliverKeeps
<1>7. CASE \E i \in Instance : InstanceCrash(i) \/ Disconnect(i) \/ connectRabbitMQ(i)
  <2>1. \A i \in Instance : channel[i].up
    BY <1>1, KeptFacts DEF Wired
  <2> QED BY <1>2, <1>7, <2>1 DEF InstanceCrash, Disconnect, connectRabbitMQ
<1>8. CASE UNCHANGED deliveryVars
  <2>1. UNCHANGED <<row, relay, channel, unacked, ready, delayed, dead, consumer, receipt, handled>>
    BY <1>8 DEF deliveryVars, broker
  <2>2. \A i \in Instance : Wired(i)'
    BY <1>1, <2>1, KeptFacts, WiredStays
  <2>3. ASSUME NEW f \in Event PROVE Copied(f)'
    <3>1. (Waits(f) => Waits(f)') /\ (Held(f) => Held(f)')
      BY <2>1, WaitsSame
    <3> QED BY <1>1, <2>1, <3>1, KeptFacts, CopiedStays
  <2> QED BY <2>2, <2>3 DEF Kept
<1> QED BY <1>3, <1>4, <1>5, <1>6, <1>7, <1>8 DEF DeliveryNext

\* A copy that waits is one the event is carried by.
LEMMA WaitsIsCarried ==
    ASSUME DeliveryInv, Kept, NEW e \in Event, Waits(e)
    PROVE  handled[e] >= 1 \/ Buried(e) \/ Carried(e)
<1>1. OnShelf(e) => Buried(e) \/ Carried(e)
  BY DEF OnShelf, Buried, Carried
<1>2. ASSUME OnWire(e) PROVE Carried(e)
  BY <1>2 DEF OnWire, Ops, Carried
<1>3. ASSUME At(Working, e) PROVE Carried(e)
  <2>1. PICK i \in Instance : consumer[i].pc \in Working /\ consumer[i].msg.event = e
    BY <1>3 DEF At
  <2>2. unacked[i] = consumer[i].msg
    BY <2>1, KeptFacts DEF Wired, Working
  <2> QED BY <2>1, <2>2 DEF Carried
<1> QED BY <1>1, <1>2, <1>3 DEF Waits

(***************************************************************************)
(* While no process dies, no connection breaks and receipts can be         *)
(* written, no event that was enqueued is lost, whatever its handlers do   *)
(* and however often relays publish it: it has been handled, it is in the  *)
(* dead letter queue, or a copy of it is still on its way.                 *)
(***************************************************************************)
THEOREM NoEventIsLost == DeliverySpec => []NoneLost
<1>1. DeliveryInv /\ KeptInv => NoneLost
  <2> SUFFICES ASSUME DeliveryInv, KeptInv, Calm, NEW e \in Event, row[e].state # "none"
               PROVE  handled[e] >= 1 \/ Buried(e) \/ Carried(e)
    BY DEF NoneLost, Calm
  <2>1. Kept
    BY DEF KeptInv
  <2>2. CASE row[e].state = "pending"
    BY <2>2 DEF Carried
  <2>3. CASE row[e].state = "published"
    <3>1. Waits(e)
      BY <2>1, <2>3, KeptFacts DEF Copied
    <3> QED BY <2>1, <3>1, WaitsIsCarried
  <2>4. row[e].state \in {"none", "pending", "published"}
    BY DEF DeliveryInv, DeliveryTypes, RowRow
  <2> QED BY <2>2, <2>3, <2>4
<1> QED BY <1>1, DeliveryInvInit, DeliveryInvStep, KeptInitially, KeptStep, PTL DEF DeliverySpec
=============================================================================
