-------------------------- MODULE MessageDelivery ---------------------------
(***************************************************************************)
(* The path of an asynchronous job: a row of outbox_messages, the relay    *)
(* that publishes it, RabbitMQ with its retry and dead letter queues, and  *)
(* the consumer that claims the event in message_receipts, runs the        *)
(* handler, and acknowledges the message or sends it to be retried.        *)
(*                                                                         *)
(* Every API instance runs the relay and a consumer on one channel.  What  *)
(* an instance writes to its channel reaches the broker in order and       *)
(* later, or never if the connection is lost first: no publisher confirms  *)
(* are used.  Prefetch is one message per instance here, ten in the code;  *)
(* concurrent handlers are several instances.  An ack for a message of an  *)
(* earlier connection has no effect.                                       *)
(***************************************************************************)
EXTENDS Integers, Sequences, FiniteSets, FiniteSetsExt, Bags, Functions

CONSTANTS
    Events,      \* how many messages are ever enqueued; created in this order
    Instance,    \* API processes
    Batch,       \* rows one pass of the relay claims at most
    Retries,     \* length of RETRY_DELAYS_MS
    Faults,      \* what may go wrong, of FaultKinds
    MaxFaults    \* bound on all faults but throws and slow relays

Event      == 1 .. Events
FaultKinds == {"throw",         \* a handler fails
               "crash",         \* a process dies and is started again
               "disconnect",    \* the connection to the broker is lost
               "database",      \* a statement on message_receipts fails
               "outbox",        \* a statement on outbox_messages fails
               "slow relay",    \* a claimed row is published after 5 minutes
               "stale receipt"} \* a receipt is met 10 minutes after it was claimed

ASSUME BoundAssumption  == Events \in Nat \ {0} /\ Batch \in Nat \ {0} /\ MaxFaults \in Nat
ASSUME RetryAssumption  == Retries \in Nat
ASSUME FaultAssumption  == Faults \subseteq FaultKinds

Message == [event : Event, attempt : Nat]
None    == [event |-> 0, attempt |-> 0]

VARIABLES
    row,       \* outbox_messages: state, lock and publication attempts
    relay,     \* the relay of each instance: the rows it has claimed
    channel,   \* the connection of each instance and what is on its way
    ready,     \* RabbitMQ: deliverable messages
    delayed,   \* RabbitMQ: messages in the .retry queue
    dead,      \* RabbitMQ: messages in the .dlq queue
    unacked,   \* RabbitMQ: the message delivered to each instance
    consumer,  \* the consumer of each instance
    receipt,   \* message_receipts: status per event
    handled,   \* how many times the handler of an event has succeeded
    faults     \* per kind, the counted faults so far

broker       == <<ready, delayed, dead, unacked>>
deliveryVars == <<row, relay, channel, broker, consumer, receipt, handled, faults>>

DeliveryTypeOK ==
    /\ row \in [Event -> [state : {"none", "pending", "published"},
                          lock  : {"free", "held", "stale", "later"},
                          attempts : Nat]]
    /\ relay \in [Instance -> [batch : SUBSET Event, sent : BOOLEAN]]
    /\ channel \in [Instance -> [up : BOOLEAN, consuming : BOOLEAN,
                                 wire : Seq([op : {"publish", "delay", "bury", "ack"},
                                             msg : Message])]]
    /\ \A bag \in {ready, delayed, dead} :
           IsABag(bag) /\ BagToSet(bag) \subseteq Message
    /\ unacked \in [Instance -> Message \cup {None}]
    /\ consumer \in [Instance -> [pc : {"idle", "claim", "reclaim", "handle",
                                        "mark", "ack", "release", "retry"},
                                  msg : Message \cup {None}]]
    /\ receipt \in [Event -> {"none", "processing", "stale", "processed"}]
    /\ handled \in [Event -> Nat]
    /\ faults \in [FaultKinds -> 0 .. MaxFaults]

DeliveryInit ==
    /\ row = [e \in Event |-> [state |-> "none", lock |-> "free", attempts |-> 0]]
    /\ relay = [i \in Instance |-> [batch |-> {}, sent |-> FALSE]]
    /\ channel = [i \in Instance |-> [up |-> TRUE, consuming |-> TRUE, wire |-> <<>>]]
    /\ ready = EmptyBag /\ delayed = EmptyBag /\ dead = EmptyBag
    /\ unacked = [i \in Instance |-> None]
    /\ consumer = [i \in Instance |-> [pc |-> "idle", msg |-> None]]
    /\ receipt = [e \in Event |-> "none"]
    /\ handled = [e \in Event |-> 0]
    /\ faults = [kind \in FaultKinds |-> 0]

-----------------------------------------------------------------------------
One(m) == SetToBag({m})

May(fault) == fault \in Faults

\* A fault of a kind that is counted.
Fault(kind) ==
    /\ May(kind)
    /\ FoldFunction(+, 0, faults) < MaxFaults
    /\ faults' = [faults EXCEPT ![kind] = @ + 1]

Send(i, ops) == channel' = [channel EXCEPT ![i].wire = @ \o ops]

(***************************************************************************)
(* Enqueueing, and the relay, which runs every second and never overlaps   *)
(* itself: it claims the oldest rows that are due and not locked, then     *)
(* publishes and marks them one by one.                                    *)
(***************************************************************************)
enqueueOutboxMessage ==
    \E e \in Event :
        /\ row[e].state = "none"
        /\ \A f \in 1 .. e - 1 : row[f].state # "none"
        /\ row' = [row EXCEPT ![e].state = "pending"]
        /\ UNCHANGED <<relay, channel, broker, consumer, receipt, handled, faults>>

\* Mutant: a row that a relay left locked is not due again.
CandidateFree(e) == row[e].state = "pending" /\ row[e].lock = "free"

Candidate(e) == row[e].state = "pending" /\ row[e].lock \in {"free", "stale"}

Candidates == {e \in Event : Candidate(e)}

claimOutboxBatch(i) ==
    LET batch == {e \in Candidates : Cardinality({f \in Candidates : f < e}) < Batch}
    IN  /\ relay[i].batch = {}
        /\ channel[i].up
        /\ batch # {}
        /\ relay' = [relay EXCEPT ![i].batch = batch]
        /\ row' = [e \in Event |-> IF e \in batch
                                   THEN [row[e] EXCEPT !.lock = "held"] ELSE row[e]]
        /\ UNCHANGED <<channel, broker, consumer, receipt, handled, faults>>

\* The row of its batch that the relay of i is at.
AtRow(i) == Min(relay[i].batch)

\* publishEnvelope: the envelope starts at the publication attempts of its row.
publishEnvelope(i) ==
    LET e == AtRow(i) IN
    /\ relay[i].batch # {} /\ ~relay[i].sent
    /\ channel[i].up
    /\ Send(i, <<[op |-> "publish", msg |-> [event |-> e, attempt |-> row[e].attempts]]>>)
    /\ relay' = [relay EXCEPT ![i].sent = TRUE]
    /\ UNCHANGED <<row, broker, consumer, receipt, handled, faults>>

NextRow(i) == relay' = [relay EXCEPT ![i] = [batch |-> @.batch \ {AtRow(i)}, sent |-> FALSE]]

markOutboxPublished(i) ==
    LET e == AtRow(i) IN
    /\ relay[i].sent
    /\ row' = [row EXCEPT ![e].state = "published", ![e].lock = "free"]
    /\ NextRow(i)
    /\ UNCHANGED <<channel, broker, consumer, receipt, handled, faults>>

markOutboxFailed(i) ==
    LET e == AtRow(i) IN
    /\ relay[i].batch # {} /\ ~relay[i].sent
    /\ ~channel[i].up
    /\ row' = [row EXCEPT ![e].lock = "later", ![e].attempts = @ + 1]
    /\ NextRow(i)
    /\ UNCHANGED <<channel, broker, consumer, receipt, handled, faults>>

\* A statement that fails ends the pass: the rest of the batch stays locked.
RelayFails(i) ==
    /\ relay[i].batch # {}
    /\ Fault("outbox")
    /\ relay' = [relay EXCEPT ![i] = [batch |-> {}, sent |-> FALSE]]
    /\ UNCHANGED <<row, channel, broker, consumer, receipt, handled>>

\* available_at passes, or locked_at becomes older than 5 minutes: because the
\* relay that held the row has died, or is slow.
RowTimer(e) ==
    /\ \/ row[e].lock = "later" /\ row' = [row EXCEPT ![e].lock = "free"]
       \/ /\ row[e].lock = "held"
          /\ May("slow relay") \/ \A i \in Instance : e \notin relay[i].batch
          /\ row' = [row EXCEPT ![e].lock = "stale"]
    /\ UNCHANGED <<relay, channel, broker, consumer, receipt, handled, faults>>

-----------------------------------------------------------------------------
(***************************************************************************)
(* The broker takes what arrives on a channel in order, delivers, and puts *)
(* a delayed message back when its expiration passes.                      *)
(***************************************************************************)
BrokerTakes(i) ==
    LET op == Head(channel[i].wire) IN
    /\ channel[i].wire # <<>>
    /\ channel' = [channel EXCEPT ![i].wire = Tail(@)]
    /\ ready'   = IF op.op = "publish" THEN ready (+) One(op.msg) ELSE ready
    /\ delayed' = IF op.op = "delay" THEN delayed (+) One(op.msg) ELSE delayed
    /\ dead'    = IF op.op = "bury" THEN dead (+) One(op.msg) ELSE dead
    /\ unacked' = IF op.op = "ack" /\ unacked[i] = op.msg
                  THEN [unacked EXCEPT ![i] = None] ELSE unacked
    /\ UNCHANGED <<row, relay, consumer, receipt, handled, faults>>

Deliver(i) ==
    \E m \in BagToSet(ready) :
        /\ channel[i].up /\ channel[i].consuming
        /\ unacked[i] = None /\ consumer[i].pc = "idle"
        /\ ready' = ready (-) One(m)
        /\ unacked' = [unacked EXCEPT ![i] = m]
        /\ consumer' = [consumer EXCEPT ![i] = [pc |-> "claim", msg |-> m]]
        /\ UNCHANGED <<row, relay, channel, delayed, dead, receipt, handled, faults>>

RetryDue ==
    \E m \in BagToSet(delayed) :
        /\ delayed' = delayed (-) One(m)
        /\ ready' = ready (+) One(m)
        /\ UNCHANGED <<row, relay, channel, dead, unacked, consumer, receipt,
                       handled, faults>>

-----------------------------------------------------------------------------
(***************************************************************************)
(* consume: claimMessage, the handler, markMessageProcessed and the ack;   *)
(* after an exception releaseMessage and retryOrDeadLetter.  An exception  *)
(* of the claim itself is no different: the event's receipt is released,   *)
(* whoever has it.                                                         *)
(***************************************************************************)
Goto(i, pc) == consumer' = [consumer EXCEPT ![i].pc = pc]

Claimed(i) == consumer[i].msg.event

\* A statement of claimMessage throws: consume goes on in its catch.
ClaimThrows(i) ==
    /\ Fault("database")
    /\ Goto(i, "release")
    /\ UNCHANGED receipt

\* INSERT ... ON CONFLICT DO NOTHING.
claimMessage(i) ==
    /\ consumer[i].pc = "claim"
    /\ \/ /\ receipt[Claimed(i)] = "none"
          /\ receipt' = [receipt EXCEPT ![Claimed(i)] = "processing"]
          /\ Goto(i, "handle")
          /\ UNCHANGED faults
       \/ /\ receipt[Claimed(i)] # "none"
          /\ Goto(i, "reclaim")
          /\ UNCHANGED <<receipt, faults>>
       \/ ClaimThrows(i)
    /\ UNCHANGED <<row, relay, channel, broker, handled>>

\* Mutant: a receipt in processing is taken over however fresh it is.
ReclaimFresh(i) ==
    /\ consumer[i].pc = "reclaim"
    /\ \/ /\ receipt[Claimed(i)] \in {"processing", "stale"}
          /\ receipt' = [receipt EXCEPT ![Claimed(i)] = "processing"]
          /\ Goto(i, "handle")
          /\ UNCHANGED faults
       \/ /\ receipt[Claimed(i)] \notin {"processing", "stale"}
          /\ Goto(i, "ack")
          /\ UNCHANGED <<receipt, faults>>
       \/ ClaimThrows(i)
    /\ UNCHANGED <<row, relay, channel, broker, handled>>

\* The read of the existing receipt and the UPDATE that takes a stale one over.
Reclaim(i) ==
    /\ consumer[i].pc = "reclaim"
    /\ \/ /\ receipt[Claimed(i)] = "stale"
          /\ receipt' = [receipt EXCEPT ![Claimed(i)] = "processing"]
          /\ Goto(i, "handle")
          /\ UNCHANGED faults
       \/ /\ receipt[Claimed(i)] # "stale"
          /\ Goto(i, "ack")
          /\ UNCHANGED <<receipt, faults>>
       \/ ClaimThrows(i)
    /\ UNCHANGED <<row, relay, channel, broker, handled>>

Handler(i) ==
    /\ consumer[i].pc = "handle"
    /\ \/ /\ handled' = [handled EXCEPT ![Claimed(i)] = @ + 1]
          /\ Goto(i, "mark")
       \/ /\ May("throw")
          /\ Goto(i, "release")
          /\ UNCHANGED handled
    /\ UNCHANGED <<row, relay, channel, broker, receipt, faults>>

\* Once a failed handler has released its receipt, the UPDATE finds no row.
markMessageProcessed(i) ==
    /\ consumer[i].pc = "mark"
    /\ \/ /\ receipt' = [receipt EXCEPT ![Claimed(i)] =
                            IF @ = "none" THEN @ ELSE "processed"]
          /\ Goto(i, "ack")
          /\ UNCHANGED faults
       \/ /\ Fault("database")
          /\ Goto(i, "release")
          /\ UNCHANGED receipt
    /\ UNCHANGED <<row, relay, channel, broker, handled>>

releaseMessage(i) ==
    /\ consumer[i].pc = "release"
    /\ Goto(i, "retry")
    /\ \/ receipt' = [receipt EXCEPT ![Claimed(i)] = "none"] /\ UNCHANGED faults
       \/ Fault("database") /\ UNCHANGED receipt
    /\ UNCHANGED <<row, relay, channel, broker, handled>>

Done(i) == consumer' = [consumer EXCEPT ![i] = [pc |-> "idle", msg |-> None]]

\* ack, or nothing when the channel is gone.
Acknowledge(i) ==
    /\ consumer[i].pc = "ack"
    /\ IF channel[i].up THEN Send(i, <<[op |-> "ack", msg |-> consumer[i].msg]>>)
                        ELSE UNCHANGED channel
    /\ Done(i)
    /\ UNCHANGED <<row, relay, broker, receipt, handled, faults>>

\* Mutant: the message is acknowledged and never sent to the retry queue.
AckOnly(i) ==
    /\ consumer[i].pc = "retry"
    /\ IF channel[i].up THEN Send(i, <<[op |-> "ack", msg |-> consumer[i].msg]>>)
                        ELSE UNCHANGED channel
    /\ Done(i)
    /\ UNCHANGED <<row, relay, broker, receipt, handled, faults>>

retryOrDeadLetter(i) ==
    LET m == consumer[i].msg
        target == IF m.attempt < Retries THEN "delay" ELSE "bury"
    IN  /\ consumer[i].pc = "retry"
        /\ IF channel[i].up
           THEN Send(i, <<[op |-> target, msg |-> [m EXCEPT !.attempt = @ + 1]],
                          [op |-> "ack", msg |-> m]>>)
           ELSE UNCHANGED channel
        /\ Done(i)
        /\ UNCHANGED <<row, relay, broker, receipt, handled, faults>>

\* updated_at becomes older than 10 minutes: the handler is slow, or its process
\* has died and the message comes back late.
ReceiptTimer(e) ==
    /\ receipt[e] = "processing"
    /\ Fault("stale receipt")
    /\ receipt' = [receipt EXCEPT ![e] = "stale"]
    /\ UNCHANGED <<row, relay, channel, broker, consumer, handled>>

-----------------------------------------------------------------------------
\* The broker returns an unacknowledged message to its queue.
Requeue(i) ==
    /\ ready' = IF unacked[i] = None THEN ready ELSE ready (+) One(unacked[i])
    /\ unacked' = [unacked EXCEPT ![i] = None]
    /\ UNCHANGED <<delayed, dead>>

\* A restarted process connects and then starts its relay and its consumers.
InstanceCrash(i) ==
    /\ Fault("crash")
    /\ relay' = [relay EXCEPT ![i] = [batch |-> {}, sent |-> FALSE]]
    /\ channel' = [channel EXCEPT ![i] = [up |-> TRUE, consuming |-> TRUE, wire |-> <<>>]]
    /\ Done(i)
    /\ Requeue(i)
    /\ UNCHANGED <<row, receipt, handled>>

Disconnect(i) ==
    /\ Fault("disconnect")
    /\ channel[i].up
    /\ channel' = [channel EXCEPT ![i] = [up |-> FALSE, consuming |-> FALSE, wire |-> <<>>]]
    /\ Requeue(i)
    /\ UNCHANGED <<row, relay, consumer, receipt, handled>>

\* The close handler connects again; it does not call consume.
connectRabbitMQ(i) ==
    /\ ~channel[i].up
    /\ channel' = [channel EXCEPT ![i].up = TRUE]
    /\ UNCHANGED <<row, relay, broker, consumer, receipt, handled, faults>>

Relay(i) ==
    \/ claimOutboxBatch(i) \/ publishEnvelope(i)
    \/ markOutboxPublished(i) \/ markOutboxFailed(i)

Consume(i) ==
    \/ claimMessage(i) \/ Reclaim(i) \/ Handler(i) \/ markMessageProcessed(i)
    \/ releaseMessage(i) \/ Acknowledge(i) \/ retryOrDeadLetter(i)

DeliveryNext ==
    \/ enqueueOutboxMessage
    \/ RetryDue
    \/ \E e \in Event : RowTimer(e) \/ ReceiptTimer(e)
    \/ \E i \in Instance :
          \/ Relay(i) \/ Consume(i) \/ BrokerTakes(i) \/ Deliver(i)
          \/ RelayFails(i) \/ InstanceCrash(i) \/ Disconnect(i) \/ connectRabbitMQ(i)

DeliverySpec == DeliveryInit /\ [][DeliveryNext]_deliveryVars

\* Timers fire, the broker delivers, handlers return and processes reconnect;
\* nobody has to enqueue anything and nothing has to go wrong.
DeliveryFairness ==
    /\ WF_deliveryVars(RetryDue)
    /\ \A e \in Event : WF_deliveryVars(RowTimer(e))
    /\ \A i \in Instance :
          /\ WF_deliveryVars(Relay(i)) /\ WF_deliveryVars(Consume(i)) /\ WF_deliveryVars(BrokerTakes(i))
          /\ WF_deliveryVars(Deliver(i)) /\ WF_deliveryVars(connectRabbitMQ(i))

-----------------------------------------------------------------------------
(***************************************************************************)
(* Properties.                                                             *)
(***************************************************************************)

\* The event still has a copy somewhere that can lead to its being handled or
\* buried.
Carried(e) ==
    \/ row[e].state = "pending"
    \/ \E m \in BagToSet(ready) \cup BagToSet(delayed) : m.event = e
    \/ \E i \in Instance :
          \/ unacked[i].event = e
          \/ \E k \in DOMAIN channel[i].wire :
                channel[i].wire[k].msg.event = e /\ channel[i].wire[k].op # "ack"

Buried(e) == \E m \in BagToSet(dead) : m.event = e

Never(kinds) == \A kind \in kinds : faults[kind] = 0

(***************************************************************************)
(* At most once: however often a message is published again by a relay     *)
(* that died or was slow, redelivered or retried, the handler of an event  *)
(* runs to its end once - and once more only for each statement on the     *)
(* receipts that failed and each receipt met ten minutes after its claim.  *)
(* A failed statement may be a claim, which takes the receipt away from    *)
(* whoever has it, or the record of an answer.  A handler that throws any  *)
(* number of times is no exception.                                        *)
(***************************************************************************)
HandledOnce ==
    \A e \in Event : handled[e] <= 1 + faults["database"] + faults["stale receipt"]

(***************************************************************************)
(* At least once: while no process dies, no connection breaks and receipts *)
(* can be written, an event that was enqueued is handled, in the dead      *)
(* letter queue or still on its way, whatever its handlers do and however  *)
(* late or interrupted its relays are.                                     *)
(***************************************************************************)
NoneLost ==
    Never({"crash", "disconnect", "database"}) =>
        \A e \in Event :
            row[e].state # "none" => handled[e] >= 1 \/ Buried(e) \/ Carried(e)

(***************************************************************************)
(* An event that a consumer has claimed stays with that consumer, with the *)
(* broker or in the outbox until it is handled or buried.                  *)
(***************************************************************************)
ClaimedNotLost ==
    \A e \in Event :
        receipt[e] \in {"processing", "stale"} =>
            handled[e] >= 1 \/ Buried(e) \/ Carried(e)

(***************************************************************************)
(* Under the same conditions every event that was enqueued is in the end   *)
(* handled or buried.                                                      *)
(***************************************************************************)
Settled ==
    \A e \in Event :
        row[e].state # "none" ~>
            \/ handled[e] >= 1 \/ Buried(e)
            \/ ~Never({"crash", "disconnect", "database"})
=============================================================================
