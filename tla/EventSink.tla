----------------------------- MODULE EventSink -----------------------------
(***************************************************************************)
(* The NATS sink of business events (nats_events.rs): callers put          *)
(* envelopes into a bounded channel and never wait; one thread connects    *)
(* once and then forwards them.  The broker is external.                   *)
(***************************************************************************)
EXTENDS Integers, Sequences

CONSTANTS Capacity   \* QUEUE_CAPACITY

ASSUME CapacityAssumption == Capacity \in Nat \ {0}

VARIABLES
    queue,      \* envelopes in the channel
    publisher,  \* the forwarding thread
    delivered   \* envelopes the broker accepted, in order

sinkVars == <<queue, publisher, delivered>>

Publishers == {"connecting", "up", "stopped"}

SinkInit ==
    /\ queue = << >>
    /\ publisher = "connecting"
    /\ delivered = << >>

(* NatsEventSink::publish: the envelope is dropped when the channel is full *)
(* or its receiver is gone; the answer is Ok in every case.                 *)
Publish(e) ==
    /\ queue' = IF publisher # "stopped" /\ Len(queue) < Capacity
                THEN Append(queue, e) ELSE queue
    /\ UNCHANGED <<publisher, delivered>>

Connected ==
    /\ publisher = "connecting"
    /\ publisher' = "up"
    /\ UNCHANGED <<queue, delivered>>

(* The thread returns, and the channel goes with it.                        *)
ConnectFails ==
    /\ publisher = "connecting"
    /\ publisher' = "stopped"
    /\ queue' = << >>
    /\ UNCHANGED delivered

(* Slip: an envelope stays in the channel until the next one is forwarded.  *)
ForwardPeeks ==
    /\ publisher = "up"
    /\ queue # << >>
    /\ Len(delivered) < Capacity + 2
    /\ delivered' = Append(delivered, Head(queue))
    /\ queue' \in {queue, Tail(queue)}
    /\ UNCHANGED publisher

(* One turn of the receive loop: a publish that fails is only logged.       *)
Forward ==
    /\ publisher = "up"
    /\ queue # << >>
    /\ queue' = Tail(queue)
    /\ delivered' \in {delivered, Append(delivered, Head(queue))}
    /\ UNCHANGED publisher

(* The process restarts: the channel is in memory.                          *)
SinkRestart ==
    /\ queue' = << >>
    /\ publisher' = "connecting"
    /\ UNCHANGED delivered

SinkStep == Connected \/ ConnectFails \/ Forward

=============================================================================
