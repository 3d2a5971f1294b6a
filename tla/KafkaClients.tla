---------------------------- MODULE KafkaClients ----------------------------
(***************************************************************************)
(* The two writers of Kafka records: audit/kafka_logger.go, which hands an *)
(* event to its client and returns, and messaging/producer.go, which waits *)
(* for the acknowledgement.  The client (franz-go) is external: it stores  *)
(* a record or gives up on it, a record it gave up on may be in the topic  *)
(* all the same.  That its Close settles what is buffered, callbacks       *)
(* included, before it returns is assumed: kafka_logger.go:75 says so, and *)
(* nothing in the repository makes it so.                                  *)
(***************************************************************************)
CONSTANTS Events,       \* audit events
          Messages      \* messages to publish

VARIABLES
    dep,        \* the clients "audit" and "producer" are "open" or "closed"
    fate,       \* per record: "none", "buffered", "stored" or "failed"
    told,       \* per record: what the caller got: "none", "nil" or "error"
    topic,      \* the records in their topics
    reported,   \* the records whose failure was logged
    late        \* the events Log handed to a client already closed

Records == Events \cup Messages
ClientOf(r) == IF r \in Events THEN "audit" ELSE "producer"
Buffered(c) == {r \in Records : ClientOf(r) = c /\ fate[r] = "buffered"}

Init ==
    /\ fate = [r \in Records |-> "none"]
    /\ told = [r \in Records |-> "none"]
    /\ topic = {} /\ reported = {} /\ late = {}

\* KafkaLogger.Log: nil at once, also from a client that is already closed, or an
\* error for an event that cannot be marshalled.
Log(e) ==
    /\ fate[e] = "none" /\ told[e] = "none" /\ dep["audit"] \in {"open", "closed"}
    /\ \/ /\ fate' = [fate EXCEPT ![e] = "buffered"]
          /\ told' = [told EXCEPT ![e] = "nil"]
          /\ late' = IF dep["audit"] = "closed" THEN late \cup {e} ELSE late
       \/ told' = [told EXCEPT ![e] = "error"] /\ UNCHANGED <<fate, late>>
    /\ UNCHANGED <<topic, reported>>

\* Producer.Publish calls ProduceSync.
Publish(m) ==
    /\ fate[m] = "none" /\ dep["producer"] \in {"open", "closed"}
    /\ fate' = [fate EXCEPT ![m] = "buffered"]
    /\ UNCHANGED <<told, topic, reported, late>>

\* The record is acknowledged; Publish returns nil.
Ack(r) ==
    /\ fate[r] = "buffered" /\ dep[ClientOf(r)] = "open"
    /\ fate' = [fate EXCEPT ![r] = "stored"]
    /\ told' = [told EXCEPT ![r] = "nil"]
    /\ topic' = topic \cup {r}
    /\ UNCHANGED <<reported, late>>

\* Mutant: Publish logs the error and returns nil.
FailTellsNil(r) ==
    /\ fate[r] = "buffered"
    /\ fate' = [fate EXCEPT ![r] = "failed"]
    /\ told' = [told EXCEPT ![r] = "nil"]
    /\ topic' \in {topic, topic \cup {r}}
    /\ reported' = reported \cup {r}
    /\ UNCHANGED late
\* Retries ran out, the caller's context ended, or the client is closed.  The
\* callback of Log and the error path of Publish both log it.
Fail(r) ==
    /\ fate[r] = "buffered"
    /\ fate' = [fate EXCEPT ![r] = "failed"]
    /\ told' = [told EXCEPT ![r] = IF r \in Messages THEN "error" ELSE @]
    /\ topic' \in {topic, topic \cup {r}}
    /\ reported' = reported \cup {r}
    /\ UNCHANGED late

\* Mutant: Close does not wait for the buffer.
CloseAtOnce(c) ==
    /\ dep[c] = "open"
    /\ dep' = [dep EXCEPT ![c] = "closed"]
\* Close: "Flushes buffers and closes", as the client is assumed to do.
Close(c) ==
    /\ dep[c] = "open" /\ Buffered(c) = {}
    /\ dep' = [dep EXCEPT ![c] = "closed"]

-----------------------------------------------------------------------------
TypeOK ==
    /\ fate \in [Records -> {"none", "buffered", "stored", "failed"}]
    /\ told \in [Records -> {"none", "nil", "error"}]
    /\ topic \subseteq Records /\ reported \subseteq Records /\ late \subseteq Events

\* "BLOCKS until Kafka acknowledges it [...] to ensure DB and Kafka are consistent"
\* (producer.go:51): a message whose Publish returned nil is in its topic.
PublishedIsStored == \A m \in Messages : told[m] = "nil" => m \in topic

\* An event the logger accepted is in the topic, or its loss was logged.
Settled(e) == told[e] = "nil" => e \in topic \/ e \in reported
=============================================================================
