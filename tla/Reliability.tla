---------------------------- MODULE Reliability ----------------------------
(* ReliableSender and ReliableReceiver (NeuronCore/Reliability.h) over the *)
(* wrapping arithmetic of SequenceMath.h, joined by a network that loses,  *)
(* repeats and reorders.  Messages carry their number in `msg', which the  *)
(* code does not see: it sees the sequence, the number modulo SEQ_SPACE.   *)
(* When a retransmission is due is left open (any message in flight may be *)
(* past its RTO), so the RTT estimate is not modelled.                     *)
(*                                                                         *)
(* The code bounds neither how far the sender runs ahead of its oldest     *)
(* unacknowledged message nor how old a datagram may be on arrival.  SPAN  *)
(* and LIFETIME, both in messages, are what the owner and the network have *)
(* to guarantee: KEEP + SPAN below half the sequence space, and a lifetime *)
(* that ends before KEEP does.                                             *)
EXTENDS Integers, FiniteSets

CONSTANTS
    SEQ_SPACE,      \* 2^16
    ACK_BITS,       \* 32
    KEEP,           \* 1024, how far behind the newest a sequence is remembered
    SPAN, LIFETIME, \* the premises above
    MAX_MESSAGES,   \* bound: messages sent
    MAX_WIRE        \* bound: datagrams the network holds

VARIABLES
    m_nextMessage,  \* number of the next message; m_nextSequence is its residue
    m_inFlight,     \* ReliableSender: sequence -> message number, a set of pairs
    relWire,        \* datagrams that may still arrive, any number of times
    m_seenAny, m_latest, m_received,        \* ReliableReceiver
    deliveries      \* message number -> times OnReceive returned true

relVars == << m_nextMessage, m_inFlight, relWire, m_seenAny, m_latest, m_received, deliveries >>

Half == SEQ_SPACE \div 2
Seq16(n) == n % SEQ_SPACE

\* Mutant: no wrap-around in the comparison.
SeqGreaterPlain(s1, s2) == s1 > s2

SeqGreater(s1, s2) ==
    \/ s1 > s2 /\ s1 - s2 <= Half
    \/ s1 < s2 /\ s2 - s1 > Half

\* The difference as a signed number of half the range.
SeqDiff(s1, s2) == LET d == Seq16(s1 - s2) IN IF d >= Half THEN d - SEQ_SPACE ELSE d

Init ==
    /\ m_nextMessage = 0 /\ m_inFlight = {} /\ relWire = {}
    /\ m_seenAny = FALSE /\ m_latest = 0 /\ m_received = {}
    /\ deliveries = [n \in 0 .. MAX_MESSAGES - 1 |-> 0]

Data(n) == [kind |-> "data", seq |-> Seq16(n), msg |-> n, born |-> m_nextMessage]

\* What the network still holds once message number n has been sent.
Surviving(n) == { d \in relWire : d.born > n - LIFETIME }

\* The network takes d in, which may cost it another datagram, or loses d.
Carry(held, d) ==
    relWire' \in { w \in {held \cup {d}, held} \cup { (held \ {e}) \cup {d} : e \in held } :
                    Cardinality(w) <= MAX_WIRE }

Send ==
    LET n == m_nextMessage IN
    /\ n < MAX_MESSAGES
    /\ \A f \in m_inFlight : n - f.msg < SPAN
    /\ m_nextMessage' = n + 1
    /\ m_inFlight' = { f \in m_inFlight : f.seq # Seq16(n) } \cup {[seq |-> Seq16(n), msg |-> n]}
    /\ Carry(Surviving(n), Data(n))
    /\ UNCHANGED << m_seenAny, m_latest, m_received, deliveries >>

\* The caller resends the messages found past their RTO.
CollectTimedOut(f) ==
    /\ f \in m_inFlight
    /\ Carry(relWire, Data(f.msg))
    /\ UNCHANGED << m_nextMessage, m_inFlight, m_seenAny, m_latest, m_received, deliveries >>

PruneOld(latest, received) == { s \in received : SeqDiff(latest, s) <= KEEP }

Duplicate(seq) == seq \in m_received

OnReceive(d) ==
    /\ d \in relWire /\ d.kind = "data"
    /\ \/ /\ ~m_seenAny
          /\ m_seenAny' = TRUE /\ m_latest' = d.seq /\ m_received' = {d.seq}
          /\ deliveries' = [deliveries EXCEPT ![d.msg] = @ + 1]
       \/ /\ m_seenAny /\ Duplicate(d.seq)
          /\ UNCHANGED << m_seenAny, m_latest, m_received, deliveries >>
       \/ /\ m_seenAny /\ ~Duplicate(d.seq)
          /\ m_latest' = IF SeqGreater(d.seq, m_latest) THEN d.seq ELSE m_latest
          /\ m_received' = PruneOld(m_latest', m_received \cup {d.seq})
          /\ deliveries' = [deliveries EXCEPT ![d.msg] = @ + 1]
          /\ UNCHANGED m_seenAny
    /\ UNCHANGED << m_nextMessage, m_inFlight, relWire >>

AckBits == { i \in 0 .. ACK_BITS - 1 : Seq16(m_latest - 1 - i) \in m_received }

SendAck ==
    /\ m_seenAny
    /\ Carry(relWire, [kind |-> "ack", ack |-> m_latest, ackBits |-> AckBits,
                       born |-> m_nextMessage])
    /\ UNCHANGED << m_nextMessage, m_inFlight, m_seenAny, m_latest, m_received, deliveries >>

Acked(ack, bits) == {ack} \cup { Seq16(ack - 1 - i) : i \in bits }

OnAck(d) ==
    /\ d \in relWire /\ d.kind = "ack"
    /\ m_inFlight' = { f \in m_inFlight : f.seq \notin Acked(d.ack, d.ackBits) }
    /\ UNCHANGED << m_nextMessage, relWire, m_seenAny, m_latest, m_received, deliveries >>

Next ==
    \/ Send \/ SendAck
    \/ \E f \in m_inFlight : CollectTimedOut(f)
    \/ \E d \in relWire : OnReceive(d) \/ OnAck(d)

(***************************************************************************)
(* Properties                                                              *)
(***************************************************************************)
(* A message leaves m_inFlight only because it arrived: over the wrap, an  *)
(* ack or its bitmap never retires a message that is still missing.        *)
RetiredArrived ==
    \A n \in 0 .. m_nextMessage - 1 :
        deliveries[n] >= 1 \/ \E f \in m_inFlight : f.msg = n

(* However often a datagram is repeated, and after the sequence has        *)
(* wrapped too, each message is handed up at most once.                    *)
DeliveredOnce == \A n \in 0 .. MAX_MESSAGES - 1 : deliveries[n] <= 1

(* A message that arrived and is still in flight is named by the next ack: *)
(* nothing is resent for ever.  Beyond ACK_BITS behind the newest it would *)
(* not be, hence SPAN.                                                     *)
ArrivedIsAckable ==
    \A f \in m_inFlight : deliveries[f.msg] >= 1 => f.seq \in Acked(m_latest, AckBits)

(* No message is retired before it arrived, none is handed up twice, and   *)
(* none that arrived is resent for ever, across the wrap of the sequence   *)
(* numbers and with datagrams lost, repeated and overtaken (Reliability.h  *)
(* OnSend, OnReceive, OnAck).                                              *)
ReliabilityInv == RetiredArrived /\ DeliveredOnce /\ ArrivedIsAckable
=============================================================================
