------------------------- MODULE ReliableTransport --------------------------
(***************************************************************************)
(* One direction of the control channel: the sending half of one           *)
(* ReliableTransport (corevpn-protocol/src/reliable.rs), a UDP network     *)
(* that loses, duplicates and reorders, and the receiving half of the      *)
(* peer's.  The halves of one transport share no state, so the other       *)
(* direction is a second copy of this module.  A packet is its identifier; *)
(* acknowledgements travel in pure ACK packets or on packets of the other  *)
(* direction.  What is on the network may arrive in any order, any number  *)
(* of times, or never, so nothing is ever taken off it.                    *)
(***************************************************************************)
EXTENDS Integers, FiniteSets, Sequences

CONSTANTS SendWindow,      \* window_size, 8 by default
          MaxRetransmits,  \* max_retransmits, 10 by default
          MaxOutOfOrder,   \* MAX_OUT_OF_ORDER, 100
          MaxSends,        \* bound on the number of packets sent
          MaxBatch         \* bound on the packets one TLS flight is split into

ASSUME ReliableAssumption ==
    /\ SendWindow \in Nat \ {0}
    /\ MaxRetransmits \in Nat
    /\ MaxOutOfOrder \in Nat
    /\ MaxSends \in Nat
    /\ MaxBatch \in Nat \ {0}

Ids == 0 .. MaxSends - 1

VARIABLES next_send_id,
          pending,       \* identifiers sent and not acknowledged
          retransmits,   \* how often each identifier was sent again
          next_recv_id,
          out_of_order,  \* identifiers buffered by the receiver
          pending_acks,  \* acknowledgements the receiver has to send
          flight,        \* packets put on the network so far
          ackFlight,     \* acknowledgements put on the network so far
          delivered,     \* history: what receive returned, in order
          refused        \* history: identifiers refused because the buffer was full

sendVars == <<next_send_id, pending, retransmits>>
recvVars == <<next_recv_id, out_of_order, pending_acks, delivered, refused>>
vars == <<sendVars, recvVars, flight, ackFlight>>

TypeOK ==
    /\ next_send_id \in 0 .. MaxSends
    /\ pending \subseteq Ids
    /\ Cardinality(pending) <= SendWindow
    /\ retransmits \in [Ids -> 0 .. MaxRetransmits]
    /\ next_recv_id \in 0 .. MaxSends
    /\ out_of_order \subseteq Ids
    /\ pending_acks \subseteq Ids
    /\ flight \subseteq Ids
    /\ ackFlight \subseteq Ids
    /\ delivered \in Seq(Ids)
    /\ refused \subseteq Ids

\* ReliableTransport::new on both sides.
Init ==
    /\ next_send_id = 0
    /\ pending = {}
    /\ retransmits = [i \in Ids |-> 0]
    /\ next_recv_id = 0
    /\ out_of_order = {}
    /\ pending_acks = {}
    /\ flight = {}
    /\ ackFlight = {}
    /\ delivered = << >>
    /\ refused = {}

-----------------------------------------------------------------------------
\* What the window check of send leaves.
Room == SendWindow - Cardinality(pending)

\* send for n packets in a row.
Register(n) ==
    /\ next_send_id' = next_send_id + n
    /\ pending' = pending \cup (next_send_id .. next_send_id + n - 1)
    /\ UNCHANGED <<retransmits, recvVars, ackFlight>>

\* create_control_packets on TLS data that fills n packets.
Send(n) ==
    /\ next_send_id + n <= MaxSends
    /\ n <= Room
    /\ Register(n)
    /\ flight' = flight \cup (next_send_id .. next_send_id + n - 1)

\* The same when the window fills up on the way: send has registered the first
\* packets, the error discards them all, so none of them goes on the network.
SendWindowFull(n) ==
    /\ next_send_id + n <= MaxSends
    /\ n > Room
    /\ Register(Room)
    /\ UNCHANGED flight

\* get_retransmits for the packets whose timer has run out; those that were
\* sent too often are passed over.
Retransmit(due) ==
    /\ due \subseteq {i \in pending : retransmits[i] < MaxRetransmits}
    /\ retransmits' = [i \in Ids |-> IF i \in due THEN retransmits[i] + 1 ELSE retransmits[i]]
    /\ flight' = flight \cup due
    /\ UNCHANGED <<next_send_id, pending, recvVars, ackFlight>>

\* Mutant of process_acks: an acknowledgement taken for a cumulative one.
process_acks_cumulative(id) ==
    /\ id \in ackFlight
    /\ pending' = pending \ (0 .. id)
    /\ UNCHANGED <<next_send_id, retransmits, recvVars, flight, ackFlight>>

\* process_acks
process_acks(id) ==
    /\ id \in ackFlight
    /\ pending' = pending \ {id}
    /\ UNCHANGED <<next_send_id, retransmits, recvVars, flight, ackFlight>>

\* The run of buffered packets from n on ends before m.
DrainsTo(n, m) ==
    /\ m \notin out_of_order
    /\ \A k \in n .. m - 1 : k \in out_of_order

\* Mutant of ReceiveExpected: buffered packets are looked up, not removed.
ReceiveExpectedPeeking(id) ==
    /\ id \in flight
    /\ id = next_recv_id
    /\ \E m \in id + 1 .. MaxSends : DrainsTo(id + 1, m) /\ next_recv_id' = m
    /\ delivered' = Append(delivered, id)
    /\ pending_acks' = pending_acks \cup {id}
    /\ UNCHANGED <<sendVars, flight, ackFlight, out_of_order, refused>>

\* receive of the packet that is expected: it is delivered, and the buffered
\* packets that follow it are taken out of the buffer.
ReceiveExpected(id) ==
    /\ id \in flight
    /\ id = next_recv_id
    /\ \E m \in id + 1 .. MaxSends :
          /\ DrainsTo(id + 1, m)
          /\ next_recv_id' = m
          /\ out_of_order' = out_of_order \ (id + 1 .. m - 1)
    /\ delivered' = Append(delivered, id)
    /\ pending_acks' = pending_acks \cup {id}
    /\ UNCHANGED <<sendVars, flight, ackFlight, refused>>

\* receive of a packet ahead of the expected one.  The acknowledgement is
\* queued before the buffer is found to be full.
ReceiveAhead(id) ==
    /\ id \in flight
    /\ id > next_recv_id
    /\ pending_acks' = pending_acks \cup {id}
    /\ IF Cardinality(out_of_order) >= MaxOutOfOrder
       THEN refused' = refused \cup ({id} \ out_of_order) /\ UNCHANGED out_of_order
       ELSE out_of_order' = out_of_order \cup {id} /\ UNCHANGED refused
    /\ UNCHANGED <<sendVars, next_recv_id, delivered, flight, ackFlight>>

\* Mutant of ReceiveDuplicate: `<=' in place of `==' in receive.
ReceiveDuplicateAgain(id) ==
    /\ id \in flight
    /\ id < next_recv_id
    /\ pending_acks' = pending_acks \cup {id}
    /\ delivered' = Append(delivered, id)
    /\ UNCHANGED <<sendVars, next_recv_id, out_of_order, refused, flight, ackFlight>>

\* receive of a packet that was passed already: acknowledged once more.
ReceiveDuplicate(id) ==
    /\ id \in flight
    /\ id < next_recv_id
    /\ pending_acks' = pending_acks \cup {id}
    /\ UNCHANGED <<sendVars, next_recv_id, out_of_order, delivered, refused, flight, ackFlight>>

\* get_acks, for a pure ACK packet or for a packet of the other direction.
SendAcks ==
    /\ pending_acks # {}
    /\ ackFlight' = ackFlight \cup pending_acks
    /\ pending_acks' = {}
    /\ UNCHANGED <<sendVars, next_recv_id, out_of_order, delivered, refused, flight>>

Next ==
    \/ \E n \in 1 .. MaxBatch : Send(n) \/ SendWindowFull(n)
    \/ \E due \in (SUBSET pending) \ {{}} : Retransmit(due)
    \/ \E id \in ackFlight : process_acks(id)
    \/ \E id \in flight : ReceiveExpected(id) \/ ReceiveAhead(id) \/ ReceiveDuplicate(id)
    \/ SendAcks

Spec == Init /\ [][Next]_vars

-----------------------------------------------------------------------------
(***************************************************************************)
(* The TLS stream sees packets in the order they were sent and none of     *)
(* them twice, whatever the network does.                                  *)
(***************************************************************************)
InOrderOnce ==
    \A i, j \in DOMAIN delivered : i < j => delivered[i] < delivered[j]

(***************************************************************************)
(* A sender forgets a packet only for a good reason: the receiver has gone *)
(* past it or keeps it in its buffer.  The one exception is a packet that  *)
(* met a full buffer, which receive acknowledges all the same.             *)
(***************************************************************************)
AckedIsHeld ==
    \A id \in 0 .. next_send_id - 1 :
        \/ id \in pending
        \/ id < next_recv_id
        \/ id \in out_of_order \cup refused

(***************************************************************************)
(* The buffer holds only packets beyond the expected one that the peer has *)
(* really sent, so that the drain loop empties it in the end, and never    *)
(* more of them than MAX_OUT_OF_ORDER.                                     *)
(***************************************************************************)
BufferAhead ==
    /\ out_of_order \subseteq next_recv_id + 1 .. next_send_id - 1
    /\ Cardinality(out_of_order) <= MaxOutOfOrder

(***************************************************************************)
(* "Returns the payload if this is the next expected packet, otherwise     *)
(* buffers it for later delivery": every packet the receiver has gone past *)
(* was delivered.                                                          *)
(***************************************************************************)
BufferedIsDelivered ==
    \A id \in 0 .. next_recv_id - 1 : \E i \in DOMAIN delivered : delivered[i] = id
=============================================================================
