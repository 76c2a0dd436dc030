---------------------- MODULE ReliableTransportProofs -----------------------
(***************************************************************************)
(* The reliability layer for every window, buffer, number of packets and   *)
(* number of retransmissions, on a network that loses, duplicates and      *)
(* reorders.                                                               *)
(***************************************************************************)
EXTENDS ReliableTransport, FiniteSetTheorems, TLAPS

\* Only identifiers that send has given out are anywhere.
Sent ==
    /\ next_recv_id <= next_send_id
    /\ pending \cup flight \subseteq 0 .. next_send_id - 1

\* What was acknowledged, or is about to be, is held by the receiver, or met a
\* full buffer.
AckIsHonest ==
    \A id \in pending_acks \cup ackFlight :
        id < next_recv_id \/ id \in out_of_order \cup refused

\* The receiver has gone past everything it has delivered.
DeliveredIsPast == \A i \in DOMAIN delivered : delivered[i] < next_recv_id

IInv ==
    /\ TypeOK
    /\ Sent
    /\ BufferAhead
    /\ AckedIsHeld
    /\ AckIsHonest
    /\ DeliveredIsPast
    /\ InOrderOnce

USE ReliableAssumption

\* Sets of identifiers are finite.
LEMMA IdsFinite == ASSUME NEW S \in SUBSET Ids PROVE IsFiniteSet(S) /\ Cardinality(S) \in Nat
<1>1. IsFiniteSet(Ids)
  BY FS_Interval DEF Ids
<1> QED BY <1>1, FS_Subset, FS_CardinalityType

\* A run of n identifiers adds at most n to a set of them.
LEMMA AddRun ==
    ASSUME NEW S \in SUBSET Ids, NEW a \in Nat, NEW n \in Nat, a + n <= MaxSends
    PROVE  /\ S \cup (a .. a + n - 1) \subseteq Ids
           /\ Cardinality(S \cup (a .. a + n - 1)) <= Cardinality(S) + n
<1> DEFINE T == a .. a + n - 1
<1>1. T \subseteq Ids
  BY DEF Ids
<1>2. IsFiniteSet(T) /\ Cardinality(T) = n
  BY FS_Interval
<1>3. IsFiniteSet(S) /\ Cardinality(S) \in Nat /\ Cardinality(S \cap T) \in Nat
  BY IdsFinite
<1>4. Cardinality(S \cup T) = Cardinality(S) + Cardinality(T) - Cardinality(S \cap T)
  BY <1>2, <1>3, FS_Union
<1>5. Cardinality(S \cup T) <= Cardinality(S) + n
  BY <1>2, <1>3, <1>4
<1> QED BY <1>1, <1>5

\* Nothing was sent yet.
LEMMA InitIInv == Init => IInv
<1> SUFFICES ASSUME Init PROVE IInv
  OBVIOUS
<1>1. TypeOK
  BY FS_EmptySet DEF Init, TypeOK, Ids
<1>2. Cardinality(out_of_order) <= MaxOutOfOrder
  BY FS_EmptySet DEF Init
<1> QED BY <1>1, <1>2 DEF Init, IInv, Sent, BufferAhead, AckedIsHeld, AckIsHonest, DeliveredIsPast, InOrderOnce

\* send gives out the next n identifiers; some or none of them reach the network.
LEMMA RegisterIInv ==
    ASSUME IInv, NEW n \in Nat, n <= Room, next_send_id + n <= MaxSends, Register(n),
           flight' \subseteq flight \cup (next_send_id .. next_send_id + n - 1)
    PROVE  IInv'
<1>1. next_send_id \in Nat /\ next_recv_id \in Nat /\ pending \subseteq Ids
  BY DEF IInv, TypeOK
<1>2. Cardinality(pending) \in Nat
  BY <1>1, IdsFinite
<1>3. pending' \subseteq Ids /\ Cardinality(pending') <= SendWindow
  <2>1. Cardinality(pending') <= Cardinality(pending) + n /\ pending' \subseteq Ids
    BY <1>1, AddRun DEF Register
  <2>2. Cardinality(pending') \in Nat
    BY <2>1, IdsFinite
  <2> QED BY <1>2, <2>1, <2>2 DEF Room
<1>4. TypeOK'
  <2>1. next_send_id' \in 0 .. MaxSends
    BY <1>1 DEF Register
  <2>2. flight' \subseteq Ids
    BY <1>1 DEF IInv, TypeOK, Ids
  <2> QED BY <1>3, <2>1, <2>2 DEF IInv, TypeOK, Register, recvVars
<1>5. Sent' /\ BufferAhead'
  BY <1>1 DEF IInv, Sent, BufferAhead, Register, recvVars
<1>6. AckedIsHeld'
  BY <1>1 DEF IInv, AckedIsHeld, Register, recvVars
<1>7. AckIsHonest' /\ DeliveredIsPast' /\ InOrderOnce'
  BY DEF IInv, AckIsHonest, DeliveredIsPast, InOrderOnce, Register, recvVars
<1> QED BY <1>4, <1>5, <1>6, <1>7 DEF IInv

\* create_control_packets, whether the window takes the flight or not.
LEMMA SendIInv ==
    ASSUME IInv, NEW n \in 1 .. MaxBatch, Send(n) \/ SendWindowFull(n)
    PROVE  IInv'
<1>1. CASE Send(n)
  BY <1>1, RegisterIInv DEF Send
<1>2. CASE SendWindowFull(n)
  <2>1. Cardinality(pending) \in Nat /\ Cardinality(pending) <= SendWindow /\ next_send_id \in Nat
    BY IdsFinite DEF IInv, TypeOK
  <2>2. Room \in Nat /\ next_send_id + Room <= MaxSends
    BY <1>2, <2>1 DEF SendWindowFull, Room
  <2> QED BY <1>2, <2>2, RegisterIInv DEF SendWindowFull
<1> QED BY <1>1, <1>2

\* get_retransmits puts on the network what is pending.
LEMMA RetransmitIInv ==
    ASSUME IInv, NEW due \in SUBSET pending, Retransmit(due)
    PROVE  IInv'
<1>1. retransmits' \in [Ids -> 0 .. MaxRetransmits]
  BY DEF IInv, TypeOK, Retransmit
<1>2. TypeOK'
  BY <1>1 DEF IInv, TypeOK, Retransmit, recvVars
<1>3. Sent' /\ BufferAhead' /\ AckedIsHeld'
  BY DEF IInv, Sent, BufferAhead, AckedIsHeld, Retransmit, recvVars
<1>4. AckIsHonest' /\ DeliveredIsPast' /\ InOrderOnce'
  BY DEF IInv, AckIsHonest, DeliveredIsPast, InOrderOnce, Retransmit, recvVars
<1> QED BY <1>2, <1>3, <1>4 DEF IInv

\* process_acks forgets a packet that the receiver holds or has refused.
LEMMA AckIInv == ASSUME IInv, NEW id \in ackFlight, process_acks(id) PROVE IInv'
<1>1. TypeOK'
  <2>1. pending' \subseteq pending /\ pending \subseteq Ids /\ IsFiniteSet(pending)
    BY IdsFinite DEF process_acks, IInv, TypeOK
  <2>2. Cardinality(pending') <= Cardinality(pending)
    BY <2>1, FS_Subset
  <2>3. Cardinality(pending') \in Nat /\ Cardinality(pending) \in Nat
    BY <2>1, IdsFinite
  <2> QED BY <2>1, <2>2, <2>3 DEF IInv, TypeOK, process_acks, recvVars
<1>2. id < next_recv_id \/ id \in out_of_order \cup refused
  BY DEF IInv, AckIsHonest
<1>3. AckedIsHeld'
  BY <1>2 DEF IInv, AckedIsHeld, process_acks, recvVars
<1>4. Sent' /\ BufferAhead' /\ AckIsHonest' /\ DeliveredIsPast' /\ InOrderOnce'
  BY DEF IInv, Sent, BufferAhead, AckIsHonest, DeliveredIsPast, InOrderOnce, process_acks, recvVars
<1> QED BY <1>1, <1>3, <1>4 DEF IInv

\* receive of the expected packet: the drained packets lie behind the new
\* next_recv_id, the others beyond it.
LEMMA ExpectedIInv == ASSUME IInv, NEW id \in flight, ReceiveExpected(id) PROVE IInv'
<1>1. PICK m \in id + 1 .. MaxSends :
         /\ DrainsTo(id + 1, m)
         /\ next_recv_id' = m
         /\ out_of_order' = out_of_order \ (id + 1 .. m - 1)
  BY DEF ReceiveExpected
<1>2. /\ id = next_recv_id /\ id \in Ids /\ id \in Nat /\ id < next_send_id
      /\ next_send_id \in Nat /\ m \in Nat /\ m > id
  BY <1>1 DEF ReceiveExpected, IInv, TypeOK, Sent, Ids
<1>3. /\ UNCHANGED <<next_send_id, pending, retransmits, flight, ackFlight, refused>>
      /\ delivered' = Append(delivered, id)
      /\ pending_acks' = pending_acks \cup {id}
  BY DEF ReceiveExpected, sendVars
<1>4. m <= next_send_id
  <2>1. CASE m = id + 1
    BY <1>2, <2>1
  <2>2. CASE m # id + 1
    <3>1. m - 1 \in out_of_order
      BY <1>1, <1>2, <2>2 DEF DrainsTo
    <3> QED BY <1>2, <3>1 DEF IInv, BufferAhead
  <2> QED BY <2>1, <2>2
<1>5. TypeOK'
  <2>1. out_of_order' \subseteq Ids
    BY <1>1 DEF IInv, TypeOK
  <2>2. next_recv_id' \in 0 .. MaxSends
    BY <1>1, <1>2
  <2>3. delivered' \in Seq(Ids)
    BY <1>2, <1>3 DEF IInv, TypeOK
  <2> QED BY <1>2, <1>3, <2>1, <2>2, <2>3 DEF IInv, TypeOK
<1>6. Sent'
  BY <1>1, <1>3, <1>4 DEF IInv, Sent
<1>7. BufferAhead'
  <2>1. out_of_order' \subseteq out_of_order /\ out_of_order \subseteq Ids /\ IsFiniteSet(out_of_order)
    BY <1>1, IdsFinite DEF IInv, TypeOK
  <2>2. Cardinality(out_of_order') <= Cardinality(out_of_order)
    BY <2>1, FS_Subset
  <2>3. Cardinality(out_of_order') \in Nat /\ Cardinality(out_of_order) \in Nat
    BY <2>1, IdsFinite
  <2>4. Cardinality(out_of_order') <= MaxOutOfOrder
    BY <2>2, <2>3 DEF IInv, BufferAhead
  <2>5. out_of_order' \subseteq next_recv_id' + 1 .. next_send_id' - 1
    BY <1>1, <1>2, <1>3 DEF IInv, BufferAhead, DrainsTo
  <2> QED BY <2>4, <2>5 DEF BufferAhead
<1>8. AckedIsHeld'
  BY <1>1, <1>2, <1>3 DEF IInv, AckedIsHeld
<1>9. AckIsHonest'
  <2>1. \A i \in pending_acks \cup ackFlight : i \in Int
    BY DEF IInv, TypeOK, Ids
  <2> QED BY <1>1, <1>2, <1>3, <2>1 DEF IInv, AckIsHonest
<1>10. DeliveredIsPast' /\ InOrderOnce'
  <2>1. delivered \in Seq(Ids) /\ \A i \in DOMAIN delivered : delivered[i] \in Int /\ delivered[i] < id
    BY <1>2 DEF IInv, TypeOK, DeliveredIsPast, Ids
  <2>2. /\ DOMAIN delivered = 1 .. Len(delivered) /\ Len(delivered) \in Nat
        /\ DOMAIN delivered' = 1 .. Len(delivered) + 1
        /\ \A i \in DOMAIN delivered : delivered'[i] = delivered[i]
        /\ delivered'[Len(delivered) + 1] = id
    BY <1>2, <1>3, <2>1
  <2>3. DeliveredIsPast'
    BY <1>1, <1>2, <2>1, <2>2 DEF DeliveredIsPast
  <2>4. InOrderOnce'
    BY <1>2, <2>1, <2>2 DEF IInv, InOrderOnce
  <2> QED BY <2>3, <2>4
<1> QED BY <1>5, <1>6, <1>7, <1>8, <1>9, <1>10 DEF IInv

\* receive ahead of the expected packet: buffered, or refused and acknowledged
\* all the same.
LEMMA AheadIInv == ASSUME IInv, NEW id \in flight, ReceiveAhead(id) PROVE IInv'
<1>1. /\ id \in Ids /\ id \in Nat /\ id > next_recv_id /\ id < next_send_id /\ next_recv_id \in Nat
      /\ UNCHANGED <<next_send_id, pending, retransmits, next_recv_id, delivered, flight, ackFlight>>
      /\ pending_acks' = pending_acks \cup {id}
  BY DEF ReceiveAhead, IInv, TypeOK, Sent, Ids, sendVars
<1>2. /\ out_of_order' \subseteq out_of_order \cup {id}
      /\ out_of_order \subseteq out_of_order' /\ refused \subseteq refused'
      /\ refused' \subseteq refused \cup {id}
      /\ id \in out_of_order' \cup refused'
  BY DEF ReceiveAhead
<1>3. Cardinality(out_of_order') <= MaxOutOfOrder
  <2>1. IsFiniteSet(out_of_order) /\ Cardinality(out_of_order) \in Nat
    BY IdsFinite DEF IInv, TypeOK
  <2>2. CASE Cardinality(out_of_order) >= MaxOutOfOrder
    BY <2>2 DEF ReceiveAhead, IInv, BufferAhead
  <2>3. CASE ~(Cardinality(out_of_order) >= MaxOutOfOrder)
    <3>1. out_of_order' = out_of_order \cup {id}
      BY <2>3 DEF ReceiveAhead
    <3>2. Cardinality(out_of_order') =
             IF id \in out_of_order THEN Cardinality(out_of_order) ELSE Cardinality(out_of_order) + 1
      BY <2>1, <3>1, FS_AddElement
    <3> QED BY <2>1, <2>3, <3>2
  <2> QED BY <2>2, <2>3
<1>4. TypeOK'
  BY <1>1, <1>2 DEF IInv, TypeOK
<1>5. Sent' /\ DeliveredIsPast' /\ InOrderOnce'
  BY <1>1 DEF IInv, Sent, DeliveredIsPast, InOrderOnce
<1>6. BufferAhead'
  BY <1>1, <1>2, <1>3 DEF IInv, BufferAhead, Sent, TypeOK
<1>7. AckedIsHeld' /\ AckIsHonest'
  BY <1>1, <1>2 DEF IInv, AckedIsHeld, AckIsHonest
<1> QED BY <1>4, <1>5, <1>6, <1>7 DEF IInv

\* receive of a packet that was passed already.
LEMMA DuplicateIInv == ASSUME IInv, NEW id \in flight, ReceiveDuplicate(id) PROVE IInv'
<1>1. id \in Ids /\ id < next_recv_id /\ pending_acks' = pending_acks \cup {id}
  BY DEF ReceiveDuplicate, IInv, TypeOK
<1>2. TypeOK' /\ AckIsHonest'
  BY <1>1 DEF IInv, TypeOK, AckIsHonest, ReceiveDuplicate, sendVars
<1>3. Sent' /\ BufferAhead' /\ AckedIsHeld' /\ DeliveredIsPast' /\ InOrderOnce'
  BY DEF IInv, Sent, BufferAhead, AckedIsHeld, DeliveredIsPast, InOrderOnce, ReceiveDuplicate, sendVars
<1> QED BY <1>2, <1>3 DEF IInv

\* get_acks
LEMMA SendAcksIInv == IInv /\ SendAcks => IInv'
BY DEF IInv, TypeOK, Sent, BufferAhead, AckedIsHeld, AckIsHonest, DeliveredIsPast, InOrderOnce,
       SendAcks, sendVars

\* Every step keeps the invariant.
LEMMA NextIInv == IInv /\ [Next]_vars => IInv'
<1> SUFFICES ASSUME IInv, [Next]_vars PROVE IInv'
  OBVIOUS
<1>1. CASE Next
  BY <1>1, SendIInv, RetransmitIInv, AckIInv, ExpectedIInv, AheadIInv, DuplicateIInv, SendAcksIInv DEF Next
<1>2. CASE UNCHANGED vars
  BY <1>2 DEF vars, sendVars, recvVars, IInv, TypeOK, Sent, BufferAhead, AckedIsHeld, AckIsHonest,
              DeliveredIsPast, InOrderOnce
<1> QED BY <1>1, <1>2

\* The inductive invariant holds throughout.
THEOREM Invariance == Spec => []IInv
BY InitIInv, NextIInv, PTL DEF Spec

\* The send window and the retransmission counters stay within their limits.
THEOREM TypeCorrect == Spec => []TypeOK
<1>1. IInv => TypeOK
  BY DEF IInv
<1> QED BY <1>1, Invariance, PTL

\* receive hands control packets to TLS in the order of their identifiers, none
\* of them twice.
THEOREM InOrderDelivery == Spec => []InOrderOnce
<1>1. IInv => InOrderOnce
  BY DEF IInv
<1> QED BY <1>1, Invariance, PTL

\* process_acks forgets a packet only if the receiver has it or has gone past
\* it, or refused it for want of room.
THEOREM AckSafety == Spec => []AckedIsHeld
<1>1. IInv => AckedIsHeld
  BY DEF IInv
<1> QED BY <1>1, Invariance, PTL

\* out_of_order holds nothing but packets that were sent and are still ahead,
\* and no more than MAX_OUT_OF_ORDER of them.
THEOREM BufferSafety == Spec => []BufferAhead
<1>1. IInv => BufferAhead
  BY DEF IInv
<1> QED BY <1>1, Invariance, PTL
=============================================================================
