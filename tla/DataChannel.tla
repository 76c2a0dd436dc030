---------------------------- MODULE DataChannel -----------------------------
(***************************************************************************)
(* One direction of the data plane of two ProtocolSessions: the sender's   *)
(* encrypt_data / DataChannel::encrypt / PacketCipher::encrypt, a UDP      *)
(* network that loses, duplicates and reorders datagrams, and the          *)
(* receiver's process_data_packet / DataChannel::decrypt /                 *)
(* PacketCipher::decrypt.  The two directions share nothing but the key    *)
(* identifier, so one of them is enough.                                   *)
(*                                                                         *)
(* A session holds one data channel per key identifier.  Key material is a *)
(* positive number, the number of the key exchange that produced it; 0 in  *)
(* a slot means that no keys were installed there.                         *)
(***************************************************************************)
EXTENDS ReplayWindow

CONSTANTS NumKeyIds,    \* 8 in the code: the key identifier has three bits
          MaxCounter,   \* u32::MAX in the code
          MaxKeys,      \* bound on the number of key exchanges
          Payloads      \* what can be encrypted

ASSUME NumKeyIdsAssumption == NumKeyIds \in Nat \ {0}
ASSUME MaxCounterAssumption == MaxCounter \in Nat
ASSUME MaxKeysAssumption == MaxKeys \in Nat

KeyIds == 0 .. NumKeyIds - 1

VARIABLES txCur,      \* sender: current_key_id
          txKey,      \* sender: key material of each data channel
          txCounter,  \* sender: tx_counter of each data channel
          txLast,     \* sender: last key exchange it took part in
          rxCur,      \* receiver: current_key_id
          rxKey,      \* receiver: key material of each data channel
          rxWindow,   \* receiver: rx_window of each data channel
          rxLast,     \* receiver: last key exchange it took part in
          sealed,     \* history: every packet encrypted; any may arrive, again and again
          seen,       \* history: identifiers each rx_window has accepted
          delivered,  \* history: packets handed to the tunnel
          deliveries  \* history: how many packets were handed to the tunnel

txVars == <<txCur, txKey, txCounter, txLast>>
rxVars == <<rxCur, rxKey, rxWindow, rxLast, seen>>
outVars == <<delivered, deliveries>>
vars == <<txVars, rxVars, sealed, outVars>>

Packets == [keyId : KeyIds, key : 1 .. MaxKeys, id : 1 .. MaxCounter, data : Payloads]

TypeOK ==
    /\ txCur \in KeyIds
    /\ txKey \in [KeyIds -> 0 .. MaxKeys]
    /\ txCounter \in [KeyIds -> 0 .. MaxCounter]
    /\ txLast \in 0 .. MaxKeys
    /\ rxCur \in KeyIds
    /\ rxKey \in [KeyIds -> 0 .. MaxKeys]
    /\ rxWindow \in [KeyIds -> Window]
    /\ rxLast \in 0 .. MaxKeys
    /\ sealed \in SUBSET Packets
    /\ seen \in [KeyIds -> SUBSET (1 .. MaxCounter)]
    /\ delivered \in SUBSET sealed
    /\ deliveries \in Nat

\* new_server / new_client: no data channel yet, key identifier 0.
Init ==
    /\ txCur = 0
    /\ txKey = [i \in KeyIds |-> 0]
    /\ txCounter = [i \in KeyIds |-> 0]
    /\ txLast = 0
    /\ rxCur = 0
    /\ rxKey = [i \in KeyIds |-> 0]
    /\ rxWindow = [i \in KeyIds |-> NewWindow]
    /\ rxLast = 0
    /\ sealed = {}
    /\ seen = [i \in KeyIds |-> {}]
    /\ delivered = {}
    /\ deliveries = 0

-----------------------------------------------------------------------------
\* Mutant of NextKeyId: the three-bit mask is missing.
NextKeyIdUnmasked(i) == i + 1

NextKeyId(i) == (i + 1) % NumKeyIds

\* install_keys at the sender: a new channel, its counter at 0, replaces the
\* one in the slot of the current key identifier.
InstallTx ==
    /\ \E k \in txLast + 1 .. MaxKeys :
        /\ txLast' = k
        /\ txKey' = [txKey EXCEPT ![txCur] = k]
    /\ txCounter' = [txCounter EXCEPT ![txCur] = 0]
    /\ UNCHANGED <<txCur, rxVars, sealed, outVars>>

\* install_keys at the receiver: the new channel has an empty window.
InstallRx ==
    /\ \E k \in rxLast + 1 .. MaxKeys :
        /\ rxLast' = k
        /\ rxKey' = [rxKey EXCEPT ![rxCur] = k]
    /\ rxWindow' = [rxWindow EXCEPT ![rxCur] = NewWindow]
    /\ seen' = [seen EXCEPT ![rxCur] = {}]
    /\ UNCHANGED <<rxCur, txVars, sealed, outVars>>

\* rotate_key on either side.
RotateTx ==
    /\ txCur' = NextKeyId(txCur)
    /\ UNCHANGED <<txKey, txCounter, txLast, rxVars, sealed, outVars>>

RotateRx ==
    /\ rxCur' = NextKeyId(rxCur)
    /\ UNCHANGED <<rxKey, rxWindow, rxLast, seen, txVars, sealed, outVars>>

\* Mutant of Encrypt: wrapping_add in place of checked_add.
EncryptWrapping(d) ==
    LET id == (txCounter[txCur] % MaxCounter) + 1
    IN  /\ txKey[txCur] # 0
        /\ txCounter' = [txCounter EXCEPT ![txCur] = id]
        /\ sealed' = sealed \cup {[keyId |-> txCur, key |-> txKey[txCur],
                                   id |-> id, data |-> d]}
        /\ UNCHANGED <<txCur, txKey, txLast, rxVars, outVars>>

\* encrypt_data: KeyNotAvailable without a channel, an error when the counter
\* would overflow, otherwise a packet sealed under the incremented counter.
Encrypt(d) ==
    /\ txKey[txCur] # 0
    /\ txCounter[txCur] < MaxCounter
    /\ txCounter' = [txCounter EXCEPT ![txCur] = @ + 1]
    /\ sealed' = sealed \cup {[keyId |-> txCur, key |-> txKey[txCur],
                               id |-> txCounter[txCur] + 1, data |-> d]}
    /\ UNCHANGED <<txCur, txKey, txLast, rxVars, outVars>>

\* The receiver's window is consulted, and updated, before the AEAD tag is
\* verified.
CheckReplay(slot, id) ==
    /\ rxKey[slot] # 0
    /\ Accepts(rxWindow[slot], id)
    /\ rxWindow' = [rxWindow EXCEPT ![slot] = check_and_update(@, id)]
    /\ seen' = [seen EXCEPT ![slot] = @ \cup {id}]
    /\ UNCHANGED <<rxCur, rxKey, rxLast>>

\* process_data_packet on a datagram of the peer, under whatever keys the slot
\* now holds: it is handed to the tunnel when the tag verifies.
Decrypt(p) ==
    /\ CheckReplay(p.keyId, p.id)
    /\ IF rxKey[p.keyId] = p.key
       THEN /\ delivered' = delivered \cup {p}
            /\ deliveries' = deliveries + 1
       ELSE UNCHANGED outVars
    /\ UNCHANGED <<txVars, sealed>>

\* process_data_packet on a datagram damaged on the way, or not of this peer:
\* no key verifies it, and its identifier is any u32.
DecryptDamaged(slot, id) ==
    /\ CheckReplay(slot, id)
    /\ UNCHANGED <<txVars, sealed, outVars>>

Next ==
    \/ InstallTx
    \/ InstallRx
    \/ RotateTx
    \/ RotateRx
    \/ \E d \in Payloads : Encrypt(d)
    \/ \E p \in sealed : Decrypt(p)
    \/ \E slot \in KeyIds, id \in 0 .. MaxCounter : DecryptDamaged(slot, id)

Spec == Init /\ [][Next]_vars

-----------------------------------------------------------------------------
(***************************************************************************)
(* PacketCipher::encrypt counts up from 0 and refuses to wrap, and         *)
(* install_keys never brings back old key material: the pair of key and    *)
(* packet identifier, hence the AEAD nonce, is used for one packet only,   *)
(* through every rotation of the eight slots.                              *)
(***************************************************************************)
NonceUnique ==
    \A p, q \in sealed : p.key = q.key /\ p.id = q.id => p = q

(***************************************************************************)
(* ReplayWindow::check_and_update against its reference: every identifier  *)
(* gets the verdict its history calls for, whatever jumps, stragglers and  *)
(* duplicates the window has gone through since its keys were installed.   *)
(***************************************************************************)
WindowExact ==
    \A slot \in KeyIds :
        /\ Highest(rxWindow[slot], seen[slot])
        /\ Remembers(rxWindow[slot], seen[slot], 0 .. MaxCounter)

(***************************************************************************)
(* The data channel implements a channel that seals each nonce once and    *)
(* delivers each packet at most once, although datagrams are duplicated,   *)
(* arrive after the keys of their slot were replaced, or are damaged.      *)
(***************************************************************************)
Abstract == INSTANCE AtMostOnceChannel
              WITH sealed <- sealed, delivered <- delivered, deliveries <- deliveries

DeliversAtMostOnce == Abstract!Spec
=============================================================================
