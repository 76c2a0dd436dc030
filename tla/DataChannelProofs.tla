-------------------------- MODULE DataChannelProofs -------------------------
(***************************************************************************)
(* The data channel for every window width, number of slots, counter limit *)
(* and number of key exchanges.                                            *)
(***************************************************************************)
EXTENDS DataChannel, TLAPS

-----------------------------------------------------------------------------
(***************************************************************************)
(* What check_and_update does to the set of identifiers a window stands    *)
(* for, for every width of the bitmap.                                     *)
(***************************************************************************)
\* The window w is the image of the set s of accepted identifiers.
Represents(w, s) ==
    /\ w \in Window
    /\ s \in SUBSET (Nat \ {0})
    /\ Highest(w, s)
    /\ \A b \in Bits : b \in w.bitmap <=> w.highest - b \in s

\* ReplayWindow::new: the empty window stands for the empty set.
LEMMA NewWindowRepresents == Represents(NewWindow, {})
BY WindowSizeAssumption DEF Represents, NewWindow, Window, Bits, Highest

\* check_and_update accepts an identifier exactly when it is valid, was not
\* accepted before and lies within the last WindowSize ones or ahead of them.
LEMMA AcceptsExactly ==
    ASSUME NEW w, NEW s, Represents(w, s), NEW id \in Nat
    PROVE  Accepts(w, id) <=> id # 0 /\ id \notin s /\ id + WindowSize > w.highest
<1>1. w.highest \in Nat /\ w.bitmap \in SUBSET Bits
  BY DEF Represents, Window
<1>2. CASE id > w.highest
  BY <1>1, <1>2, WindowSizeAssumption DEF Accepts, Represents, Highest
<1>3. CASE id <= w.highest /\ w.highest - id < WindowSize
  <2>1. w.highest - id \in Bits
    BY <1>1, <1>3, WindowSizeAssumption DEF Bits
  <2>2. w.highest - id \in w.bitmap <=> id \in s
    <3>1. w.highest - (w.highest - id) = id
      BY <1>1
    <3> QED BY <2>1, <3>1 DEF Represents
  <2> QED BY <1>1, <1>3, <2>2, WindowSizeAssumption DEF Accepts
<1>4. CASE id <= w.highest /\ ~(w.highest - id < WindowSize)
  BY <1>1, <1>4, WindowSizeAssumption DEF Accepts
<1> QED BY <1>1, <1>2, <1>3, <1>4

\* After check_and_update has accepted id the window stands for the set with
\* id in it: shifting loses nothing that is still inside the window.
LEMMA MarkRepresents ==
    ASSUME NEW w, NEW s, Represents(w, s), NEW id \in Nat, Accepts(w, id)
    PROVE  Represents(Mark(w, id), s \cup {id})
<1>1. w.highest \in Nat /\ w.bitmap \in SUBSET Bits /\ w \in Window
  BY DEF Represents, Window
<1>2. id # 0
  BY DEF Accepts
<1>s. /\ s \in SUBSET (Nat \ {0})
      /\ \A i \in s : i <= w.highest
      /\ \A b \in Bits : b \in w.bitmap <=> w.highest - b \in s
  BY DEF Represents, Highest
<1>3. CASE id > w.highest /\ id - w.highest >= WindowSize
  <2>1. Mark(w, id) = [highest |-> id, bitmap |-> {0}]
    BY <1>3 DEF Mark
  <2>2. \A b \in Bits : b # 0 => id - b \notin s \cup {id}
    BY <1>1, <1>s, <1>3, WindowSizeAssumption DEF Bits
  <2> QED BY <1>1, <1>2, <1>s, <1>3, <2>1, <2>2, WindowSizeAssumption
          DEF Represents, Window, Highest, Bits
<1>4. CASE id > w.highest /\ ~(id - w.highest >= WindowSize)
  <2> DEFINE d == id - w.highest
  <2>1. Mark(w, id) = [highest |-> id, bitmap |-> ShiftLeft(w.bitmap, d) \cup {0}]
    BY <1>4 DEF Mark
  <2>2. d \in 1 .. WindowSize - 1
    BY <1>1, <1>4, WindowSizeAssumption
  <2>3. ASSUME NEW b \in Bits
        PROVE  b \in ShiftLeft(w.bitmap, d) \cup {0} <=> id - b \in s \cup {id}
    <3>1. CASE b = 0
      BY <3>1, <1>1
    <3>2. CASE b # 0 /\ b < d
      BY <3>2, <1>1, <1>s, <2>2 DEF ShiftLeft, Bits
    <3>3. CASE b # 0 /\ b >= d
      <4>1. b - d \in Bits
        BY <3>3, <2>2, <1>1, WindowSizeAssumption DEF Bits
      <4>2. w.highest - (b - d) = id - b
        BY <1>1, <2>2 DEF Bits
      <4>3. b - d \in w.bitmap <=> id - b \in s
        BY <4>1, <4>2, <1>s
      <4> QED BY <4>3, <3>3, <1>1, <2>2 DEF ShiftLeft, Bits
    <3> QED BY <3>1, <3>2, <3>3, <2>2 DEF Bits
  <2>4. ShiftLeft(w.bitmap, d) \cup {0} \in SUBSET Bits
    BY WindowSizeAssumption DEF ShiftLeft, Bits
  <2> HIDE DEF d
  <2> QED BY <1>1, <1>2, <1>s, <1>4, <2>1, <2>3, <2>4 DEF Represents, Window, Highest
<1>5. CASE ~(id > w.highest)
  <2> DEFINE d == w.highest - id
  <2>1. d \in Bits
    BY <1>1, <1>5, WindowSizeAssumption DEF Accepts, Bits
  <2>2. Mark(w, id) = [w EXCEPT !.bitmap = @ \cup {d}]
    BY <1>5 DEF Mark
  <2>3. /\ Mark(w, id).highest = w.highest
        /\ Mark(w, id).bitmap = w.bitmap \cup {d}
        /\ Mark(w, id) \in Window
    BY <1>1, <2>1, <2>2 DEF Window
  <2>4. \A b \in Bits : b = d <=> w.highest - b = id
    BY <1>1 DEF Bits
  <2>5. Highest(w, s)
    BY DEF Represents
  <2> HIDE DEF d
  <2> QED BY <1>1, <1>2, <1>s, <1>5, <2>3, <2>4, <2>5 DEF Represents, Highest
<1> QED BY <1>3, <1>4, <1>5

-----------------------------------------------------------------------------
(***************************************************************************)
(* The two ends of the channel.                                            *)
(***************************************************************************)
\* Two slots hold the same key material only when neither was filled.
Distinct(key) == \A i, j \in KeyIds : key[i] = key[j] /\ key[i] # 0 => i = j

\* Nothing was sealed beyond the counter of the channel that holds its key,
\* nor under a key exchange that is yet to come.
SenderInv ==
    /\ Distinct(txKey)
    /\ \A i \in KeyIds : txKey[i] <= txLast
    /\ \A p \in sealed : p.key <= txLast
    /\ \A p \in sealed, i \in KeyIds : txKey[i] = p.key => p.id <= txCounter[i]

\* The window of a slot remembers every packet delivered under its key.
ReceiverInv ==
    /\ Distinct(rxKey)
    /\ \A i \in KeyIds : rxKey[i] <= rxLast
    /\ \A p \in delivered : p.key <= rxLast
    /\ \A p \in delivered, i \in KeyIds : rxKey[i] = p.key => p.id \in seen[i]
    /\ \A i \in KeyIds : Represents(rxWindow[i], seen[i])

IInv ==
    /\ TypeOK
    /\ SenderInv
    /\ ReceiverInv
    /\ NonceUnique

USE NumKeyIdsAssumption, MaxCounterAssumption, MaxKeysAssumption, WindowSizeAssumption

\* A session starts without keys, so nothing was sealed or delivered.
LEMMA InitIInv == Init => IInv
<1> SUFFICES ASSUME Init PROVE IInv
  OBVIOUS
<1>1. 0 \in KeyIds /\ 0 \in 0 .. MaxKeys /\ 0 \in 0 .. MaxCounter
  BY DEF KeyIds
<1>2. NewWindow \in Window
  BY NewWindowRepresents DEF Represents
<1>3. TypeOK
  BY <1>1, <1>2 DEF Init, TypeOK
<1>4. SenderInv
  BY <1>1 DEF Init, SenderInv, Distinct
<1>5. ReceiverInv
  BY <1>1, NewWindowRepresents DEF Init, ReceiverInv, Distinct
<1>6. NonceUnique
  BY DEF Init, NonceUnique
<1> QED BY <1>3, <1>4, <1>5, <1>6 DEF IInv

\* install_keys at the sender puts unused key material in one slot.
LEMMA InstallTxIInv == IInv /\ InstallTx => IInv'
<1> SUFFICES ASSUME IInv, InstallTx PROVE IInv'
  OBVIOUS
<1>1. PICK k \in txLast + 1 .. MaxKeys :
        txLast' = k /\ txKey' = [txKey EXCEPT ![txCur] = k]
  BY DEF InstallTx
<1>2. /\ txCounter' = [txCounter EXCEPT ![txCur] = 0]
      /\ UNCHANGED <<txCur, rxVars, sealed, outVars>>
  BY DEF InstallTx
<1>3. k \in 1 .. MaxKeys /\ k > txLast /\ txLast \in 0 .. MaxKeys
  BY DEF IInv, TypeOK
<1>4. TypeOK'
  BY <1>1, <1>2, <1>3 DEF IInv, TypeOK, rxVars, outVars
<1>5. SenderInv'
  BY <1>1, <1>2, <1>3 DEF IInv, TypeOK, SenderInv, Distinct, Packets
<1>6. ReceiverInv'
  BY <1>2 DEF IInv, ReceiverInv, Distinct, rxVars, outVars
<1>7. NonceUnique'
  BY <1>2 DEF IInv, NonceUnique
<1> QED BY <1>4, <1>5, <1>6, <1>7 DEF IInv

\* install_keys at the receiver starts a slot afresh: no packet was delivered
\* under the new key material, so forgetting seen identifiers is harmless.
LEMMA InstallRxIInv == IInv /\ InstallRx => IInv'
<1> SUFFICES ASSUME IInv, InstallRx PROVE IInv'
  OBVIOUS
<1>1. PICK k \in rxLast + 1 .. MaxKeys :
        rxLast' = k /\ rxKey' = [rxKey EXCEPT ![rxCur] = k]
  BY DEF InstallRx
<1>2. /\ rxWindow' = [rxWindow EXCEPT ![rxCur] = NewWindow]
      /\ seen' = [seen EXCEPT ![rxCur] = {}]
      /\ UNCHANGED <<rxCur, txVars, sealed, outVars>>
  BY DEF InstallRx
<1>3. k \in 1 .. MaxKeys /\ k > rxLast /\ rxLast \in 0 .. MaxKeys
  BY DEF IInv, TypeOK
<1>4. NewWindow \in Window
  BY NewWindowRepresents DEF Represents
<1>5. TypeOK'
  BY <1>1, <1>2, <1>3, <1>4 DEF IInv, TypeOK, txVars, outVars
<1>6. SenderInv'
  BY <1>2 DEF IInv, SenderInv, Distinct, txVars
<1>7. ReceiverInv'
  <2>1. delivered' = delivered /\ delivered \subseteq sealed /\ sealed \subseteq Packets
    BY <1>2 DEF IInv, TypeOK, outVars
  <2>2. \A i \in KeyIds : Represents(rxWindow'[i], seen'[i])
    BY <1>2, NewWindowRepresents DEF IInv, TypeOK, ReceiverInv
  <2>3. \A p \in delivered, i \in KeyIds : rxKey'[i] = p.key => p.id \in seen'[i]
    BY <1>1, <1>2, <1>3, <2>1 DEF IInv, TypeOK, ReceiverInv, Packets
  <2>4. Distinct(rxKey)'
    BY <1>1, <1>3 DEF IInv, TypeOK, ReceiverInv, Distinct
  <2>5. (\A i \in KeyIds : rxKey[i] <= rxLast)' /\ (\A p \in delivered : p.key <= rxLast)'
    BY <1>1, <1>3, <2>1 DEF IInv, TypeOK, ReceiverInv, Packets
  <2> QED BY <2>1, <2>2, <2>3, <2>4, <2>5 DEF ReceiverInv
<1>8. NonceUnique'
  BY <1>2 DEF IInv, NonceUnique
<1> QED BY <1>5, <1>6, <1>7, <1>8 DEF IInv

\* rotate_key only moves a current key identifier.
LEMMA RotateIInv == IInv /\ (RotateTx \/ RotateRx) => IInv'
<1> SUFFICES ASSUME IInv, RotateTx \/ RotateRx PROVE IInv'
  OBVIOUS
<1>1. \A i \in KeyIds : NextKeyId(i) \in KeyIds
  BY DEF KeyIds, NextKeyId
<1>2. UNCHANGED <<txKey, txCounter, txLast, rxKey, rxWindow, rxLast, seen, sealed,
                  delivered, deliveries>>
  BY DEF RotateTx, RotateRx, txVars, rxVars, outVars
<1>3. txCur' \in KeyIds /\ rxCur' \in KeyIds
  BY <1>1 DEF RotateTx, RotateRx, txVars, rxVars, IInv, TypeOK
<1>4. TypeOK'
  BY <1>2, <1>3 DEF IInv, TypeOK
<1>5. SenderInv' /\ ReceiverInv' /\ NonceUnique'
  BY <1>2 DEF IInv, SenderInv, ReceiverInv, NonceUnique, Distinct
<1> QED BY <1>4, <1>5 DEF IInv

\* PacketCipher::encrypt takes an identifier above all those its key has used.
LEMMA EncryptIInv == ASSUME NEW d \in Payloads, IInv, Encrypt(d) PROVE IInv'
<1> DEFINE p == [keyId |-> txCur, key |-> txKey[txCur],
                 id |-> txCounter[txCur] + 1, data |-> d]
<1>1. /\ txKey[txCur] \in 1 .. MaxKeys
      /\ txCounter[txCur] + 1 \in 1 .. MaxCounter
      /\ txCur \in KeyIds
  BY DEF Encrypt, IInv, TypeOK
<1>2. p \in Packets
  BY <1>1 DEF Packets
<1>3. /\ sealed' = sealed \cup {p}
      /\ txCounter' = [txCounter EXCEPT ![txCur] = @ + 1]
      /\ UNCHANGED <<txCur, txKey, txLast, rxVars, outVars>>
  BY DEF Encrypt
<1>4. p.key = txKey[txCur] /\ p.id = txCounter[txCur] + 1
  OBVIOUS
<1>5. \A q \in sealed : ~(q.key = p.key /\ q.id = p.id)
  BY <1>1, <1>4 DEF IInv, TypeOK, SenderInv, Packets
<1> HIDE DEF p
<1>6. TypeOK'
  BY <1>1, <1>2, <1>3 DEF IInv, TypeOK, rxVars, outVars
<1>7. SenderInv'
  <2>1. Distinct(txKey)' /\ (\A i \in KeyIds : txKey[i] <= txLast)'
    BY <1>3 DEF IInv, SenderInv, Distinct
  <2>2. (\A q \in sealed : q.key <= txLast)'
    BY <1>1, <1>3, <1>4 DEF IInv, SenderInv
  <2>3. ASSUME NEW q \in sealed', NEW i \in KeyIds, txKey'[i] = q.key
        PROVE  q.id <= txCounter'[i]
    <3>1. CASE q = p
      <4>1. i = txCur
        BY <1>1, <1>3, <1>4, <2>3, <3>1 DEF IInv, SenderInv, Distinct
      <4> QED BY <1>1, <1>3, <1>4, <3>1, <4>1 DEF IInv, TypeOK
    <3>2. CASE q \in sealed
      <4>1. q.id <= txCounter[i] /\ q.id \in Nat /\ txCounter[i] \in Nat
        BY <1>3, <2>3, <3>2 DEF IInv, TypeOK, SenderInv, Packets
      <4> QED BY <1>1, <1>3, <4>1 DEF IInv, TypeOK
    <3> QED BY <1>3, <3>1, <3>2
  <2> QED BY <2>1, <2>2, <2>3 DEF SenderInv
<1>8. ReceiverInv'
  BY <1>3 DEF IInv, ReceiverInv, Distinct, rxVars, outVars
<1>9. NonceUnique'
  BY <1>3, <1>5 DEF IInv, NonceUnique
<1> QED BY <1>6, <1>7, <1>8, <1>9 DEF IInv

\* The replay check keeps every window in step with what it has accepted.
LEMMA CheckReplayWindows ==
    ASSUME NEW slot \in KeyIds, NEW id \in 0 .. MaxCounter, IInv, CheckReplay(slot, id)
    PROVE  /\ rxWindow' \in [KeyIds -> Window]
           /\ seen' \in [KeyIds -> SUBSET (1 .. MaxCounter)]
           /\ \A i \in KeyIds : Represents(rxWindow'[i], seen'[i])
           /\ \A i \in KeyIds : seen[i] \subseteq seen'[i]
           /\ id \notin seen[slot] /\ id \in seen'[slot]
<1>1. /\ Accepts(rxWindow[slot], id)
      /\ rxWindow' = [rxWindow EXCEPT ![slot] = Mark(rxWindow[slot], id)]
      /\ seen' = [seen EXCEPT ![slot] = seen[slot] \cup {id}]
  BY DEF CheckReplay, check_and_update
<1>2. Represents(rxWindow[slot], seen[slot]) /\ id \in Nat
  BY DEF IInv, ReceiverInv
<1>3. Represents(Mark(rxWindow[slot], id), seen[slot] \cup {id})
  BY <1>1, <1>2, MarkRepresents
<1>4. id # 0 /\ id \notin seen[slot]
  BY <1>1, <1>2, AcceptsExactly
<1>5. Mark(rxWindow[slot], id) \in Window
  BY <1>3 DEF Represents
<1>6. rxWindow \in [KeyIds -> Window] /\ seen \in [KeyIds -> SUBSET (1 .. MaxCounter)]
  BY DEF IInv, TypeOK
<1>7. id \in 1 .. MaxCounter
  BY <1>4
<1>8. /\ rxWindow' \in [KeyIds -> Window]
      /\ seen' \in [KeyIds -> SUBSET (1 .. MaxCounter)]
  BY <1>1, <1>5, <1>6, <1>7
<1>9. \A i \in KeyIds : Represents(rxWindow'[i], seen'[i])
  BY <1>1, <1>3, <1>6 DEF IInv, ReceiverInv
<1>10. (\A i \in KeyIds : seen[i] \subseteq seen'[i]) /\ id \in seen'[slot]
  BY <1>1, <1>6
<1> QED BY <1>4, <1>8, <1>9, <1>10

\* PacketCipher::decrypt hands on only packets its window had not accepted.
LEMMA DecryptIInv ==
    ASSUME NEW p \in sealed, IInv, Decrypt(p)
    PROVE  IInv' /\ (rxKey[p.keyId] = p.key => p \notin delivered)
<1>1. p.keyId \in KeyIds /\ p.id \in 0 .. MaxCounter /\ p.key \in 1 .. MaxKeys
  BY DEF IInv, TypeOK, Packets
<1>2. CheckReplay(p.keyId, p.id) /\ UNCHANGED <<txVars, sealed>>
  BY DEF Decrypt
<1>3. UNCHANGED <<rxCur, rxKey, rxLast, txCur, txKey, txCounter, txLast, sealed>>
  BY <1>2 DEF CheckReplay, txVars
<1>4. \/ rxKey[p.keyId] = p.key /\ delivered' = delivered \cup {p} /\ deliveries' = deliveries + 1
      \/ rxKey[p.keyId] # p.key /\ delivered' = delivered /\ deliveries' = deliveries
  BY DEF Decrypt, outVars
<1>5. /\ rxWindow' \in [KeyIds -> Window]
      /\ seen' \in [KeyIds -> SUBSET (1 .. MaxCounter)]
      /\ \A i \in KeyIds : Represents(rxWindow'[i], seen'[i])
      /\ \A i \in KeyIds : seen[i] \subseteq seen'[i]
      /\ p.id \notin seen[p.keyId] /\ p.id \in seen'[p.keyId]
  BY <1>1, <1>2, CheckReplayWindows
<1>6. TypeOK'
  BY <1>3, <1>4, <1>5 DEF IInv, TypeOK
<1>7. SenderInv' /\ NonceUnique'
  BY <1>3 DEF IInv, SenderInv, NonceUnique, Distinct
<1>8. ReceiverInv'
  <2>1. Distinct(rxKey)' /\ (\A i \in KeyIds : rxKey[i] <= rxLast)'
    BY <1>3 DEF IInv, ReceiverInv, Distinct
  <2>2. (\A q \in delivered : q.key <= rxLast)'
    BY <1>1, <1>3, <1>4 DEF IInv, ReceiverInv
  <2>3. ASSUME NEW q \in delivered', NEW i \in KeyIds, rxKey'[i] = q.key
        PROVE  q.id \in seen'[i]
    <3>1. CASE q \in delivered
      BY <1>3, <1>5, <2>3, <3>1 DEF IInv, ReceiverInv
    <3>2. CASE q \notin delivered
      <4>1. q = p /\ rxKey[p.keyId] = p.key
        BY <1>4, <3>2
      <4>2. i = p.keyId
        BY <1>1, <1>3, <2>3, <4>1 DEF IInv, ReceiverInv, Distinct
      <4> QED BY <1>5, <4>1, <4>2
    <3> QED BY <3>1, <3>2
  <2> QED BY <1>5, <2>1, <2>2, <2>3 DEF ReceiverInv
<1>9. rxKey[p.keyId] = p.key => p \notin delivered
  BY <1>1, <1>5 DEF IInv, ReceiverInv
<1> QED BY <1>6, <1>7, <1>8, <1>9 DEF IInv

\* A datagram that does not verify still moves the window, and delivers nothing.
LEMMA DecryptDamagedIInv ==
    ASSUME NEW slot \in KeyIds, NEW id \in 0 .. MaxCounter, IInv, DecryptDamaged(slot, id)
    PROVE  IInv'
<1>1. CheckReplay(slot, id) /\ UNCHANGED <<txVars, sealed, outVars>>
  BY DEF DecryptDamaged
<1>2. UNCHANGED <<rxCur, rxKey, rxLast, txCur, txKey, txCounter, txLast, sealed, delivered, deliveries>>
  BY <1>1 DEF CheckReplay, txVars, outVars
<1>3. /\ rxWindow' \in [KeyIds -> Window]
      /\ seen' \in [KeyIds -> SUBSET (1 .. MaxCounter)]
      /\ \A i \in KeyIds : Represents(rxWindow'[i], seen'[i])
      /\ \A i \in KeyIds : seen[i] \subseteq seen'[i]
  BY <1>1, CheckReplayWindows
<1>4. TypeOK'
  BY <1>2, <1>3 DEF IInv, TypeOK
<1>5. SenderInv' /\ NonceUnique'
  BY <1>2 DEF IInv, SenderInv, NonceUnique, Distinct
<1>6. ReceiverInv'
  BY <1>2, <1>3 DEF IInv, ReceiverInv, Distinct
<1> QED BY <1>4, <1>5, <1>6 DEF IInv

\* Every step keeps the inductive invariant.
LEMMA NextIInv == IInv /\ [Next]_vars => IInv'
<1> SUFFICES ASSUME IInv, [Next]_vars PROVE IInv'
  OBVIOUS
<1>1. CASE InstallTx
  BY <1>1, InstallTxIInv
<1>2. CASE InstallRx
  BY <1>2, InstallRxIInv
<1>3. CASE RotateTx \/ RotateRx
  BY <1>3, RotateIInv
<1>4. CASE \E d \in Payloads : Encrypt(d)
  BY <1>4, EncryptIInv
<1>5. CASE \E p \in sealed : Decrypt(p)
  BY <1>5, DecryptIInv
<1>6. CASE \E slot \in KeyIds, id \in 0 .. MaxCounter : DecryptDamaged(slot, id)
  BY <1>6, DecryptDamagedIInv
<1>7. CASE UNCHANGED vars
  BY <1>7 DEF vars, txVars, rxVars, outVars, IInv, TypeOK, SenderInv, ReceiverInv,
              NonceUnique, Distinct
<1> QED BY <1>1, <1>2, <1>3, <1>4, <1>5, <1>6, <1>7 DEF Next

\* The inductive invariant holds throughout every run of the data channel.
THEOREM Invariance == Spec => []IInv
BY InitIInv, NextIInv, PTL DEF Spec

\* Every variable of the data channel keeps its type.
THEOREM TypeCorrect == Spec => []TypeOK
<1>1. IInv => TypeOK
  BY DEF IInv
<1> QED BY <1>1, Invariance, PTL

\* PacketCipher::encrypt never seals two packets under one nonce, however the
\* key slots are rotated and refilled.
THEOREM NonceSafety == Spec => []NonceUnique
<1>1. IInv => NonceUnique
  BY DEF IInv
<1> QED BY <1>1, Invariance, PTL

\* check_and_update gives every identifier the verdict its history calls for.
THEOREM WindowCorrect == Spec => []WindowExact
<1>1. IInv => WindowExact
  <2> SUFFICES ASSUME IInv, NEW slot \in KeyIds
               PROVE  /\ Highest(rxWindow[slot], seen[slot])
                      /\ Remembers(rxWindow[slot], seen[slot], 0 .. MaxCounter)
    BY DEF WindowExact
  <2>1. Represents(rxWindow[slot], seen[slot])
    BY DEF IInv, ReceiverInv
  <2>2. Highest(rxWindow[slot], seen[slot])
    BY <2>1 DEF Represents
  <2>3. \A id \in 0 .. MaxCounter : id \in Nat
    OBVIOUS
  <2>4. Remembers(rxWindow[slot], seen[slot], 0 .. MaxCounter)
    BY <2>1, <2>3, AcceptsExactly DEF Remembers
  <2> QED BY <2>2, <2>4
<1> QED BY <1>1, Invariance, PTL

\* The data channel implements the at-most-once channel: each nonce seals one
\* packet and each packet is handed to the tunnel at most once.
THEOREM AtMostOnce == Spec => DeliversAtMostOnce
<1>1. Init => Abstract!Init
  BY DEF Init, Abstract!Init
<1>2. IInv /\ [Next]_vars => [Abstract!Next]_<<sealed, delivered, deliveries>>
  <2> SUFFICES ASSUME IInv, [Next]_vars
               PROVE  [Abstract!Next]_<<sealed, delivered, deliveries>>
    OBVIOUS
  <2>1. CASE \E d \in Payloads : Encrypt(d)
    <3>1. PICK d \in Payloads : Encrypt(d)
      BY <2>1
    <3> DEFINE p == [keyId |-> txCur, key |-> txKey[txCur],
                     id |-> txCounter[txCur] + 1, data |-> d]
    <3>2. sealed' = sealed \cup {p} /\ UNCHANGED outVars
      BY <3>1 DEF Encrypt
    <3>3. p.key = txKey[txCur] /\ p.id = txCounter[txCur] + 1
      OBVIOUS
    <3>4. \A q \in sealed : <<q.key, q.id>> # <<p.key, p.id>>
      BY <3>3 DEF IInv, TypeOK, SenderInv, Packets
    <3>5. p \in sealed'
      BY <3>2
    <3> HIDE DEF p
    <3>6. Abstract!Seal(p)
      BY <3>2, <3>4 DEF Abstract!Seal, outVars
    <3> QED BY <3>5, <3>6 DEF Abstract!Next
  <2>2. CASE \E p \in sealed : Decrypt(p)
    <3>1. PICK p \in sealed : Decrypt(p)
      BY <2>2
    <3>2. CASE rxKey[p.keyId] = p.key
      <4>1. Abstract!Deliver(p)
        BY <3>1, <3>2, DecryptIInv DEF Decrypt, Abstract!Deliver
      <4> QED BY <4>1 DEF Abstract!Next
    <3>3. CASE rxKey[p.keyId] # p.key
      BY <3>1, <3>3 DEF Decrypt, outVars
    <3> QED BY <3>2, <3>3
  <2>3. CASE InstallTx \/ InstallRx \/ RotateTx \/ RotateRx \/ UNCHANGED vars
    BY <2>3 DEF InstallTx, InstallRx, RotateTx, RotateRx, vars, outVars
  <2>4. CASE \E slot \in KeyIds, id \in 0 .. MaxCounter : DecryptDamaged(slot, id)
    BY <2>4 DEF DecryptDamaged, outVars
  <2> QED BY <2>1, <2>2, <2>3, <2>4 DEF Next
<1> QED BY <1>1, <1>2, Invariance, PTL DEF Spec, DeliversAtMostOnce, Abstract!Spec
=============================================================================
