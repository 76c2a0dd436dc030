---------------------------- MODULE ReplayWindow ----------------------------
(***************************************************************************)
(* The sliding replay window of corevpn.  The same algorithm is written    *)
(* twice in the source: over a u128 bitmap for data packets                *)
(* (corevpn-crypto/src/cipher.rs) and over a u64 bitmap for the packet     *)
(* identifiers of tls-auth (corevpn-protocol/src/session.rs).  WindowSize  *)
(* is the width of the bitmap.  A bitmap is the set of its one bits; bit b *)
(* stands for the identifier highest - b.                                  *)
(***************************************************************************)
EXTENDS Integers

CONSTANT WindowSize

ASSUME WindowSizeAssumption == WindowSize \in Nat \ {0}

Bits == 0 .. WindowSize - 1

Window == [highest : Nat, bitmap : SUBSET Bits]

NewWindow == [highest |-> 0, bitmap |-> {}]

\* bitmap << shift, the bits that leave the machine word being lost.
ShiftLeft(bitmap, shift) == {b \in Bits : b - shift \in bitmap}

\* Mutant of Accepts: `>' in place of `>=' at the trailing edge.
AcceptsTooOld(w, id) ==
    /\ id # 0
    /\ \/ id > w.highest
       \/ /\ w.highest - id <= WindowSize
          /\ w.highest - id \notin w.bitmap

\* The verdict of check_and_update: TRUE when the packet is to be processed.
Accepts(w, id) ==
    /\ id # 0
    /\ \/ id > w.highest
       \/ /\ w.highest - id < WindowSize
          /\ w.highest - id \notin w.bitmap

\* Mutant of Mark: a straggler is accepted without being remembered.
MarkNewOnly(w, id) ==
    IF id > w.highest
    THEN [highest |-> id,
          bitmap  |-> IF id - w.highest >= WindowSize
                      THEN {0}
                      ELSE ShiftLeft(w.bitmap, id - w.highest) \cup {0}]
    ELSE w

\* The window after check_and_update has accepted id.
Mark(w, id) ==
    IF id > w.highest
    THEN [highest |-> id,
          bitmap  |-> IF id - w.highest >= WindowSize
                      THEN {0}
                      ELSE ShiftLeft(w.bitmap, id - w.highest) \cup {0}]
    ELSE [w EXCEPT !.bitmap = @ \cup {w.highest - id}]

check_and_update(w, id) == IF Accepts(w, id) THEN Mark(w, id) ELSE w

(***************************************************************************)
(* What the window promises, in terms of the set seen of all identifiers   *)
(* accepted since it was created: an identifier is accepted exactly when   *)
(* it is valid, is new, and is not older than the WindowSize last ones.    *)
(***************************************************************************)
Highest(w, seen) ==
    /\ \A i \in seen : i <= w.highest
    /\ w.highest # 0 => w.highest \in seen

Remembers(w, seen, ids) ==
    \A id \in ids :
        Accepts(w, id) <=> /\ id # 0
                           /\ id \notin seen
                           /\ id + WindowSize > w.highest
=============================================================================
