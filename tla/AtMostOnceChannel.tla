------------------------- MODULE AtMostOnceChannel --------------------------
(***************************************************************************)
(* What the data channel promises: a pair of key and packet identifier,    *)
(* which determines the AEAD nonce, seals at most one packet, and a sealed *)
(* packet is handed to the tunnel at most once.                            *)
(***************************************************************************)
EXTENDS Integers

VARIABLES sealed,      \* every packet that was encrypted
          delivered,   \* every packet that was decrypted and handed on
          deliveries   \* how many times a packet was handed on

Init ==
    /\ sealed = {}
    /\ delivered = {}
    /\ deliveries = 0

Seal(p) ==
    /\ \A q \in sealed : <<q.key, q.id>> # <<p.key, p.id>>
    /\ sealed' = sealed \cup {p}
    /\ UNCHANGED <<delivered, deliveries>>

Deliver(p) ==
    /\ p \in sealed \ delivered
    /\ delivered' = delivered \cup {p}
    /\ deliveries' = deliveries + 1
    /\ UNCHANGED sealed

Next ==
    \/ \E p \in sealed' : Seal(p)
    \/ \E p \in sealed : Deliver(p)

Spec == Init /\ [][Next]_<<sealed, delivered, deliveries>>
=============================================================================
