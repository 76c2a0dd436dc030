---------------------------- MODULE AddressPool -----------------------------
(***************************************************************************)
(* AddressPool of corevpn-core/src/network.rs: the pool from which VPN     *)
(* clients get their IPv4 and IPv6 addresses.  An address is its offset in *)
(* its network: 0 is the network address, 1 the gateway.  The two families *)
(* have a lock each, so every operation takes a step per family, and other *)
(* callers may come in between.                                            *)
(***************************************************************************)
EXTENDS Integers, FiniteSets

CONSTANTS Callers,     \* threads that use the pool
          HasV4,       \* ipv4_net is Some
          HasV6,       \* ipv6_net is Some
          Broadcast,   \* offset of the IPv4 broadcast address: 2^(32 - prefix) - 1
          V6Last,      \* offset of the last address of the IPv6 network
          V6Search     \* 65534 in the code: how many IPv6 addresses allocate tries

ASSUME ConfigAssumption == HasV4 \in BOOLEAN /\ HasV6 \in BOOLEAN /\ (HasV4 \/ HasV6)
\* validate_ipv4_net accepts prefixes of 8 to 30 bits, validate_ipv6_net 48 to 120.
ASSUME SizeAssumption == /\ Broadcast \in Nat /\ Broadcast >= 3
                         /\ V6Last \in Nat /\ V6Last >= 3
                         /\ V6Search \in Nat \ {0}

None == -1

VARIABLES allocated_v4,  \* IPv4 addresses given out
          allocated_v6,  \* IPv6 addresses given out
          pc,            \* how far each caller is in its operation
          addr           \* the VpnAddress each caller holds or is building

vars == <<allocated_v4, allocated_v6, pc, addr>>

reserved_v4 == IF HasV4 THEN {0, 1, Broadcast} ELSE {}
reserved_v6 == IF HasV6 THEN {1} ELSE {}

V4 == 0 .. Broadcast
V6 == 0 .. (IF V6Last > V6Search + 1 THEN V6Last ELSE V6Search + 1)
NoAddress == [ipv4 |-> None, ipv6 |-> None]
Addresses == [ipv4 : V4 \cup {None}, ipv6 : V6 \cup {None}]

TypeOK ==
    /\ allocated_v4 \subseteq V4
    /\ allocated_v6 \subseteq V6
    /\ pc \in [Callers -> {"idle", "allocate", "specific", "held", "release"}]
    /\ addr \in [Callers -> Addresses]

\* new_unchecked
Init ==
    /\ allocated_v4 = {}
    /\ allocated_v6 = {}
    /\ pc = [c \in Callers |-> "idle"]
    /\ addr = [c \in Callers |-> NoAddress]

-----------------------------------------------------------------------------
\* Mutant of FreeV4: the gateway and the reserved set are forgotten.
FreeV4FromGateway == {a \in 1 .. Broadcast - 1 : a \notin allocated_v4}

\* The candidates of allocate_v4 and allocate_v6, both upper ends excluded.
FreeV4 == {a \in 2 .. Broadcast - 1 : a \notin reserved_v4 \cup allocated_v4}
FreeV6 == {a \in 2 .. V6Search + 1 : a \notin reserved_v6 \cup allocated_v6}

Lowest(S, a) == a \in S /\ \A b \in S : a <= b

\* allocate, first half; AddressPoolExhausted ends it at once.
AllocateV4(c) ==
    /\ pc[c] = "idle"
    /\ pc' = [pc EXCEPT ![c] = "allocate"]
    /\ \/ /\ HasV4
          /\ \E a \in FreeV4 :
                /\ Lowest(FreeV4, a)
                /\ allocated_v4' = allocated_v4 \cup {a}
                /\ addr' = [addr EXCEPT ![c].ipv4 = a]
       \/ /\ ~HasV4
          /\ UNCHANGED <<allocated_v4, addr>>
    /\ UNCHANGED allocated_v6

\* allocate, second half.
AllocateV6(c) ==
    /\ pc[c] = "allocate"
    /\ \/ /\ HasV6
          /\ \E a \in FreeV6 :
                /\ Lowest(FreeV6, a)
                /\ allocated_v6' = allocated_v6 \cup {a}
                /\ addr' = [addr EXCEPT ![c].ipv6 = a]
          /\ pc' = [pc EXCEPT ![c] = "held"]
       \/ /\ ~HasV6
          /\ pc' = [pc EXCEPT ![c] = "held"]
          /\ UNCHANGED <<allocated_v6, addr>>
    /\ UNCHANGED allocated_v4

\* Mutant of Fail: both addresses are released, also the IPv6 address that was
\* refused because somebody else owns it.
FailReleasing(c) ==
    /\ pc' = [pc EXCEPT ![c] = "idle"]
    /\ addr' = [addr EXCEPT ![c] = NoAddress]
    /\ allocated_v4' = allocated_v4 \ {addr[c].ipv4}
    /\ allocated_v6' = allocated_v6 \ {addr[c].ipv6}

\* A second half that fails returns an error: the caller gets no address, and
\* the IPv4 address of the first half stays marked.
Fail(c) ==
    /\ pc' = [pc EXCEPT ![c] = "idle"]
    /\ addr' = [addr EXCEPT ![c] = NoAddress]
    /\ UNCHANGED <<allocated_v4, allocated_v6>>

ExhaustedV6(c) ==
    /\ pc[c] = "allocate"
    /\ HasV6 /\ FreeV6 = {}
    /\ Fail(c)

\* allocate_specific, first half.
SpecificV4(c, a4, a6) ==
    /\ pc[c] = "idle"
    /\ a4 # None => a4 \notin reserved_v4 \cup allocated_v4
    /\ allocated_v4' = allocated_v4 \cup ({a4} \ {None})
    /\ addr' = [addr EXCEPT ![c] = [ipv4 |-> a4, ipv6 |-> a6]]
    /\ pc' = [pc EXCEPT ![c] = "specific"]
    /\ UNCHANGED allocated_v6

UsableV6(a6) ==
    a6 # None => /\ HasV6 => a6 <= V6Last
                 /\ a6 \notin reserved_v6 \cup allocated_v6

\* allocate_specific, second half.
SpecificV6(c) ==
    /\ pc[c] = "specific"
    /\ UsableV6(addr[c].ipv6)
    /\ allocated_v6' = allocated_v6 \cup ({addr[c].ipv6} \ {None})
    /\ pc' = [pc EXCEPT ![c] = "held"]
    /\ UNCHANGED <<allocated_v4, addr>>

RefusedV6(c) ==
    /\ pc[c] = "specific"
    /\ ~UsableV6(addr[c].ipv6)
    /\ Fail(c)

\* release of an address the caller holds, one family after the other.
ReleaseV4(c) ==
    /\ pc[c] = "held"
    /\ allocated_v4' = allocated_v4 \ {addr[c].ipv4}
    /\ addr' = [addr EXCEPT ![c].ipv4 = None]
    /\ pc' = [pc EXCEPT ![c] = "release"]
    /\ UNCHANGED allocated_v6

ReleaseV6(c) ==
    /\ pc[c] = "release"
    /\ allocated_v6' = allocated_v6 \ {addr[c].ipv6}
    /\ addr' = [addr EXCEPT ![c].ipv6 = None]
    /\ pc' = [pc EXCEPT ![c] = "idle"]
    /\ UNCHANGED allocated_v4

\* allocate_specific is given addresses of any client; offsets outside the
\* IPv4 network are refused before anything happens.
Next ==
    \E c \in Callers :
        \/ AllocateV4(c)
        \/ AllocateV6(c)
        \/ ExhaustedV6(c)
        \/ \E a4 \in V4 \cup {None}, a6 \in V6 \cup {None} : SpecificV4(c, a4, a6)
        \/ SpecificV6(c)
        \/ RefusedV6(c)
        \/ ReleaseV4(c)
        \/ ReleaseV6(c)

Spec == Init /\ [][Next]_vars

-----------------------------------------------------------------------------
\* The IPv6 part of a specific address is asked for, not owned, until the
\* second half has marked it.
OwnsV6(c) == addr[c].ipv6 # None /\ pc[c] # "specific"

(***************************************************************************)
(* No two clients ever own the same address of either family, however the  *)
(* halves of allocate, allocate_specific and release interleave and        *)
(* whichever of them fail.                                                 *)
(***************************************************************************)
NoSharedAddress ==
    \A c, d \in Callers :
        c # d => /\ addr[c].ipv4 = addr[d].ipv4 => addr[c].ipv4 = None
                 /\ OwnsV6(c) /\ OwnsV6(d) => addr[c].ipv6 # addr[d].ipv6

(***************************************************************************)
(* The network address, the gateway and the broadcast address, and the     *)
(* IPv6 gateway, are never owned by a client.                              *)
(***************************************************************************)
ReservedKept ==
    \A c \in Callers :
        /\ addr[c].ipv4 \notin reserved_v4
        /\ OwnsV6(c) => addr[c].ipv6 \notin reserved_v6

=============================================================================
