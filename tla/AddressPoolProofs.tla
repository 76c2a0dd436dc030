------------------------- MODULE AddressPoolProofs --------------------------
(***************************************************************************)
(* The address pool for every size of the two networks, every set of       *)
(* callers and every interleaving of their half-operations.                *)
(***************************************************************************)
EXTENDS AddressPool, TLAPS

\* What a caller owns is marked in the pool, and what it holds fits the point
\* its operation has reached.
Marked ==
    \A c \in Callers :
        /\ addr[c].ipv4 # None => addr[c].ipv4 \in allocated_v4
        /\ OwnsV6(c) => addr[c].ipv6 \in allocated_v6
        /\ pc[c] = "idle" => addr[c] = NoAddress
        /\ pc[c] = "allocate" => addr[c].ipv6 = None
        /\ pc[c] = "release" => addr[c].ipv4 = None

IInv ==
    /\ TypeOK
    /\ Marked
    /\ NoSharedAddress
    /\ ReservedKept

USE ConfigAssumption, SizeAssumption

\* Candidates are addresses of the pool, free and not reserved; None is none of them.
LEMMA Sizes ==
    /\ \A a \in V4 \cup V6 : a # None
    /\ \A a \in FreeV4 : a \in V4 \ (reserved_v4 \cup allocated_v4)
    /\ \A a \in FreeV6 : a \in V6 \ (reserved_v6 \cup allocated_v6)
    /\ None \notin reserved_v4
BY DEF V4, V6, None, FreeV4, FreeV6, reserved_v4

\* Replacing one family of an address.
LEMMA Replace ==
    ASSUME NEW x \in Addresses, NEW a
    PROVE  /\ [x EXCEPT !.ipv4 = a] = [ipv4 |-> a, ipv6 |-> x.ipv6]
           /\ [x EXCEPT !.ipv6 = a] = [ipv4 |-> x.ipv4, ipv6 |-> a]
BY DEF Addresses

\* An empty pool: nobody owns anything.
LEMMA InitIInv == Init => IInv
BY Sizes DEF Init, IInv, TypeOK, Marked, NoSharedAddress, ReservedKept, NoAddress, Addresses, OwnsV6

\* A step that takes caller c to point p with the address r: r is typed and
\* marked, is shared with no other caller, and the marks of the others stay.
Step(c, r, p) ==
    /\ r \in Addresses
    /\ p \in {"idle", "allocate", "specific", "held", "release"}
    /\ pc' = [pc EXCEPT ![c] = p]
    /\ addr' = [addr EXCEPT ![c] = r]
    /\ allocated_v4' \subseteq V4
    /\ allocated_v6' \subseteq V6
    /\ \A d \in Callers \ {c} :
          /\ addr[d].ipv4 # None => addr[d].ipv4 \in allocated_v4'
          /\ OwnsV6(d) => addr[d].ipv6 \in allocated_v6'
          /\ r.ipv4 # None => addr[d].ipv4 # r.ipv4
          /\ r.ipv6 # None /\ p # "specific" /\ OwnsV6(d) => addr[d].ipv6 # r.ipv6
    /\ r.ipv4 # None => r.ipv4 \in allocated_v4' \ reserved_v4
    /\ r.ipv6 # None /\ p # "specific" => r.ipv6 \in allocated_v6' \ reserved_v6
    /\ p = "idle" => r = NoAddress
    /\ p = "allocate" => r.ipv6 = None
    /\ p = "release" => r.ipv4 = None

\* Such a step keeps the invariant.
LEMMA OwnerStep ==
    ASSUME IInv, NEW c \in Callers, NEW r, NEW p, Step(c, r, p)
    PROVE  IInv'
<1>1. /\ pc \in [Callers -> {"idle", "allocate", "specific", "held", "release"}]
      /\ addr \in [Callers -> Addresses]
  BY DEF IInv, TypeOK
<1>2. /\ pc'[c] = p /\ addr'[c] = r
      /\ \A d \in Callers \ {c} : pc'[d] = pc[d] /\ addr'[d] = addr[d]
  BY <1>1 DEF Step
<1>3. TypeOK'
  BY <1>1 DEF TypeOK, Step
<1>4. Marked'
  BY <1>2 DEF IInv, Marked, OwnsV6, Step
<1>5. NoSharedAddress'
  BY <1>2 DEF IInv, NoSharedAddress, OwnsV6, Step
<1>6. ReservedKept'
  BY <1>2, Sizes DEF IInv, ReservedKept, OwnsV6, reserved_v4, reserved_v6, Step
<1> QED BY <1>3, <1>4, <1>5, <1>6 DEF IInv

\* allocate, IPv4 half: the address chosen is marked for nobody.
LEMMA AllocateV4IInv == ASSUME IInv, NEW c \in Callers, AllocateV4(c) PROVE IInv'
<1>1. pc[c] = "idle" /\ addr[c] = NoAddress /\ addr \in [Callers -> Addresses]
  BY DEF AllocateV4, IInv, Marked, TypeOK
<1>2. CASE HasV4
  <2>1. PICK a \in FreeV4 : /\ allocated_v4' = allocated_v4 \cup {a}
                            /\ addr' = [addr EXCEPT ![c].ipv4 = a]
    BY <1>2 DEF AllocateV4
  <2> DEFINE r == [ipv4 |-> a, ipv6 |-> None]
  <2>2. addr' = [addr EXCEPT ![c] = r]
    <3>1. addr[c] \in Addresses /\ addr[c].ipv6 = None
      BY <1>1 DEF NoAddress
    <3> QED BY <2>1, <3>1, Replace
  <2>3. a \in V4 /\ a \notin reserved_v4 /\ a \notin allocated_v4 /\ r \in Addresses
    BY <2>1, Sizes DEF Addresses
  <2>4. pc' = [pc EXCEPT ![c] = "allocate"] /\ allocated_v6' = allocated_v6
    BY DEF AllocateV4
  <2>5. \A d \in Callers \ {c} : addr[d].ipv4 # a
    BY <2>3, Sizes DEF IInv, Marked
  <2>6. Step(c, r, "allocate")
    BY <2>1, <2>2, <2>3, <2>4, <2>5 DEF Step, IInv, TypeOK, Marked
  <2> QED BY <2>6, OwnerStep
<1>3. CASE ~HasV4
  <2>1. /\ pc' = [pc EXCEPT ![c] = "allocate"]
        /\ UNCHANGED <<allocated_v4, allocated_v6, addr>>
    BY <1>3 DEF AllocateV4
  <2>2. addr' = [addr EXCEPT ![c] = NoAddress] /\ NoAddress \in Addresses
    BY <1>1, <2>1 DEF NoAddress, Addresses
  <2>3. Step(c, NoAddress, "allocate")
    BY <2>1, <2>2 DEF Step, IInv, TypeOK, Marked, NoAddress
  <2> QED BY <2>3, OwnerStep
<1> QED BY <1>2, <1>3

\* allocate, IPv6 half.
LEMMA AllocateV6IInv == ASSUME IInv, NEW c \in Callers, AllocateV6(c) PROVE IInv'
<1>1. /\ pc[c] = "allocate" /\ addr[c].ipv6 = None
      /\ addr \in [Callers -> Addresses] /\ addr[c] \in Addresses
  BY DEF AllocateV6, IInv, Marked, TypeOK
<1>2. pc' = [pc EXCEPT ![c] = "held"] /\ allocated_v4' = allocated_v4
  BY DEF AllocateV6
<1>3. \A d \in Callers \ {c} : addr[c].ipv4 # None => addr[d].ipv4 # addr[c].ipv4
  BY DEF IInv, NoSharedAddress
<1>4. addr[c].ipv4 # None => addr[c].ipv4 \in allocated_v4 \ reserved_v4
  BY DEF IInv, Marked, ReservedKept
<1>5. CASE HasV6
  <2>1. PICK a \in FreeV6 : /\ allocated_v6' = allocated_v6 \cup {a}
                            /\ addr' = [addr EXCEPT ![c].ipv6 = a]
    BY <1>5 DEF AllocateV6
  <2> DEFINE r == [ipv4 |-> addr[c].ipv4, ipv6 |-> a]
  <2>2. addr' = [addr EXCEPT ![c] = r]
    BY <1>1, <2>1, Replace
  <2>3. a \in V6 /\ a \notin reserved_v6 /\ a \notin allocated_v6 /\ r \in Addresses
    BY <1>1, <2>1, Sizes DEF Addresses
  <2>4. \A d \in Callers \ {c} : OwnsV6(d) => addr[d].ipv6 # r.ipv6
    BY <2>3 DEF IInv, Marked
  <2>5. Step(c, r, "held")
    BY <1>2, <1>3, <1>4, <2>1, <2>2, <2>3, <2>4 DEF Step, IInv, TypeOK, Marked
  <2> QED BY <2>5, OwnerStep
<1>6. CASE ~HasV6
  <2>1. UNCHANGED <<allocated_v6, addr>>
    BY <1>6 DEF AllocateV6
  <2>2. addr' = [addr EXCEPT ![c] = addr[c]]
    BY <1>1, <2>1
  <2>3. Step(c, addr[c], "held")
    BY <1>1, <1>2, <1>3, <1>4, <2>1, <2>2 DEF Step, IInv, TypeOK, Marked
  <2> QED BY <2>3, OwnerStep
<1> QED BY <1>5, <1>6

\* A failing second half only forgets what the caller had.
LEMMA FailIInv == ASSUME IInv, NEW c \in Callers, Fail(c) PROVE IInv'
<1>1. NoAddress \in Addresses
  BY DEF NoAddress, Addresses
<1>2. Step(c, NoAddress, "idle")
  BY <1>1 DEF Step, Fail, IInv, TypeOK, Marked, NoAddress
<1> QED BY <1>2, OwnerStep

\* allocate_specific, IPv4 half: the address is refused when it is marked.
LEMMA SpecificV4IInv ==
    ASSUME IInv, NEW c \in Callers, NEW a4 \in V4 \cup {None}, NEW a6 \in V6 \cup {None},
           SpecificV4(c, a4, a6)
    PROVE  IInv'
<1> DEFINE r == [ipv4 |-> a4, ipv6 |-> a6]
<1>1. r \in Addresses
  BY DEF Addresses
<1>2. a4 # None => a4 \notin reserved_v4 \cup allocated_v4
  BY DEF SpecificV4
<1>3. /\ pc' = [pc EXCEPT ![c] = "specific"]
      /\ addr' = [addr EXCEPT ![c] = r]
      /\ allocated_v4' = allocated_v4 \cup ({a4} \ {None})
      /\ allocated_v6' = allocated_v6
  BY DEF SpecificV4
<1>4. \A d \in Callers \ {c} : a4 # None => addr[d].ipv4 # a4
  BY <1>2 DEF IInv, Marked
<1>5. allocated_v4' \subseteq V4
  BY <1>3 DEF IInv, TypeOK
<1>6. Step(c, r, "specific")
  BY <1>1, <1>2, <1>3, <1>4, <1>5 DEF Step, IInv, TypeOK, Marked
<1> QED BY <1>6, OwnerStep

\* allocate_specific, IPv6 half.
LEMMA SpecificV6IInv == ASSUME IInv, NEW c \in Callers, SpecificV6(c) PROVE IInv'
<1>1. addr \in [Callers -> Addresses] /\ addr[c] \in Addresses
  BY DEF IInv, TypeOK
<1>2. addr[c].ipv6 # None => addr[c].ipv6 \notin reserved_v6 \cup allocated_v6
  BY DEF SpecificV6, UsableV6
<1>3. /\ pc' = [pc EXCEPT ![c] = "held"]
      /\ allocated_v6' = allocated_v6 \cup ({addr[c].ipv6} \ {None})
      /\ UNCHANGED <<allocated_v4, addr>>
  BY DEF SpecificV6
<1>4. addr' = [addr EXCEPT ![c] = addr[c]]
  BY <1>1, <1>3
<1>5. \A d \in Callers \ {c} : addr[c].ipv4 # None => addr[d].ipv4 # addr[c].ipv4
  BY DEF IInv, NoSharedAddress
<1>6. addr[c].ipv4 # None => addr[c].ipv4 \in allocated_v4 \ reserved_v4
  BY DEF IInv, Marked, ReservedKept
<1>7. allocated_v6' \subseteq V6
  BY <1>1, <1>3 DEF IInv, TypeOK, Addresses
<1>8. \A d \in Callers \ {c} : addr[c].ipv6 # None /\ OwnsV6(d) => addr[d].ipv6 # addr[c].ipv6
  BY <1>2 DEF IInv, Marked
<1>9. Step(c, addr[c], "held")
  BY <1>1, <1>2, <1>3, <1>4, <1>5, <1>6, <1>7, <1>8 DEF Step, IInv, TypeOK, Marked
<1> QED BY <1>9, OwnerStep

\* release unmarks what its caller alone owns.
LEMMA ReleaseV4IInv == ASSUME IInv, NEW c \in Callers, ReleaseV4(c) PROVE IInv'
<1> DEFINE r == [ipv4 |-> None, ipv6 |-> addr[c].ipv6]
<1>1. addr \in [Callers -> Addresses] /\ addr[c] \in Addresses /\ r \in Addresses
  BY DEF IInv, TypeOK, Addresses
<1>2. /\ pc[c] = "held"
      /\ pc' = [pc EXCEPT ![c] = "release"]
      /\ addr' = [addr EXCEPT ![c] = r]
      /\ allocated_v4' = allocated_v4 \ {addr[c].ipv4}
      /\ allocated_v6' = allocated_v6
  BY <1>1, Replace DEF ReleaseV4
<1>3. \A d \in Callers \ {c} : addr[d].ipv4 # None => addr[d].ipv4 # addr[c].ipv4
  BY DEF IInv, NoSharedAddress
<1>4. addr[c].ipv6 # None => OwnsV6(c)
  BY <1>2 DEF OwnsV6
<1>5. \A d \in Callers \ {c} : addr[c].ipv6 # None /\ OwnsV6(d) => addr[d].ipv6 # addr[c].ipv6
  BY <1>4 DEF IInv, NoSharedAddress
<1>6. addr[c].ipv6 # None => addr[c].ipv6 \in allocated_v6 \ reserved_v6
  BY <1>4 DEF IInv, Marked, ReservedKept
<1>7. Step(c, r, "release")
  BY <1>1, <1>2, <1>3, <1>5, <1>6 DEF Step, IInv, TypeOK, Marked
<1> QED BY <1>7, OwnerStep

\* release, second half: the IPv6 address goes, and the caller owns nothing.
LEMMA ReleaseV6IInv == ASSUME IInv, NEW c \in Callers, ReleaseV6(c) PROVE IInv'
<1>1. addr \in [Callers -> Addresses] /\ addr[c] \in Addresses /\ NoAddress \in Addresses
  BY DEF IInv, TypeOK, Addresses, NoAddress
<1>2. pc[c] = "release" /\ addr[c].ipv4 = None
  BY DEF ReleaseV6, IInv, Marked
<1>3. /\ pc' = [pc EXCEPT ![c] = "idle"]
      /\ addr' = [addr EXCEPT ![c] = NoAddress]
      /\ allocated_v6' = allocated_v6 \ {addr[c].ipv6}
      /\ allocated_v4' = allocated_v4
  BY <1>1, <1>2, Replace DEF ReleaseV6, NoAddress
<1>4. \A d \in Callers \ {c} : OwnsV6(d) => addr[d].ipv6 # addr[c].ipv6
  BY <1>2 DEF IInv, NoSharedAddress, OwnsV6
<1>5. Step(c, NoAddress, "idle")
  BY <1>1, <1>3, <1>4 DEF Step, IInv, TypeOK, Marked, NoAddress
<1> QED BY <1>5, OwnerStep

\* Every step of every caller keeps the invariant.
LEMMA NextIInv == IInv /\ [Next]_vars => IInv'
<1> SUFFICES ASSUME IInv, [Next]_vars PROVE IInv'
  OBVIOUS
<1>1. CASE Next
  <2>1. PICK c \in Callers :
          \/ AllocateV4(c) \/ AllocateV6(c) \/ ExhaustedV6(c)
          \/ \E a4 \in V4 \cup {None}, a6 \in V6 \cup {None} : SpecificV4(c, a4, a6)
          \/ SpecificV6(c) \/ RefusedV6(c) \/ ReleaseV4(c) \/ ReleaseV6(c)
    BY <1>1 DEF Next
  <2>2. CASE ExhaustedV6(c) \/ RefusedV6(c)
    BY <2>2, FailIInv DEF ExhaustedV6, RefusedV6
  <2> QED BY <2>1, <2>2, AllocateV4IInv, AllocateV6IInv, SpecificV4IInv, SpecificV6IInv,
             ReleaseV4IInv, ReleaseV6IInv
<1>2. CASE UNCHANGED vars
  BY <1>2 DEF vars, IInv, TypeOK, Marked, NoSharedAddress, ReservedKept, OwnsV6
<1> QED BY <1>1, <1>2

\* The inductive invariant holds throughout.
THEOREM Invariance == Spec => []IInv
BY InitIInv, NextIInv, PTL DEF Spec

\* allocate, allocate_specific and release never give one address to two
\* clients, in either family.
THEOREM NoDoubleAllocation == Spec => []NoSharedAddress
<1>1. IInv => NoSharedAddress
  BY DEF IInv
<1> QED BY <1>1, Invariance, PTL

\* The gateway, network and broadcast addresses stay out of clients' hands.
THEOREM ReservedSafety == Spec => []ReservedKept
<1>1. IInv => ReservedKept
  BY DEF IInv
<1> QED BY <1>1, Invariance, PTL
=============================================================================
