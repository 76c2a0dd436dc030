-------------------------- MODULE VpnServerProofs ---------------------------
(***************************************************************************)
(* The connection table and the OAuth logins for every set of peers, VPN   *)
(* addresses and users, every timeout, and every number of connections and *)
(* tokens.                                                                 *)
(***************************************************************************)
EXTENDS VpnServer, FiniteSetTheorems, SequenceTheorems, TLAPS

\* A connection that is established can carry traffic, and a reply that waits
\* is for the address the connection has.
Coherent(c) ==
    /\ c.pending_push_reply # None => c.keys /\ c.pending_push_reply = c.vpn_ip
    /\ c.state = "Established" => c.keys /\ c.vpn_ip # None /\ c.told = c.vpn_ip

\* Someone has logged in for the connection c at address a.
LoggedIn(a, c) ==
    /\ c.auth_method = "OAuth2"
    /\ c.username \in Allowed
    /\ \E v \in verified : v.email = c.username /\ issued[v.state].addr = a

\* With OAuth, c is established only after a login, and its reply is gone then.
Admitted(a, c) ==
    oauth_enabled /\ c.state = "Established" => c.pending_push_reply = None /\ LoggedIn(a, c)

Table ==
    \A a \in Addrs :
        Live(a) => /\ connections[a].id \in 1 .. connCount
                   /\ connections[a].vpn_ip # None => connections[a].vpn_ip \in allocated
                   /\ Coherent(connections[a])
                   /\ Admitted(a, connections[a])

\* No two connections share a number or a VPN address.
Distinct ==
    \A a, b \in Addrs :
        Live(a) /\ Live(b) /\ a # b =>
            /\ connections[a].id # connections[b].id
            /\ connections[a].vpn_ip # None => connections[a].vpn_ip # connections[b].vpn_ip

\* What is on its way from the HTTP server to the event loop was verified, and
\* a token that has opened a connection is not pending any more.
Logins ==
    /\ Len(issued) <= MaxTokens
    /\ ~oauth_enabled => issued = << >>
    /\ \A i \in DOMAIN auth_completed : auth_completed[i] \in verified
    /\ \A v \in verified : v.email \in Allowed /\ v.state \in DOMAIN issued
    /\ \A c \in completions : c[1] \in DOMAIN issued /\ c[1] \notin pending_oauths

\* A connection that was logged as disconnected is about to be removed.
Removal ==
    /\ disconnected \subseteq 1 .. connCount
    /\ \A a \in Addrs : connections[a].id \in disconnected => a \in stale

IInv ==
    /\ TypeOK
    /\ Table
    /\ Distinct
    /\ Logins
    /\ TokenOpensOnce
    /\ Removal

USE ServerAssumption

-----------------------------------------------------------------------------
(***************************************************************************)
(* Facts about connections.                                                *)
(***************************************************************************)
\* An address has a connection, or nothing with the number 0.
LEMMA Shape ==
    ASSUME TypeOK, NEW a \in Addrs
    PROVE  /\ Live(a) <=> connections[a] \in Connection
           /\ ~Live(a) => connections[a] = Absent /\ connections[a].id = 0
           /\ Live(a) => connections[a].id \in Nat \ {0}
<1>1. connections[a] \in Connection \cup {Absent}
  BY DEF TypeOK
<1>2. Absent.id = 0
  BY DEF Absent
<1>3. \A c \in Connection : c.id \in Ids
  BY DEF Connection
<1>4. \A i \in Ids : i \in Nat \ {0}
  BY DEF Ids
<1> QED BY <1>1, <1>2, <1>3, <1>4 DEF Live

\* touch changes the age alone.
LEMMA TouchedFields ==
    ASSUME NEW c \in Connection
    PROVE  /\ Touched(c) \in Connection
           /\ Touched(c).id = c.id /\ Touched(c).state = c.state /\ Touched(c).keys = c.keys
           /\ Touched(c).vpn_ip = c.vpn_ip /\ Touched(c).username = c.username
           /\ Touched(c).auth_method = c.auth_method /\ Touched(c).told = c.told
           /\ Touched(c).pending_push_reply = c.pending_push_reply
BY DEF Touched, Connection

\* The TLS handshake and the claimed name change neither keys nor addresses, and
\* leave a connection that is in the key exchange.
LEMMA NamedFields ==
    ASSUME NEW c \in Connection, c.state \in {"TlsHandshake", "KeyExchange"},
           NEW user \in Users \cup {None}
    PROVE  /\ Named(c, user) \in Connection
           /\ Named(c, user).id = c.id /\ Named(c, user).state = "KeyExchange"
           /\ Named(c, user).keys = c.keys /\ Named(c, user).vpn_ip = c.vpn_ip
           /\ Named(c, user).told = c.told
           /\ Named(c, user).pending_push_reply = c.pending_push_reply
<1>1. /\ HandshakeComplete(c) \in Connection
      /\ HandshakeComplete(c).id = c.id /\ HandshakeComplete(c).state = "KeyExchange"
      /\ HandshakeComplete(c).keys = c.keys /\ HandshakeComplete(c).vpn_ip = c.vpn_ip
      /\ HandshakeComplete(c).told = c.told
      /\ HandshakeComplete(c).pending_push_reply = c.pending_push_reply
  <2> DEFINE t == Touched(c)
  <2>1. CASE c.state = "TlsHandshake"
    <3>1. HandshakeComplete(c) = [t EXCEPT !.state = "KeyExchange", !.auth_method = "Certificate"]
      BY <2>1 DEF HandshakeComplete
    <3>2. /\ t \in Connection /\ t.id = c.id /\ t.keys = c.keys /\ t.vpn_ip = c.vpn_ip
          /\ t.told = c.told /\ t.pending_push_reply = c.pending_push_reply
      BY TouchedFields
    <3> HIDE DEF t
    <3> QED BY <3>1, <3>2, ZenonT(60) DEF Connection, States
  <2>2. CASE c.state = "KeyExchange"
    <3>1. HandshakeComplete(c) = t
      BY <2>2 DEF HandshakeComplete
    <3> QED BY <2>2, <3>1, TouchedFields
  <2> QED BY <2>1, <2>2
<1>2. CASE user = None
  BY <1>1, <1>2 DEF Named
<1>3. CASE user # None
  <2> DEFINE h == HandshakeComplete(c)
  <2>1. Named(c, user) = [h EXCEPT !.username = user]
    BY <1>3 DEF Named
  <2> HIDE DEF h
  <2>2. h \in Connection /\ h.state = "KeyExchange" /\ h.id = c.id /\ h.keys = c.keys /\ h.vpn_ip = c.vpn_ip
        /\ h.told = c.told /\ h.pending_push_reply = c.pending_push_reply
    BY <1>1 DEF h
  <2> QED BY <2>1, <2>2 DEF Connection
<1> QED BY <1>2, <1>3

\* Keys, an address and a reply for it.
LEMMA ConfiguredFields ==
    ASSUME NEW c \in Connection, c.state \in {"TlsHandshake", "KeyExchange"},
           NEW user \in Users \cup {None}, NEW ip \in Ips
    PROVE  /\ Configured(c, user, ip) \in Connection
           /\ Configured(c, user, ip).id = c.id /\ Configured(c, user, ip).state = "KeyExchange"
           /\ Configured(c, user, ip).keys = TRUE /\ Configured(c, user, ip).vpn_ip = ip
           /\ Configured(c, user, ip).pending_push_reply = ip
<1> DEFINE n == Named(c, user)
<1>1. Configured(c, user, ip) = [n EXCEPT !.keys = TRUE, !.vpn_ip = ip, !.pending_push_reply = ip]
  BY DEF Configured
<1>2. n \in Connection /\ n.id = c.id /\ n.state = "KeyExchange"
  BY NamedFields
<1> HIDE DEF n
<1> QED BY <1>1, <1>2 DEF Connection

\* A completion takes the reply.
LEMMA OpenedFields ==
    ASSUME NEW c \in Connection, NEW email \in Users, NEW sent \in BOOLEAN
    PROVE  /\ Opened(c, email, sent) \in Connection
           /\ Opened(c, email, sent).id = c.id /\ Opened(c, email, sent).keys = c.keys
           /\ Opened(c, email, sent).vpn_ip = c.vpn_ip
           /\ Opened(c, email, sent).username = email
           /\ Opened(c, email, sent).auth_method = "OAuth2"
           /\ Opened(c, email, sent).pending_push_reply = None
           /\ Opened(c, email, sent).told = IF sent THEN c.pending_push_reply ELSE c.told
           /\ Opened(c, email, sent).state = IF sent THEN "Established" ELSE c.state
BY DEF Opened, Connection, States

-----------------------------------------------------------------------------
(***************************************************************************)
(* Steps on one connection.                                                *)
(***************************************************************************)
\* The connection at a becomes c; its address, if it is new, was free.
Becomes(a, c) ==
    /\ c \in Connection
    /\ c.id = connections[a].id
    /\ Coherent(c)
    /\ Admitted(a, c)
    /\ c.vpn_ip = connections[a].vpn_ip \/ c.vpn_ip \notin allocated
    /\ connections' = [connections EXCEPT ![a] = c]
    /\ allocated' = allocated \cup ({c.vpn_ip} \ {None})
    /\ UNCHANGED <<oauth_enabled, connCount, cleanVars>>

\* Such a step keeps what the invariant says of the table, if logins are not
\* forgotten.
LEMMA BecomesTable ==
    ASSUME IInv, NEW a \in Addrs, Live(a), NEW c, Becomes(a, c),
           verified \subseteq verified',
           \A v \in verified : issued'[v.state] = issued[v.state]
    PROVE  /\ Table' /\ Distinct' /\ Removal'
           /\ connections' \in [Addrs -> Connection \cup {Absent}]
           /\ allocated' \subseteq Ips
<1>1. /\ connections \in [Addrs -> Connection \cup {Absent}] /\ allocated \subseteq Ips
      /\ connections[a] \in Connection /\ connections[a].vpn_ip \in Ips \cup {None}
      /\ c \in Connection /\ c.vpn_ip \in Ips \cup {None}
  BY Shape DEF IInv, TypeOK, Becomes, Connection
<1>2. /\ connections'[a] = c
      /\ \A b \in Addrs \ {a} : connections'[b] = connections[b]
      /\ connections' \in [Addrs -> Connection \cup {Absent}]
  BY <1>1 DEF Becomes
<1>3. allocated' \subseteq Ips /\ allocated \subseteq allocated'
  BY <1>1 DEF Becomes
<1>4. \A b \in Addrs : Live(b)' => Live(b)
  BY <1>2 DEF Live
<1>5. Table'
  <2> SUFFICES ASSUME NEW b \in Addrs, Live(b)'
               PROVE  /\ (connections[b].id \in 1 .. connCount)'
                      /\ (connections[b].vpn_ip # None => connections[b].vpn_ip \in allocated)'
                      /\ Coherent(connections[b])' /\ Admitted(b, connections[b])'
    BY DEF Table
  <2>1. CASE b = a
    BY <1>2, <2>1 DEF IInv, Table, Becomes, Admitted, LoggedIn, Coherent
  <2>2. CASE b # a
    <3>1. connections'[b] = connections[b] /\ Live(b)
      BY <1>2, <1>4, <2>2
    <3>2. (connections[b].id \in 1 .. connCount)'
      BY <3>1 DEF IInv, Table, Becomes
    <3>3. Coherent(connections[b])' /\ (connections[b].vpn_ip # None => connections[b].vpn_ip \in allocated)'
      BY <1>3, <3>1 DEF IInv, Table, Coherent
    <3>4. Admitted(b, connections[b])'
      BY <3>1 DEF IInv, Table, Admitted, LoggedIn, Becomes
    <3> QED BY <3>2, <3>3, <3>4
  <2> QED BY <2>1, <2>2
<1>6. Distinct'
  <2>1. \A b \in Addrs \ {a} : Live(b) => c.id # connections[b].id
    BY DEF IInv, Distinct, Becomes
  <2>2. \A b \in Addrs \ {a} : Live(b) /\ c.vpn_ip # None => c.vpn_ip # connections[b].vpn_ip
    <3> SUFFICES ASSUME NEW b \in Addrs \ {a}, Live(b), c.vpn_ip # None
                 PROVE  c.vpn_ip # connections[b].vpn_ip
      OBVIOUS
    <3>1. connections[b].vpn_ip # None => connections[b].vpn_ip \in allocated
      BY DEF IInv, Table
    <3>2. CASE c.vpn_ip = connections[a].vpn_ip
      BY <3>2 DEF IInv, Distinct
    <3>3. CASE c.vpn_ip \notin allocated
      BY <3>1, <3>3
    <3> QED BY <3>2, <3>3 DEF Becomes
  <2>3. \A b \in Addrs \ {a} : Live(b) /\ connections[b].vpn_ip # None => connections[b].vpn_ip # c.vpn_ip
    BY <2>2
  <2> QED BY <1>2, <1>4, <2>1, <2>2, <2>3 DEF IInv, Distinct
<1>7. Removal'
  BY <1>2 DEF IInv, Removal, Becomes, cleanVars
<1> QED BY <1>2, <1>3, <1>5, <1>6, <1>7

\* A packet that has nothing to do with logins.
LEMMA PacketIInv ==
    ASSUME IInv, NEW a \in Addrs, Live(a), NEW c, Becomes(a, c), UNCHANGED oauthVars
    PROVE  IInv'
<1>1. Table' /\ Distinct' /\ Removal' /\ allocated' \subseteq Ips
      /\ connections' \in [Addrs -> Connection \cup {Absent}]
  BY BecomesTable DEF oauthVars
<1>2. TypeOK'
  BY <1>1 DEF IInv, TypeOK, Becomes, oauthVars, cleanVars
<1>3. Logins' /\ TokenOpensOnce'
  BY DEF IInv, Logins, TokenOpensOnce, oauthVars
<1> QED BY <1>1, <1>2, <1>3 DEF IInv

\* A packet that leaves the addresses alone.
LEMMA QuietIInv ==
    ASSUME IInv, NEW a \in Addrs, Live(a), NEW c \in Connection,
           c.id = connections[a].id, c.vpn_ip = connections[a].vpn_ip,
           Coherent(c), Admitted(a, c),
           connections' = [connections EXCEPT ![a] = c],
           UNCHANGED <<allocated, connCount, oauthVars, cleanVars>>
    PROVE  IInv'
<1>1. allocated' = allocated \cup ({c.vpn_ip} \ {None})
  BY DEF IInv, Table
<1>2. Becomes(a, c)
  BY <1>1 DEF Becomes, oauthVars
<1> QED BY <1>2, PacketIInv

\* What the invariant says of one connection.
LEMMA AtAddress ==
    ASSUME IInv, NEW a \in Addrs, Live(a)
    PROVE  /\ connections[a] \in Connection
           /\ Coherent(connections[a]) /\ Admitted(a, connections[a])
           /\ connections[a].vpn_ip \in allocated \cup {None}
           /\ [connections EXCEPT ![a] = connections[a]] = connections
<1>1. connections \in [Addrs -> Connection \cup {Absent}]
  BY DEF IInv, TypeOK
<1> QED BY <1>1, Shape DEF IInv, Table

LEMMA TouchIInv ==
    ASSUME IInv, NEW a \in Addrs, Touch(a)
    PROVE  IInv'
<1> DEFINE c == Touched(connections[a])
<1>1. Live(a) /\ connections[a] \in Connection
      /\ Coherent(connections[a]) /\ Admitted(a, connections[a])
  BY AtAddress DEF Touch
<1>2. connections' = [connections EXCEPT ![a] = c]
      /\ UNCHANGED <<allocated, connCount, oauthVars, cleanVars>>
  BY DEF Touch
<1>3. /\ c \in Connection /\ c.id = connections[a].id /\ c.vpn_ip = connections[a].vpn_ip
      /\ Coherent(c) /\ Admitted(a, c)
  BY <1>1, TouchedFields DEF Coherent, Admitted, LoggedIn
<1> HIDE DEF c
<1> QED BY <1>1, <1>2, <1>3, QuietIInv

\* A reply that waits is for the address the connection has, so answering from
\* it again tells the client nothing new.
LEMMA PushRequestIInv ==
    ASSUME IInv, NEW a \in Addrs, PushRequest(a)
    PROVE  IInv'
<1> DEFINE o == connections[a]
           t == Touched(o)
           c == [t EXCEPT !.told = IF o.pending_push_reply = None THEN o.told
                                   ELSE o.pending_push_reply]
<1>1. Live(a) /\ o \in Connection /\ Coherent(o) /\ Admitted(a, o)
  BY AtAddress DEF PushRequest
<1>2. connections' = [connections EXCEPT ![a] = c]
      /\ UNCHANGED <<allocated, connCount, oauthVars, cleanVars>>
  BY DEF PushRequest
<1>3. /\ t \in Connection /\ t.id = o.id /\ t.state = o.state /\ t.keys = o.keys
      /\ t.vpn_ip = o.vpn_ip /\ t.username = o.username /\ t.auth_method = o.auth_method
      /\ t.told = o.told /\ t.pending_push_reply = o.pending_push_reply
  BY <1>1, TouchedFields
<1> HIDE DEF o, t
<1>4. /\ c \in Connection /\ c.id = o.id /\ c.vpn_ip = o.vpn_ip /\ c.state = o.state
      /\ c.keys = o.keys /\ c.username = o.username /\ c.auth_method = o.auth_method
      /\ c.pending_push_reply = o.pending_push_reply
      /\ c.told = IF o.pending_push_reply = None THEN o.told ELSE o.pending_push_reply
  BY <1>1, <1>3 DEF Connection
<1> HIDE DEF c
<1>5. Coherent(c) /\ Admitted(a, c)
  BY <1>1, <1>4 DEF Coherent, Admitted, LoggedIn
<1> QED BY <1>1, <1>2, <1>4, <1>5, QuietIInv DEF o

LEMMA SoftResetIInv ==
    ASSUME IInv, NEW a \in Addrs, SoftReset(a)
    PROVE  IInv'
<1> DEFINE o == connections[a]
           t == Touched(o)
           c == [t EXCEPT !.state = "Rekeying"]
<1>1. Live(a) /\ o \in Connection /\ Coherent(o)
  BY AtAddress DEF SoftReset
<1>2. connections' = [connections EXCEPT ![a] = c]
      /\ UNCHANGED <<allocated, connCount, oauthVars, cleanVars>>
  BY DEF SoftReset
<1>3. /\ t \in Connection /\ t.id = o.id /\ t.keys = o.keys /\ t.vpn_ip = o.vpn_ip
      /\ t.pending_push_reply = o.pending_push_reply
  BY <1>1, TouchedFields
<1> HIDE DEF o, t
<1>4. /\ c \in Connection /\ c.id = o.id /\ c.vpn_ip = o.vpn_ip /\ c.state = "Rekeying"
      /\ c.keys = o.keys /\ c.pending_push_reply = o.pending_push_reply
  BY <1>3 DEF Connection, States
<1> HIDE DEF c
<1>5. Coherent(c) /\ Admitted(a, c)
  BY <1>1, <1>4 DEF Coherent, Admitted
<1> QED BY <1>1, <1>2, <1>4, <1>5, QuietIInv DEF o

-----------------------------------------------------------------------------
(***************************************************************************)
(* The key exchange.                                                       *)
(***************************************************************************)
\* What is known when a key_method_v2 message is tried.
LEMMA KeyMethodReady ==
    ASSUME IInv, NEW a \in Addrs, should_try_km(a)
    PROVE  /\ Live(a) /\ connections[a] \in Connection /\ Coherent(connections[a])
           /\ connections[a].state \in {"TlsHandshake", "KeyExchange"}
BY AtAddress DEF should_try_km

LEMMA KeyMethodUnsentIInv ==
    ASSUME IInv, NEW a \in Addrs, NEW user \in Users \cup {None}, KeyMethodUnsent(a, user)
    PROVE  IInv'
<1> DEFINE o == connections[a]
           c == Named(o, user)
<1>1. /\ Live(a) /\ o \in Connection /\ Coherent(o)
      /\ o.state \in {"TlsHandshake", "KeyExchange"}
  BY KeyMethodReady DEF KeyMethodUnsent
<1>2. connections' = [connections EXCEPT ![a] = c]
      /\ UNCHANGED <<allocated, connCount, oauthVars, cleanVars>>
  BY DEF KeyMethodUnsent
<1> HIDE DEF o
<1>3. /\ c \in Connection /\ c.id = o.id /\ c.vpn_ip = o.vpn_ip /\ c.state = "KeyExchange"
      /\ c.keys = o.keys /\ c.pending_push_reply = o.pending_push_reply
  BY <1>1, NamedFields
<1> HIDE DEF c
<1>4. Coherent(c) /\ Admitted(a, c)
  BY <1>1, <1>3 DEF Coherent, Admitted
<1> QED BY <1>1, <1>2, <1>3, <1>4, QuietIInv DEF o

LEMMA NoKeyMethodIInv ==
    ASSUME IInv, NEW a \in Addrs, NoKeyMethod(a)
    PROVE  IInv'
<1>1. KeyMethodUnsent(a, None)
  BY DEF NoKeyMethod, KeyMethodUnsent, Named
<1> QED BY <1>1, KeyMethodUnsentIInv

LEMMA KeyMethodNoAddressIInv ==
    ASSUME IInv, NEW a \in Addrs, NEW user \in Users \cup {None}, KeyMethodNoAddress(a, user)
    PROVE  IInv'
<1> DEFINE o == connections[a]
           n == Named(o, user)
           c == [n EXCEPT !.keys = TRUE]
<1>1. /\ Live(a) /\ o \in Connection /\ Coherent(o)
      /\ o.state \in {"TlsHandshake", "KeyExchange"}
  BY KeyMethodReady DEF KeyMethodNoAddress
<1>2. connections' = [connections EXCEPT ![a] = c]
      /\ UNCHANGED <<allocated, connCount, oauthVars, cleanVars>>
  BY DEF KeyMethodNoAddress
<1> HIDE DEF o
<1>3. /\ n \in Connection /\ n.id = o.id /\ n.vpn_ip = o.vpn_ip /\ n.state = "KeyExchange"
      /\ n.pending_push_reply = o.pending_push_reply
  BY <1>1, NamedFields
<1> HIDE DEF n
<1>4. /\ c \in Connection /\ c.id = o.id /\ c.vpn_ip = o.vpn_ip /\ c.state = "KeyExchange"
      /\ c.keys = TRUE /\ c.pending_push_reply = o.pending_push_reply
  BY <1>3 DEF Connection
<1> HIDE DEF c
<1>5. Coherent(c) /\ Admitted(a, c)
  BY <1>1, <1>4 DEF Coherent, Admitted
<1> QED BY <1>1, <1>2, <1>4, <1>5, QuietIInv DEF o

\* The connection gets an address that was free.
LEMMA ConfiguredBecomes ==
    ASSUME IInv, NEW a \in Addrs, NEW user \in Users \cup {None}, NEW ip \in Ips,
           should_try_km(a), ip \notin allocated,
           allocated' = allocated \cup {ip},
           connections' = [connections EXCEPT ![a] = Configured(connections[a], user, ip)],
           UNCHANGED <<oauth_enabled, connCount, cleanVars>>
    PROVE  Becomes(a, Configured(connections[a], user, ip))
<1> DEFINE o == connections[a]
           c == Configured(o, user, ip)
<1>1. o \in Connection /\ o.state \in {"TlsHandshake", "KeyExchange"}
  BY KeyMethodReady
<1> HIDE DEF o
<1>2. /\ c \in Connection /\ c.id = o.id /\ c.state = "KeyExchange" /\ c.keys = TRUE
      /\ c.vpn_ip = ip /\ c.pending_push_reply = ip
  BY <1>1, ConfiguredFields, ZenonT(60)
<1>3. connections' = [connections EXCEPT ![a] = c]
  BY DEF o
<1> HIDE DEF c
<1>4. Coherent(c) /\ Admitted(a, c)
  BY <1>2 DEF Coherent, Admitted
<1>5. allocated' = allocated \cup ({c.vpn_ip} \ {None})
  BY <1>2
<1>6. Becomes(a, c)
  BY <1>2, <1>3, <1>4, <1>5 DEF Becomes, o
<1> QED BY <1>6 DEF c, o

LEMMA KeyMethodOAuthIInv ==
    ASSUME IInv, NEW a \in Addrs, NEW user \in Users \cup {None}, NEW ip \in Ips,
           KeyMethodOAuth(a, user, ip)
    PROVE  IInv'
<1> DEFINE e == [addr |-> a, conn |-> connections[a].id]
           c == Configured(connections[a], user, ip)
<1>1. Live(a) /\ connections[a] \in Connection
  BY KeyMethodReady DEF KeyMethodOAuth
<1>2. Becomes(a, c)
  BY ConfiguredBecomes DEF KeyMethodOAuth
<1> HIDE DEF c
<1>3. issued \in Seq([addr : Addrs, conn : Ids]) /\ e \in [addr : Addrs, conn : Ids]
  BY <1>1 DEF IInv, TypeOK, Connection
<1> HIDE DEF e
<1>4. issued' = Append(issued, e)
  BY DEF KeyMethodOAuth, e
<1>5. /\ issued' \in Seq([addr : Addrs, conn : Ids])
      /\ Len(issued') = Len(issued) + 1
      /\ DOMAIN issued = 1 .. Len(issued) /\ DOMAIN issued' = 1 .. (Len(issued) + 1)
      /\ Len(issued) \in Nat
      /\ \A t \in DOMAIN issued : issued'[t] = issued[t]
  BY <1>3, <1>4
<1>6. verified' = verified /\ completions' = completions /\ auth_completed' = auth_completed
      /\ verifying' = verifying /\ oauth_enabled' = oauth_enabled /\ connCount' = connCount
      /\ stale' = stale /\ disconnected' = disconnected
      /\ pending_oauths' = pending_oauths \cup {Len(issued) + 1}
      /\ Len(issued) < MaxTokens /\ oauth_enabled
  BY DEF KeyMethodOAuth, cleanVars
<1>7. /\ Table' /\ Distinct' /\ Removal' /\ allocated' \subseteq Ips
      /\ connections' \in [Addrs -> Connection \cup {Absent}]
  <2>1. \A v \in verified : issued'[v.state] = issued[v.state]
    BY <1>5 DEF IInv, Logins
  <2> QED BY <1>1, <1>2, <1>6, <2>1, BecomesTable
<1>8. TypeOK'
  <2>1. DOMAIN issued \subseteq DOMAIN issued' /\ Len(issued) + 1 \in DOMAIN issued'
    BY <1>5
  <2>2. pending_oauths' \subseteq DOMAIN issued' /\ verifying' \subseteq DOMAIN issued'
    BY <1>6, <2>1 DEF IInv, TypeOK
  <2> QED BY <1>5, <1>6, <1>7, <2>2 DEF IInv, TypeOK
<1>9. Logins'
  <2>1. Len(issued') <= MaxTokens
    BY <1>5, <1>6
  <2>2. \A d \in completions : d[1] \in DOMAIN issued' /\ d[1] \notin pending_oauths'
    BY <1>5, <1>6 DEF IInv, Logins
  <2>3. \A v \in verified : v.email \in Allowed /\ v.state \in DOMAIN issued'
    BY <1>5 DEF IInv, Logins
  <2> QED BY <1>6, <2>1, <2>2, <2>3 DEF IInv, Logins
<1>10. TokenOpensOnce'
  BY <1>6 DEF IInv, TokenOpensOnce
<1> QED BY <1>7, <1>8, <1>9, <1>10 DEF IInv

LEMMA KeyMethodPlainIInv ==
    ASSUME IInv, NEW a \in Addrs, NEW user \in Users \cup {None}, NEW ip \in Ips,
           NEW sent \in BOOLEAN, KeyMethodPlain(a, user, ip, sent)
    PROVE  IInv'
<1> DEFINE o == connections[a]
           n == Configured(o, user, ip)
           c == [n EXCEPT !.state = "Established", !.told = ip]
<1>1. Live(a) /\ o \in Connection /\ o.state \in {"TlsHandshake", "KeyExchange"}
  BY KeyMethodReady DEF KeyMethodPlain
<1>2. UNCHANGED oauthVars
  BY DEF KeyMethodPlain
<1>3. CASE ~sent
  <2>1. Becomes(a, n)
    BY <1>3, ConfiguredBecomes DEF KeyMethodPlain, oauthVars
  <2> QED BY <1>1, <1>2, <2>1, PacketIInv
<1>4. CASE sent
  <2>1. connections' = [connections EXCEPT ![a] = c]
    BY <1>4 DEF KeyMethodPlain
  <2> HIDE DEF o
  <2>2. /\ n \in Connection /\ n.id = o.id /\ n.keys = TRUE /\ n.vpn_ip = ip
        /\ n.pending_push_reply = ip
    BY <1>1, ConfiguredFields
  <2> HIDE DEF n
  <2>3. /\ c \in Connection /\ c.id = o.id /\ c.keys = TRUE /\ c.vpn_ip = ip
        /\ c.pending_push_reply = ip /\ c.told = ip
    BY <2>2 DEF Connection, States
  <2> HIDE DEF c
  <2>4. Coherent(c) /\ Admitted(a, c)
    BY <2>3 DEF Coherent, Admitted, KeyMethodPlain
  <2>5. allocated' = allocated \cup ({c.vpn_ip} \ {None}) /\ c.vpn_ip \notin allocated
    BY <2>3 DEF KeyMethodPlain
  <2>6. Becomes(a, c)
    BY <2>1, <2>3, <2>4, <2>5 DEF Becomes, KeyMethodPlain, oauthVars, o
  <2> QED BY <1>1, <1>2, <2>6, PacketIInv
<1> QED BY <1>3, <1>4

-----------------------------------------------------------------------------
(***************************************************************************)
(* Steps that create, age and remove connections.                          *)
(***************************************************************************)
LEMMA TickIInv ==
    ASSUME IInv, Tick
    PROVE  IInv'
<1>1. \A a \in Addrs : ~Live(a) => connections'[a] = connections[a]
  BY DEF Tick
<1>2. ASSUME NEW a \in Addrs, Live(a)
      PROVE  /\ connections'[a] \in Connection
             /\ connections'[a].id = connections[a].id
             /\ connections'[a].state = connections[a].state
             /\ connections'[a].keys = connections[a].keys
             /\ connections'[a].vpn_ip = connections[a].vpn_ip
             /\ connections'[a].username = connections[a].username
             /\ connections'[a].auth_method = connections[a].auth_method
             /\ connections'[a].pending_push_reply = connections[a].pending_push_reply
             /\ connections'[a].told = connections[a].told
  <2> DEFINE o == connections[a]
  <2>1. o \in Connection
    BY <1>2, AtAddress
  <2>2. connections'[a] = o \/ (o.age < MaxAge /\ connections'[a] = [o EXCEPT !.age = @ + 1])
    BY DEF Tick
  <2> HIDE DEF o
  <2>3. CASE connections'[a] = o
    BY <2>1, <2>3 DEF o
  <2>4. CASE o.age < MaxAge /\ connections'[a] = [o EXCEPT !.age = @ + 1]
    <3>1. o.age + 1 \in 0 .. MaxAge
      BY <2>1, <2>4 DEF Connection
    <3> DEFINE c == connections'[a]
    <3>2. c = [o EXCEPT !.age = o.age + 1]
      BY <2>4
    <3> HIDE DEF c
    <3>3. /\ c \in Connection /\ c.id = o.id /\ c.state = o.state /\ c.keys = o.keys
          /\ c.vpn_ip = o.vpn_ip /\ c.username = o.username /\ c.auth_method = o.auth_method
          /\ c.pending_push_reply = o.pending_push_reply /\ c.told = o.told
      BY <2>1, <3>1, <3>2 DEF Connection
    <3> QED BY <3>3 DEF c, o
  <2> QED BY <2>2, <2>3, <2>4
<1>3. \A a \in Addrs : Live(a)' <=> Live(a)
  <2>1. \A a \in Addrs : Live(a) => connections'[a] # Absent
    <3> SUFFICES ASSUME NEW a \in Addrs, Live(a) PROVE connections'[a].id # Absent.id
      OBVIOUS
    <3>1. connections[a].id # 0
      BY Shape DEF IInv
    <3> QED BY <3>1, <1>2 DEF Absent
  <2> QED BY <1>1, <2>1 DEF Live
<1>4. connections' \in [Addrs -> Connection \cup {Absent}]
  <2>1. \A a \in Addrs : connections'[a] \in Connection \cup {Absent}
    BY <1>1, <1>2, Shape DEF IInv
  <2>2. connections' = [a \in Addrs |-> connections'[a]]
    BY DEF Tick
  <2> QED BY <2>1, <2>2
<1>5. TypeOK'
  BY <1>4 DEF IInv, TypeOK, Tick, oauthVars, cleanVars
<1>6. Table'
  <2> SUFFICES ASSUME NEW a \in Addrs, Live(a)
               PROVE  /\ (connections[a].id \in 1 .. connCount)'
                      /\ (connections[a].vpn_ip # None => connections[a].vpn_ip \in allocated)'
                      /\ Coherent(connections[a])' /\ Admitted(a, connections[a])'
    BY <1>3 DEF Table
  <2> QED BY <1>2 DEF IInv, Table, Coherent, Admitted, LoggedIn, Tick, oauthVars
<1>7. Distinct'
  BY <1>2, <1>3 DEF IInv, Distinct
<1>8. Removal'
  <2>1. \A a \in Addrs : connections'[a].id = connections[a].id
    BY <1>1, <1>2
  <2> QED BY <2>1 DEF IInv, Removal, Tick, cleanVars
<1>9. Logins' /\ TokenOpensOnce'
  BY DEF IInv, Logins, TokenOpensOnce, Tick, oauthVars
<1> QED BY <1>5, <1>6, <1>7, <1>8, <1>9 DEF IInv

\* The new connection has a number nobody had, no address and no login.
LEMMA HardResetIInv ==
    ASSUME IInv, NEW a \in Addrs, handle_hard_reset(a)
    PROVE  IInv'
<1>m. PICK max : max = MaxConns[oauth_enabled]
  OBVIOUS
<1>0. MaxConns[TRUE] \in Nat /\ MaxConns[FALSE] \in Nat
      /\ (max = MaxConns[TRUE] \/ max = MaxConns[FALSE])
  <2>1. oauth_enabled = TRUE \/ oauth_enabled = FALSE
    BY DEF IInv, TypeOK
  <2>2. max = MaxConns[TRUE] \/ max = MaxConns[FALSE]
    BY <1>m, <2>1, Zenon
  <2> QED BY <2>2
<1>1. /\ connections \in [Addrs -> Connection \cup {Absent}]
      /\ connCount \in Nat /\ connCount < max /\ connCount' = connCount + 1
  <2>1. connCount \in 0 .. max
    BY <1>m DEF IInv, TypeOK
  <2>2. connCount < max /\ connCount' = connCount + 1
    BY <1>m DEF handle_hard_reset
  <2> QED BY <2>1, <2>2 DEF IInv, TypeOK
<1>2. connCount + 1 \in Ids /\ connCount' \in 0 .. max
  <2>0. PICK t \in Nat, f \in Nat : t = MaxConns[TRUE] /\ f = MaxConns[FALSE]
    BY <1>0
  <2>1. Ids = 1 .. (t + f) /\ (max = t \/ max = f)
    BY <1>0, <2>0, Zenon DEF Ids
  <2>2. connCount + 1 \in 1 .. (t + f) /\ connCount' \in 0 .. max
    BY <1>1, <2>1
  <2> QED BY <2>1, <2>2
<1> PICK c : c = NewConnection(connCount + 1)
  OBVIOUS
<1>3. /\ c \in Connection /\ c.id = connCount + 1 /\ c.vpn_ip = None
      /\ c.pending_push_reply = None /\ c.state = "TlsHandshake"
  BY <1>2 DEF NewConnection, Connection, States
<1>4. connections' = [connections EXCEPT ![a] = c]
      /\ UNCHANGED <<allocated, oauthVars, cleanVars>>
  BY DEF handle_hard_reset
<1>5. /\ connections'[a] = c
      /\ \A b \in Addrs \ {a} : connections'[b] = connections[b]
      /\ connections' \in [Addrs -> Connection \cup {Absent}]
  BY <1>1, <1>3, <1>4
<1>6. \A b \in Addrs \ {a} : Live(b)' <=> Live(b)
  BY <1>5 DEF Live
<1>7. TypeOK'
  <2>1. oauth_enabled' = oauth_enabled
    BY <1>4 DEF oauthVars
  <2>2. connCount' \in 0 .. MaxConns[oauth_enabled']
    BY <1>m, <1>2, <2>1
  <2> QED BY <1>4, <1>5, <2>2 DEF IInv, TypeOK, oauthVars, cleanVars
<1>8. \A b \in Addrs : Live(b) => connections[b].id \in 1 .. connCount /\ connections[b].id # connCount + 1
  BY <1>1 DEF IInv, Table
<1>9. Table'
  <2> SUFFICES ASSUME NEW b \in Addrs, Live(b)'
               PROVE  /\ (connections[b].id \in 1 .. connCount)'
                      /\ (connections[b].vpn_ip # None => connections[b].vpn_ip \in allocated)'
                      /\ Coherent(connections[b])' /\ Admitted(b, connections[b])'
    BY DEF Table
  <2>1. CASE b = a
    <3>1. c.id \in 1 .. connCount'
      BY <1>1, <1>3
    <3> QED BY <1>3, <1>5, <2>1, <3>1 DEF Coherent, Admitted
  <2>2. CASE b # a
    <3>1. Live(b) /\ connections'[b] = connections[b]
      BY <1>5, <1>6, <2>2
    <3>2. (connections[b].id \in 1 .. connCount)'
      BY <1>1, <1>8, <3>1
    <3> QED BY <1>4, <3>1, <3>2 DEF IInv, Table, Coherent, Admitted, LoggedIn, oauthVars
  <2> QED BY <2>1, <2>2
<1>10. Distinct'
  <2> SUFFICES ASSUME NEW b \in Addrs, NEW d \in Addrs, Live(b)', Live(d)', b # d
               PROVE  /\ connections'[b].id # connections'[d].id
                      /\ connections'[b].vpn_ip # None => connections'[b].vpn_ip # connections'[d].vpn_ip
    BY DEF Distinct
  <2>1. CASE b = a
    BY <1>3, <1>5, <1>6, <1>8, <2>1
  <2>2. CASE d = a
    BY <1>3, <1>5, <1>6, <1>8, <2>2
  <2>3. CASE b # a /\ d # a
    BY <1>5, <1>6, <2>3 DEF IInv, Distinct
  <2> QED BY <2>1, <2>2, <2>3
<1>11. Removal'
  <2>1. disconnected \subseteq 1 .. connCount'
    BY <1>1 DEF IInv, Removal
  <2>2. c.id \notin disconnected
    BY <1>1, <1>3 DEF IInv, Removal
  <2> QED BY <1>4, <1>5, <2>1, <2>2 DEF IInv, Removal, cleanVars
<1>12. Logins' /\ TokenOpensOnce'
  BY <1>4 DEF IInv, Logins, TokenOpensOnce, oauthVars
<1> QED BY <1>7, <1>9, <1>10, <1>11, <1>12 DEF IInv

LEMMA CollectIInv ==
    ASSUME IInv, CleanupCollect
    PROVE  IInv'
<1>1. /\ stale = {} /\ stale' = Stale /\ UNCHANGED <<connections, allocated, connCount, oauthVars>>
      /\ disconnected' = disconnected \cup {connections[a].id : a \in Stale}
  BY DEF CleanupCollect
<1>2. \A a \in Stale : a \in Addrs /\ Live(a) /\ connections[a].id \in 1 .. connCount
                       /\ connections[a].id \in Ids
  BY AtAddress DEF Stale, IInv, Table, Connection
<1>3. TypeOK'
  BY <1>1, <1>2 DEF IInv, TypeOK, oauthVars
<1>4. Table' /\ Distinct' /\ Logins' /\ TokenOpensOnce'
  BY <1>1 DEF IInv, Table, Distinct, Logins, TokenOpensOnce, Live, Coherent, Admitted, LoggedIn, oauthVars
<1>5. Removal'
  <2>1. disconnected' \subseteq 1 .. connCount
    BY <1>1, <1>2 DEF IInv, Removal
  <2>2. ASSUME NEW a \in Addrs, connections[a].id \in disconnected' PROVE a \in Stale
    <3>1. connections[a].id \notin disconnected
      BY <1>1 DEF IInv, Removal
    <3>2. PICK b \in Stale : connections[a].id = connections[b].id
      BY <1>1, <2>2, <3>1
    <3>3. Live(b) /\ b \in Addrs /\ connections[b].id # 0
      BY <1>2, <3>2, Shape DEF IInv
    <3>4. Live(a)
      BY <3>2, <3>3, Shape DEF IInv
    <3> QED BY <3>2, <3>3, <3>4 DEF IInv, Distinct
  <2> QED BY <1>1, <2>1, <2>2 DEF Removal
<1> QED BY <1>3, <1>4, <1>5 DEF IInv

LEMMA RemoveIInv ==
    ASSUME IInv, CleanupRemove
    PROVE  IInv'
<1>1. /\ connections' = [a \in Addrs |-> IF a \in stale THEN Absent ELSE connections[a]]
      /\ stale' = {} /\ UNCHANGED <<allocated, connCount, oauthVars, disconnected>>
  BY DEF CleanupRemove
<1>2. \A a \in Addrs : Live(a)' => Live(a) /\ connections'[a] = connections[a]
  BY <1>1 DEF Live
<1>3. TypeOK'
  BY <1>1 DEF IInv, TypeOK, oauthVars
<1>4. Table'
  BY <1>1, <1>2 DEF IInv, Table, Coherent, Admitted, LoggedIn, oauthVars
<1>5. Distinct'
  BY <1>2 DEF IInv, Distinct
<1>6. Removal'
  <2>1. 0 \notin disconnected
    BY DEF IInv, Removal
  <2>2. Absent.id = 0
    BY DEF Absent
  <2>3. \A a \in Addrs : connections'[a].id \notin disconnected
    BY <1>1, <2>1, <2>2 DEF IInv, Removal
  <2> QED BY <1>1, <2>3 DEF IInv, Removal
<1>7. Logins' /\ TokenOpensOnce'
  BY <1>1 DEF IInv, Logins, TokenOpensOnce, oauthVars
<1> QED BY <1>3, <1>4, <1>5, <1>6, <1>7 DEF IInv

-----------------------------------------------------------------------------
(***************************************************************************)
(* Logins.                                                                 *)
(***************************************************************************)
LEMMA LookupIInv ==
    ASSUME IInv, NEW t \in DOMAIN issued, OAuthLookup(t)
    PROVE  IInv'
<1>1. TypeOK'
  BY DEF IInv, TypeOK, OAuthLookup, cleanVars
<1>2. Table' /\ Distinct' /\ Removal'
  BY DEF IInv, Table, Distinct, Removal, Live, Coherent, Admitted, LoggedIn, OAuthLookup, cleanVars
<1>3. Logins' /\ TokenOpensOnce'
  BY DEF IInv, Logins, TokenOpensOnce, OAuthLookup
<1> QED BY <1>1, <1>2, <1>3 DEF IInv

LEMMA SendIInv ==
    ASSUME IInv, NEW t \in DOMAIN issued, NEW user \in Users, OAuthSend(t, user)
    PROVE  IInv'
<1> DEFINE m == [state |-> t, email |-> user]
<1>1. /\ auth_completed' = Append(auth_completed, m) /\ verified' = verified \cup {m}
      /\ Len(auth_completed) < ChannelCap /\ user \in Allowed
      /\ UNCHANGED <<oauth_enabled, connections, allocated, connCount, pending_oauths,
                     verifying, issued, completions, stale, disconnected>>
  BY DEF OAuthSend, Identified, cleanVars
<1>2. DOMAIN issued = 1 .. Len(issued) /\ Len(issued) \in Nat /\ Len(issued) <= MaxTokens
      /\ auth_completed \in Seq(Completion)
  BY DEF IInv, TypeOK, Logins
<1>3. m \in Completion /\ m.email = user /\ m.state = t
  BY <1>2 DEF Completion, Tokens
<1> HIDE DEF m
<1>4. /\ auth_completed' \in Seq(Completion) /\ Len(auth_completed') = Len(auth_completed) + 1
      /\ DOMAIN auth_completed = 1 .. Len(auth_completed)
      /\ DOMAIN auth_completed' = 1 .. (Len(auth_completed) + 1)
      /\ Len(auth_completed) \in Nat
      /\ \A i \in DOMAIN auth_completed : auth_completed'[i] = auth_completed[i]
      /\ auth_completed'[Len(auth_completed) + 1] = m
  BY <1>1, <1>2, <1>3
<1>5. TypeOK'
  BY <1>1, <1>3, <1>4 DEF IInv, TypeOK
<1>6. Distinct' /\ Removal'
  BY <1>1 DEF IInv, Distinct, Removal, Live
<1>7. Table'
  BY <1>1 DEF IInv, Table, Live, Coherent, Admitted, LoggedIn
<1>8. Logins'
  <2>1. \A i \in DOMAIN auth_completed' : auth_completed'[i] \in verified'
    BY <1>1, <1>4 DEF IInv, Logins
  <2>2. \A v \in verified' : v.email \in Allowed /\ v.state \in DOMAIN issued
    BY <1>1, <1>3 DEF IInv, Logins
  <2> QED BY <1>1, <2>1, <2>2 DEF IInv, Logins
<1>9. TokenOpensOnce'
  BY <1>1 DEF IInv, TokenOpensOnce
<1> QED BY <1>5, <1>6, <1>7, <1>8, <1>9 DEF IInv

\* What is at the head of the channel was verified; taking it leaves the rest.
LEMMA HeadVerified ==
    ASSUME IInv, auth_completed # << >>, auth_completed' = Tail(auth_completed)
    PROVE  /\ Head(auth_completed) \in verified /\ Head(auth_completed) \in Completion
           /\ auth_completed' \in Seq(Completion) /\ Len(auth_completed') <= ChannelCap
           /\ \A i \in DOMAIN auth_completed' : auth_completed'[i] \in verified
<1>1. /\ auth_completed \in Seq(Completion) /\ Len(auth_completed) \in Nat
      /\ DOMAIN auth_completed = 1 .. Len(auth_completed) /\ Len(auth_completed) <= ChannelCap
  BY DEF IInv, TypeOK
<1>2. Len(auth_completed) # 0
  BY <1>1
<1>3. /\ auth_completed' \in Seq(Completion) /\ Len(auth_completed') = Len(auth_completed) - 1
      /\ DOMAIN auth_completed' = 1 .. (Len(auth_completed) - 1)
      /\ \A i \in 1 .. (Len(auth_completed) - 1) : auth_completed'[i] = auth_completed[i + 1]
  BY <1>1, <1>2
<1>4. Head(auth_completed) = auth_completed[1] /\ 1 \in DOMAIN auth_completed
  BY <1>1, <1>2
<1>5. \A i \in DOMAIN auth_completed' : auth_completed'[i] \in verified
  BY <1>1, <1>3 DEF IInv, Logins
<1> QED BY <1>1, <1>3, <1>4, <1>5 DEF IInv, Logins

\* The completion finds the connection its token was for, or another one at the
\* same address that waits for a login too.
LEMMA CompletedIInv ==
    ASSUME IInv, NEW sent \in BOOLEAN, handle_auth_completed(sent)
    PROVE  IInv'
<1> PICK auth : auth = Head(auth_completed)
  OBVIOUS
<1> PICK a : a = issued[auth.state].addr
  OBVIOUS
<1>1. /\ auth_completed # << >> /\ auth_completed' = Tail(auth_completed)
      /\ pending_oauths' = pending_oauths \ {auth.state}
      /\ UNCHANGED <<oauth_enabled, allocated, connCount, verifying, issued, verified, cleanVars>>
  BY DEF handle_auth_completed
<1>2. /\ auth \in verified /\ auth \in Completion /\ auth_completed' \in Seq(Completion)
      /\ Len(auth_completed') <= ChannelCap
      /\ \A i \in DOMAIN auth_completed' : auth_completed'[i] \in verified
  BY <1>1, HeadVerified
<1>3. /\ auth.email \in Allowed /\ auth.email \in Users /\ auth.state \in DOMAIN issued
      /\ auth.state \in Tokens
  BY <1>2 DEF IInv, Logins, Completion
<1>4. a \in Addrs
  <2>1. issued \in Seq([addr : Addrs, conn : Ids])
    BY DEF IInv, TypeOK
  <2>2. issued[auth.state] \in [addr : Addrs, conn : Ids]
    BY <1>3, <2>1, ElementOfSeq, LenProperties
  <2> QED BY <2>2
<1>5. CASE auth.state \in pending_oauths /\ Live(a) /\ connections[a].pending_push_reply # None
  <2> DEFINE o == connections[a]
  <2> PICK c : c = Opened(o, auth.email, sent)
    OBVIOUS
  <2>1. /\ connections' = [connections EXCEPT ![a] = c]
        /\ completions' = IF sent THEN completions \cup {<<auth.state, o.id>>} ELSE completions
    BY <1>5 DEF handle_auth_completed, CompleteAt
  <2>2. o \in Connection /\ Coherent(o) /\ Admitted(a, o) /\ o.vpn_ip \in allocated \cup {None}
        /\ o.id \in Ids /\ o.pending_push_reply # None
    BY <1>4, <1>5, AtAddress DEF Connection
  <2> HIDE DEF o
  <2>3. /\ c \in Connection /\ c.id = o.id /\ c.keys = o.keys /\ c.vpn_ip = o.vpn_ip
        /\ c.username = auth.email /\ c.auth_method = "OAuth2" /\ c.pending_push_reply = None
        /\ c.told = IF sent THEN o.pending_push_reply ELSE o.told
        /\ c.state = IF sent THEN "Established" ELSE o.state
    BY <1>3, <2>2, OpenedFields
  <2>4. Coherent(c)
    BY <2>2, <2>3 DEF Coherent
  <2>5. Admitted(a, c)
    BY <1>2, <1>3, <2>3 DEF Admitted, LoggedIn
  <2>6. Becomes(a, c)
    <3>1. allocated' = allocated \cup ({c.vpn_ip} \ {None})
      BY <1>1, <2>2, <2>3
    <3> QED BY <1>1, <2>1, <2>3, <2>4, <2>5, <3>1 DEF Becomes, o
  <2>7. /\ Table' /\ Distinct' /\ Removal' /\ allocated' \subseteq Ips
        /\ connections' \in [Addrs -> Connection \cup {Absent}]
    BY <1>1, <1>4, <1>5, <2>6, BecomesTable
  <2>8. TypeOK'
    <3>1. completions' \subseteq Tokens \X Ids
      BY <1>3, <2>1, <2>2 DEF IInv, TypeOK
    <3> QED BY <1>1, <1>2, <2>7, <3>1 DEF IInv, TypeOK, cleanVars
  <2>9. Logins'
    <3>1. \A d \in completions' : d[1] \in DOMAIN issued' /\ d[1] \notin pending_oauths'
      BY <1>1, <1>3, <2>1 DEF IInv, Logins
    <3> QED BY <1>1, <1>2, <3>1 DEF IInv, Logins
  <2>10. TokenOpensOnce'
    <3>1. \A d \in completions : d[1] # auth.state
      BY <1>5 DEF IInv, Logins
    <3> QED BY <2>1, <3>1 DEF IInv, TokenOpensOnce
  <2> QED BY <2>7, <2>8, <2>9, <2>10 DEF IInv
<1>6. CASE ~(auth.state \in pending_oauths /\ Live(a) /\ connections[a].pending_push_reply # None)
  <2>1. UNCHANGED <<connections, completions>>
    BY <1>6 DEF handle_auth_completed, CompleteAt
  <2>2. TypeOK'
    BY <1>1, <1>2, <2>1 DEF IInv, TypeOK, cleanVars
  <2>3. Table' /\ Distinct' /\ Removal'
    BY <1>1, <2>1 DEF IInv, Table, Distinct, Removal, Live, Coherent, Admitted, LoggedIn, cleanVars
  <2>4. Logins' /\ TokenOpensOnce'
    BY <1>1, <1>2, <2>1 DEF IInv, Logins, TokenOpensOnce
  <2> QED BY <2>2, <2>3, <2>4 DEF IInv
<1> QED BY <1>5, <1>6

-----------------------------------------------------------------------------
(***************************************************************************)
(* The invariant and what follows from it.                                 *)
(***************************************************************************)
LEMMA InitIInv == Init => IInv
<1> SUFFICES ASSUME Init PROVE IInv
  OBVIOUS
<1>1. connections = [a \in Addrs |-> Absent] /\ \A a \in Addrs : ~Live(a) /\ connections[a].id = 0
  BY DEF Init, Live, Absent
<1>2. TypeOK
  <2>1. connections \in [Addrs -> Connection \cup {Absent}]
    BY <1>1
  <2>2. 0 \in 0 .. MaxConns[oauth_enabled]
    <3>1. oauth_enabled = TRUE \/ oauth_enabled = FALSE
      BY DEF Init
    <3>2. MaxConns[oauth_enabled] \in Nat
      BY <3>1
    <3> QED BY <3>2
  <2> QED BY <2>1, <2>2 DEF Init, TypeOK
<1>3. Table /\ Distinct
  BY <1>1 DEF Table, Distinct
<1>4. Logins /\ TokenOpensOnce
  BY DEF Init, Logins, TokenOpensOnce
<1>5. Removal
  BY <1>1 DEF Init, Removal
<1> QED BY <1>2, <1>3, <1>4, <1>5 DEF IInv

LEMMA NextIInv == IInv /\ [Next]_vars => IInv'
<1> SUFFICES ASSUME IInv, [Next]_vars PROVE IInv'
  OBVIOUS
<1>1. CASE Tick
  BY <1>1, TickIInv
<1>2. ASSUME NEW a \in Addrs, handle_hard_reset(a) \/ handle_data_packet(a) \/ ControlPacket(a)
      PROVE  IInv'
  <2>1. CASE handle_hard_reset(a)
    BY <2>1, HardResetIInv
  <2>2. CASE handle_data_packet(a)
    BY <2>2, TouchIInv DEF handle_data_packet
  <2>3. CASE ControlPacket(a)
    <3>1. CASE Touch(a)
      BY <3>1, TouchIInv
    <3>2. CASE PushRequest(a)
      BY <3>2, PushRequestIInv
    <3>3. CASE SoftReset(a)
      BY <3>3, SoftResetIInv
    <3>4. CASE NoKeyMethod(a)
      BY <3>4, NoKeyMethodIInv
    <3>5. ASSUME NEW user \in Claims \cup {None},
                 \/ KeyMethodUnsent(a, user)
                 \/ KeyMethodNoAddress(a, user)
                 \/ \E ip \in Ips :
                       \/ KeyMethodOAuth(a, user, ip)
                       \/ \E sent \in BOOLEAN : KeyMethodPlain(a, user, ip, sent)
          PROVE  IInv'
      <4>1. user \in Users \cup {None}
        OBVIOUS
      <4> QED BY <3>5, <4>1, KeyMethodUnsentIInv, KeyMethodNoAddressIInv, KeyMethodOAuthIInv,
                 KeyMethodPlainIInv
    <3> QED BY <2>3, <3>1, <3>2, <3>3, <3>4, <3>5 DEF ControlPacket
  <2> QED BY <1>2, <2>1, <2>2, <2>3
<1>3. ASSUME NEW t \in DOMAIN issued,
             OAuthLookup(t) \/ \E user \in Users : OAuthSend(t, user)
      PROVE  IInv'
  BY <1>3, LookupIInv, SendIInv
<1>4. CASE \E sent \in BOOLEAN : handle_auth_completed(sent)
  BY <1>4, CompletedIInv
<1>5. CASE CleanupCollect
  BY <1>5, CollectIInv
<1>6. CASE CleanupRemove
  BY <1>6, RemoveIInv
<1>7. CASE UNCHANGED vars
  <2>1. /\ UNCHANGED <<oauth_enabled, connections, allocated, pending_oauths, verifying>>
        /\ UNCHANGED <<auth_completed, stale, connCount, issued, verified, completions, disconnected>>
    BY <1>7 DEF vars, oauthVars, cleanVars
  <2>2. TypeOK' /\ Logins' /\ TokenOpensOnce' /\ Removal'
    BY <2>1 DEF IInv, TypeOK, Logins, TokenOpensOnce, Removal
  <2>3. Table' /\ Distinct'
    BY <2>1 DEF IInv, Table, Distinct, Live, Coherent, Admitted, LoggedIn
  <2> QED BY <2>2, <2>3 DEF IInv
<1> QED BY <1>1, <1>2, <1>3, <1>4, <1>5, <1>6, <1>7 DEF Next

\* The table of connections, the addresses, the tokens and the removals agree in
\* every state the server reaches.
THEOREM Invariance == Spec => []IInv
BY InitIInv, NextIInv, PTL DEF Spec

\* handle_tun_packet never has a choice: VPN addresses are not shared.
THEOREM RouteUnique == Spec => []RouteIsUnique
<1>1. IInv => RouteIsUnique
  <2> SUFFICES ASSUME IInv, NEW ip \in Ips PROVE Cardinality(RoutesTo(ip)) <= 1
    BY DEF RouteIsUnique
  <2>1. \A a, b \in RoutesTo(ip) : a = b
    BY DEF RoutesTo, Established, IInv, Distinct
  <2>2. CASE RoutesTo(ip) = {}
    BY <2>2, FS_EmptySet
  <2>3. CASE RoutesTo(ip) # {}
    <3>1. PICK a : RoutesTo(ip) = {a}
      BY <2>1, <2>3
    <3> QED BY <3>1, FS_Singleton
  <2> QED BY <2>2, <2>3
<1> QED BY <1>1, Invariance, PTL

\* An established connection has keys, and the address its client was told.
THEOREM Configuration == Spec => []EstablishedIsConfigured
<1>1. IInv => EstablishedIsConfigured
  BY DEF IInv, Table, Coherent, EstablishedIsConfigured, Established
<1> QED BY <1>1, Invariance, PTL

\* With OAuth, an established connection carries the user who logged in for it.
THEOREM Verification == Spec => []EstablishedIsVerified
<1>1. IInv => EstablishedIsVerified
  BY DEF IInv, Table, Admitted, LoggedIn, EstablishedIsVerified, Established
<1> QED BY <1>1, Invariance, PTL

\* A token opens one connection at most.
THEOREM TokenOnce == Spec => []TokenOpensOnce
<1>1. IInv => TokenOpensOnce
  BY DEF IInv
<1> QED BY <1>1, Invariance, PTL

\* No connection that was logged as disconnected outlives the cleanup.
THEOREM CleanupComplete == Spec => []DisconnectedIsGone
<1>1. IInv => DisconnectedIsGone
  BY DEF IInv, Removal, DisconnectedIsGone
<1> QED BY <1>1, Invariance, PTL

-----------------------------------------------------------------------------
(***************************************************************************)
(* The identity of an established connection.                              *)
(***************************************************************************)
Keeps(a) ==
    /\ connections'[a].vpn_ip = connections[a].vpn_ip
    /\ connections'[a].username = connections[a].username

\* Packets of an established connection change neither address nor user: what
\* could change them is tried before the connection is established only.
LEMMA PacketKeeps ==
    ASSUME IInv, NEW a \in Addrs, Established(a), NEW b \in Addrs,
           handle_data_packet(b) \/ ControlPacket(b)
    PROVE  Keeps(a)
<1>1. connections \in [Addrs -> Connection \cup {Absent}] /\ connections[a] \in Connection
  BY AtAddress DEF IInv, TypeOK, Established
<1>2. ~should_try_km(a)
  BY DEF Established, should_try_km
<1>3. CASE a # b
  <2>1. \E c : connections' = [connections EXCEPT ![b] = c]
    BY DEF handle_data_packet, ControlPacket, Touch, PushRequest, SoftReset, NoKeyMethod,
           KeyMethodUnsent, KeyMethodNoAddress, KeyMethodOAuth, KeyMethodPlain
  <2> QED BY <1>1, <1>3, <2>1 DEF Keeps
<1>4. CASE a = b
  <2>1. Touch(a) \/ PushRequest(a) \/ SoftReset(a)
    BY <1>2, <1>4 DEF handle_data_packet, ControlPacket, NoKeyMethod, KeyMethodUnsent,
                      KeyMethodNoAddress, KeyMethodOAuth, KeyMethodPlain
  <2> DEFINE t == Touched(connections[a])
  <2>2. /\ t \in Connection /\ t.vpn_ip = connections[a].vpn_ip
        /\ t.username = connections[a].username
    BY <1>1, TouchedFields
  <2>3. CASE Touch(a)
    BY <1>1, <2>2, <2>3 DEF Touch, Keeps
  <2>4. CASE PushRequest(a)
    <3>1. \E x : connections' = [connections EXCEPT ![a] = [t EXCEPT !.told = x]]
      BY <2>4 DEF PushRequest
    <3> HIDE DEF t
    <3> QED BY <1>1, <2>2, <3>1 DEF Keeps, Connection
  <2>5. CASE SoftReset(a)
    <3>1. connections' = [connections EXCEPT ![a] = [t EXCEPT !.state = "Rekeying"]]
      BY <2>5 DEF SoftReset
    <3> HIDE DEF t
    <3> QED BY <1>1, <2>2, <3>1 DEF Keeps, Connection
  <2> QED BY <2>1, <2>3, <2>4, <2>5
<1> QED BY <1>3, <1>4

\* A completion finds no reply at an established connection: with OAuth the login
\* has taken it, and without OAuth there are no tokens.
LEMMA CompletionKeeps ==
    ASSUME IInv, NEW a \in Addrs, Established(a), NEW sent \in BOOLEAN,
           handle_auth_completed(sent)
    PROVE  Keeps(a)
<1> DEFINE auth == Head(auth_completed)
           b == issued[auth.state].addr
<1>1. connections \in [Addrs -> Connection \cup {Absent}]
  BY DEF IInv, TypeOK
<1>2. CASE auth.state \in pending_oauths /\ Live(b) /\ connections[b].pending_push_reply # None
  <2>1. oauth_enabled
    <3>1. DOMAIN issued # {}
      BY <1>2 DEF IInv, TypeOK
    <3> QED BY <3>1 DEF IInv, Logins
  <2>2. connections[a].pending_push_reply = None
    BY <2>1 DEF Established, IInv, Table, Admitted
  <2>3. a # b
    BY <1>2, <2>2
  <2>4. \E c : connections' = [connections EXCEPT ![b] = c]
    BY <1>2 DEF handle_auth_completed, CompleteAt
  <2> QED BY <1>1, <2>3, <2>4 DEF Keeps
<1>3. CASE ~(auth.state \in pending_oauths /\ Live(b) /\ connections[b].pending_push_reply # None)
  BY <1>3 DEF handle_auth_completed, CompleteAt, Keeps
<1> QED BY <1>2, <1>3

\* Late completions, repeated key exchanges, resets and cleanups leave the address
\* and the user of an established connection alone.
THEOREM IdentityKept == Spec => EstablishedKeepsIdentity
<1>1. ASSUME IInv, [Next]_vars, NEW a \in Addrs, Established(a), Survives(a)
      PROVE  Keeps(a)
  <2>0. connections \in [Addrs -> Connection \cup {Absent}]
    BY <1>1 DEF IInv, TypeOK
  <2>1. CASE Tick
    <3> DEFINE o == connections[a]
    <3>1. o \in Connection
      BY <1>1, AtAddress DEF Established
    <3>2. \/ connections'[a] = o
          \/ connections'[a] = [o EXCEPT !.age = @ + 1]
      BY <2>1 DEF Tick
    <3> HIDE DEF o
    <3>3. connections'[a].vpn_ip = o.vpn_ip /\ connections'[a].username = o.username
      BY <3>1, <3>2 DEF Connection
    <3> QED BY <3>3 DEF Keeps, o
  <2>2. ASSUME NEW b \in Addrs, handle_hard_reset(b)
        PROVE  Keeps(a)
    <3>1. CASE a = b
      <4>1. connections'[a].id = connCount + 1
        BY <2>0, <2>2, <3>1 DEF handle_hard_reset, NewConnection
      <4>2. connections[a].id \in 1 .. connCount
        BY <1>1 DEF Established, IInv, Table
      <4> QED BY <1>1, <4>1, <4>2 DEF Survives, IInv, TypeOK
    <3>2. CASE a # b
      BY <2>0, <2>2, <3>2 DEF handle_hard_reset, Keeps
    <3> QED BY <3>1, <3>2
  <2>3. ASSUME NEW b \in Addrs, handle_data_packet(b) \/ ControlPacket(b)
        PROVE  Keeps(a)
    BY <1>1, <2>3, PacketKeeps
  <2>4. ASSUME NEW t \in DOMAIN issued,
               OAuthLookup(t) \/ \E user \in Users : OAuthSend(t, user)
        PROVE  Keeps(a)
    BY <2>4 DEF OAuthLookup, OAuthSend, Keeps
  <2>5. CASE \E sent \in BOOLEAN : handle_auth_completed(sent)
    BY <1>1, <2>5, CompletionKeeps
  <2>6. CASE CleanupCollect
    BY <2>6 DEF CleanupCollect, Keeps
  <2>7. CASE CleanupRemove
    <3>1. connections[a].id # Absent.id
      BY <1>1, Shape DEF IInv, Established, Absent
    <3>2. a \notin stale
      BY <1>1, <2>7, <3>1 DEF CleanupRemove, Survives
    <3> QED BY <2>7, <3>2 DEF CleanupRemove, Keeps
  <2>8. CASE UNCHANGED vars
    BY <2>8 DEF vars, Keeps
  <2> QED BY <1>1, <2>1, <2>2, <2>3, <2>4, <2>5, <2>6, <2>7, <2>8 DEF Next
<1>2. IInv /\ [Next]_vars =>
          [\A a \in Addrs :
              Established(a) /\ Survives(a) =>
                  /\ connections'[a].vpn_ip = connections[a].vpn_ip
                  /\ connections'[a].username = connections[a].username]_vars
  BY <1>1 DEF Keeps
<1> QED BY <1>2, Invariance, PTL DEF Spec, EstablishedKeepsIdentity
=============================================================================
