----------------------------- MODULE VpnServer ------------------------------
(***************************************************************************)
(* The server of corevpn-server/src/server.rs: the table of connections,   *)
(* the tasks that work on it and the OAuth completions that reach it.  The *)
(* main loop handles one packet or one completion at a time; the handlers  *)
(* of the OAuth HTTP server and the cleanup task run beside it, and the    *)
(* awaits inside them are the places where it overtakes them.              *)
(*                                                                         *)
(* TLS, the identity provider and the client are the environment: any      *)
(* packet may come from any address at any time.  The data plane of a      *)
(* connection is the module DataChannel, the reliability layer of its      *)
(* control channel ReliableTransport, the pool AddressPool.                *)
(***************************************************************************)
EXTENDS Integers, FiniteSets, Sequences

CONSTANTS Addrs,         \* socket addresses of peers
          Ips,           \* VPN addresses of the pool
          Users,         \* e-mail addresses
          Allowed,       \* those in allowed_domains
          Claims,        \* names a client may put into its key_method_v2
          None,          \* Rust's None
          RetryTimeout,  \* 30 s: a hard reset within it is a retransmission
          IdleTimeout,   \* idle_timeout_sec, 0 for no timeout
          MaxAge,        \* bound on the measured age of an activity
          MaxConns,      \* bound on the connections created, with OAuth and without
          MaxTokens,     \* bound on the OAuth state tokens issued
          ChannelCap     \* 32: capacity of the auth_completed channel

ASSUME ServerAssumption ==
    /\ Allowed \subseteq Users /\ Claims \subseteq Users
    /\ None \notin Ips \cup Users
    /\ RetryTimeout \in Nat /\ IdleTimeout \in Nat /\ MaxAge \in Nat
    /\ MaxConns \in [BOOLEAN -> Nat]
    /\ MaxTokens \in Nat /\ ChannelCap \in Nat

Ids == 1 .. (MaxConns[TRUE] + MaxConns[FALSE])
Tokens == 1 .. MaxTokens
States == {"TlsHandshake", "KeyExchange", "Established", "Rekeying"}

Connection ==
    [id : Ids,                         \* connection_id
     state : States,                   \* protocol.state()
     keys : BOOLEAN,                   \* install_keys has been called
     vpn_ip : Ips \cup {None},
     username : Users \cup {None},
     auth_method : {"Unknown", "Certificate", "OAuth2"},
     pending_push_reply : Ips \cup {None},  \* the address in the reply
     told : Ips \cup {None},           \* history: the address the client was told
     age : 0 .. MaxAge]                \* time since last_activity

Absent == [id |-> 0]

VARIABLES oauth_enabled,   \* the configuration: oauth.enabled
          connections,     \* what each address maps to, Absent if nothing
          allocated,       \* VPN addresses taken from address_pool
          pending_oauths,  \* tokens that wait for a login
          verifying,       \* tokens an HTTP handler has found pending
          auth_completed,  \* the channel from the HTTP server to the main loop
          stale,           \* addresses the cleanup task is about to remove
          connCount,       \* connections created so far
          issued,          \* history: address and connection of every token issued
          verified,        \* history: logins the HTTP server has let through
          completions,     \* history: tokens and the connections they opened
          disconnected     \* history: connections logged as timed out

oauthVars == <<oauth_enabled, pending_oauths, verifying, auth_completed, issued, verified, completions>>
cleanVars == <<stale, disconnected>>
vars == <<connections, allocated, connCount, oauthVars, cleanVars>>

Completion == [state : Tokens, email : Users]

TypeOK ==
    /\ oauth_enabled \in BOOLEAN
    /\ connections \in [Addrs -> Connection \cup {Absent}]
    /\ allocated \subseteq Ips
    /\ pending_oauths \subseteq DOMAIN issued
    /\ verifying \subseteq DOMAIN issued
    /\ auth_completed \in Seq(Completion)
    /\ Len(auth_completed) <= ChannelCap
    /\ stale \subseteq Addrs
    /\ connCount \in 0 .. MaxConns[oauth_enabled]
    /\ issued \in Seq([addr : Addrs, conn : Ids])
    /\ verified \subseteq Completion
    /\ completions \subseteq Tokens \X Ids
    /\ disconnected \subseteq Ids

Init ==
    /\ oauth_enabled \in BOOLEAN
    /\ connections = [a \in Addrs |-> Absent]
    /\ allocated = {}
    /\ pending_oauths = {}
    /\ verifying = {}
    /\ auth_completed = << >>
    /\ stale = {}
    /\ connCount = 0
    /\ issued = << >>
    /\ verified = {}
    /\ completions = {}
    /\ disconnected = {}

-----------------------------------------------------------------------------
Live(a) == connections[a] # Absent

is_stale(conn, timeout) == conn.age > timeout

\* The connection with touch() applied.
Touched(conn) == [conn EXCEPT !.age = 0]

\* Time passes for all connections.
Tick ==
    /\ connections' = [a \in Addrs |->
                          IF Live(a) /\ connections[a].age < MaxAge
                          THEN [connections[a] EXCEPT !.age = @ + 1]
                          ELSE connections[a]]
    /\ UNCHANGED <<allocated, connCount, oauthVars, cleanVars>>

\* Connection::new, after process_packet has seen the hard reset.
NewConnection(id) ==
    [id |-> id, state |-> "TlsHandshake", keys |-> FALSE, vpn_ip |-> None,
     username |-> None, auth_method |-> "Unknown",
     pending_push_reply |-> None, told |-> None, age |-> 0]

\* handle_hard_reset.  A connection that was active lately gets the cached
\* response and stays as it is; any other one is replaced.
handle_hard_reset(a) ==
    /\ Live(a) => is_stale(connections[a], RetryTimeout)
    /\ connCount < MaxConns[oauth_enabled]
    /\ connCount' = connCount + 1
    /\ connections' = [connections EXCEPT ![a] = NewConnection(connCount + 1)]
    /\ UNCHANGED <<allocated, oauthVars, cleanVars>>

\* Control packets that change nothing here but last_activity: acknowledgements,
\* TLS records of a handshake in progress, packets that tls-auth or TLS refuse.
Touch(a) ==
    /\ Live(a)
    /\ connections' = [connections EXCEPT ![a] = Touched(@)]
    /\ UNCHANGED <<allocated, connCount, oauthVars, cleanVars>>

\* A data packet counts as activity in every state, also when it is dropped
\* because the connection is not established or cannot be decrypted.
handle_data_packet(a) == Touch(a)

\* PUSH_REQUEST is answered from the stored reply, as often as it comes; a
\* completion has taken the reply, and then there is only a warning.
PushRequest(a) ==
    /\ Live(a)
    /\ connections[a].state = "Established"
    /\ connections' = [connections EXCEPT ![a] =
           [Touched(@) EXCEPT !.told = IF connections[a].pending_push_reply = None
                                       THEN connections[a].told
                                       ELSE connections[a].pending_push_reply]]
    /\ UNCHANGED <<allocated, connCount, oauthVars, cleanVars>>

\* P_CONTROL_SOFT_RESET_V1, accepted in any state.
SoftReset(a) ==
    /\ Live(a)
    /\ connections' = [connections EXCEPT ![a] = [Touched(@) EXCEPT !.state = "Rekeying"]]
    /\ UNCHANGED <<allocated, connCount, oauthVars, cleanVars>>

-----------------------------------------------------------------------------
(***************************************************************************)
(* TLS data once the TLS handshake is complete.                            *)
(***************************************************************************)
should_try_km(a) == Live(a) /\ connections[a].state \in {"TlsHandshake", "KeyExchange"}

\* The connection after the TLS handshake was found to be complete.
HandshakeComplete(conn) ==
    IF conn.state = "TlsHandshake"
    THEN [Touched(conn) EXCEPT !.state = "KeyExchange", !.auth_method = "Certificate"]
    ELSE Touched(conn)

\* No key_method_v2 message yet, or one that cannot be read or parsed.
NoKeyMethod(a) ==
    /\ should_try_km(a)
    /\ connections' = [connections EXCEPT ![a] = HandshakeComplete(@)]
    /\ UNCHANGED <<allocated, connCount, oauthVars, cleanVars>>

\* A key_method_v2 message that names user, or nobody.
Named(conn, user) ==
    IF user = None THEN HandshakeComplete(conn)
    ELSE [HandshakeComplete(conn) EXCEPT !.username = user]

\* The send window is full when the server's key_method_v2 goes out.
KeyMethodUnsent(a, user) ==
    /\ should_try_km(a)
    /\ connections' = [connections EXCEPT ![a] = Named(@, user)]
    /\ UNCHANGED <<allocated, connCount, oauthVars, cleanVars>>

\* Data channel keys are installed, the pool is exhausted.
KeyMethodNoAddress(a, user) ==
    /\ should_try_km(a)
    /\ allocated = Ips
    /\ connections' = [connections EXCEPT ![a] = [Named(@, user) EXCEPT !.keys = TRUE]]
    /\ UNCHANGED <<allocated, connCount, oauthVars, cleanVars>>

\* The connection with keys, an address and a PUSH_REPLY ready.
Configured(conn, user, ip) ==
    [Named(conn, user) EXCEPT !.keys = TRUE, !.vpn_ip = ip,
                              !.pending_push_reply = ip]

\* OAuth: the reply waits until the user has logged in.
KeyMethodOAuth(a, user, ip) ==
    /\ oauth_enabled
    /\ should_try_km(a)
    /\ ip \notin allocated
    /\ Len(issued) < MaxTokens
    /\ allocated' = allocated \cup {ip}
    /\ connections' = [connections EXCEPT ![a] = Configured(@, user, ip)]
    /\ issued' = Append(issued, [addr |-> a, conn |-> connections[a].id])
    /\ pending_oauths' = pending_oauths \cup {Len(issued) + 1}
    /\ UNCHANGED <<oauth_enabled, connCount, verifying, auth_completed, verified, completions, cleanVars>>

\* No OAuth: the reply goes out at once, unless the send window is full.
KeyMethodPlain(a, user, ip, sent) ==
    /\ ~oauth_enabled
    /\ should_try_km(a)
    /\ ip \notin allocated
    /\ allocated' = allocated \cup {ip}
    /\ connections' = [connections EXCEPT ![a] =
           IF sent THEN [Configured(@, user, ip) EXCEPT !.state = "Established", !.told = ip]
           ELSE Configured(@, user, ip)]
    /\ UNCHANGED <<connCount, oauthVars, cleanVars>>

-----------------------------------------------------------------------------
(***************************************************************************)
(* oauth_callback and oauth_complete.  The token is looked up first, the   *)
(* identity provider is asked next, which takes several awaits, and the    *)
(* completion is sent last.  Any number of requests may be on their way    *)
(* for one token.                                                          *)
(***************************************************************************)
OAuthLookup(t) ==
    /\ t \in pending_oauths
    /\ verifying' = verifying \cup {t}
    /\ UNCHANGED <<oauth_enabled, connections, allocated, connCount, pending_oauths, auth_completed,
                   issued, verified, completions, cleanVars>>

\* The identity provider gives an e-mail address for the code, and its domain
\* is one of allowed_domains.  Any other answer ends the request.
Identified(user) == user \in Allowed

\* Mutant of OAuthSend: no check of the domain.
OAuthSendAnyDomain(t, user) ==
    /\ t \in verifying
    /\ Len(auth_completed) < ChannelCap
    /\ auth_completed' = Append(auth_completed, [state |-> t, email |-> user])
    /\ verified' = verified \cup {[state |-> t, email |-> user]}
    /\ UNCHANGED <<oauth_enabled, connections, allocated, connCount, pending_oauths, verifying,
                   issued, completions, cleanVars>>

OAuthSend(t, user) ==
    /\ t \in verifying
    /\ Identified(user)
    /\ Len(auth_completed) < ChannelCap
    /\ auth_completed' = Append(auth_completed, [state |-> t, email |-> user])
    /\ verified' = verified \cup {[state |-> t, email |-> user]}
    /\ UNCHANGED <<oauth_enabled, connections, allocated, connCount, pending_oauths, verifying,
                   issued, completions, cleanVars>>

\* Mutant of Opened: the reply is copied, not taken.
OpenedKeepingReply(conn, email, sent) ==
    [conn EXCEPT !.username = email, !.auth_method = "OAuth2",
                 !.told = IF sent THEN conn.pending_push_reply ELSE @,
                 !.state = IF sent THEN "Established" ELSE @]

\* The connection opened by a completion; the reply is taken in any case, the
\* state changes only when TLS and the send window take the reply.
Opened(conn, email, sent) ==
    [conn EXCEPT !.pending_push_reply = None, !.username = email, !.auth_method = "OAuth2",
                 !.told = IF sent THEN conn.pending_push_reply ELSE @,
                 !.state = IF sent THEN "Established" ELSE @]

\* Mutant of CompleteAt: whatever connection is there is opened.
CompleteAtAnyway(a, auth, sent) ==
    IF Live(a)
    THEN /\ connections' = [connections EXCEPT ![a] = Opened(@, auth.email, sent)]
         /\ completions' = IF sent THEN completions \cup {<<auth.state, connections[a].id>>}
                           ELSE completions
    ELSE UNCHANGED <<connections, completions>>

\* What a completion does to the connection at address a.
CompleteAt(a, auth, sent) ==
    IF Live(a) /\ connections[a].pending_push_reply # None
    THEN /\ connections' = [connections EXCEPT ![a] = Opened(@, auth.email, sent)]
         /\ completions' = IF sent THEN completions \cup {<<auth.state, connections[a].id>>}
                           ELSE completions
    ELSE UNCHANGED <<connections, completions>>

\* Mutants of handle_auth_completed: the token is never removed, and it is
\* removed only when there is a connection for it.
handle_auth_completed_reusing(sent) ==
    /\ auth_completed # << >>
    /\ LET auth == Head(auth_completed)
       IN  IF auth.state \in pending_oauths
           THEN CompleteAt(issued[auth.state].addr, auth, sent)
           ELSE UNCHANGED <<connections, completions>>
    /\ auth_completed' = Tail(auth_completed)
    /\ UNCHANGED <<oauth_enabled, allocated, connCount, pending_oauths, verifying, issued, verified, cleanVars>>

handle_auth_completed_late_remove(sent) ==
    /\ auth_completed # << >>
    /\ LET auth == Head(auth_completed)
       IN  IF auth.state \in pending_oauths /\ Live(issued[auth.state].addr)
           THEN /\ CompleteAt(issued[auth.state].addr, auth, sent)
                /\ pending_oauths' = pending_oauths \ {auth.state}
           ELSE UNCHANGED <<connections, completions, pending_oauths>>
    /\ auth_completed' = Tail(auth_completed)
    /\ UNCHANGED <<oauth_enabled, allocated, connCount, verifying, issued, verified, cleanVars>>

handle_auth_completed(sent) ==
    /\ auth_completed # << >>
    /\ LET auth == Head(auth_completed)
       IN  IF auth.state \in pending_oauths
           THEN CompleteAt(issued[auth.state].addr, auth, sent)
           ELSE UNCHANGED <<connections, completions>>
    /\ pending_oauths' = pending_oauths \ {Head(auth_completed).state}
    /\ auth_completed' = Tail(auth_completed)
    /\ UNCHANGED <<oauth_enabled, allocated, connCount, verifying, issued, verified, cleanVars>>

-----------------------------------------------------------------------------
(***************************************************************************)
(* cleanup_stale_connections: the stale connections are collected under    *)
(* the read lock, logged, which awaits, and removed by address under the   *)
(* write lock.                                                             *)
(***************************************************************************)
Stale == {a \in Addrs : Live(a) /\ is_stale(connections[a], IdleTimeout)}

\* Mutants of CleanupCollect: the VPN addresses are released before the
\* connections are removed, and connections that wait for a login are spared.
CleanupCollectReleasing ==
    /\ IdleTimeout > 0
    /\ stale = {}
    /\ Stale # {}
    /\ stale' = Stale
    /\ disconnected' = disconnected \cup {connections[a].id : a \in Stale}
    /\ allocated' = allocated \ {connections[a].vpn_ip : a \in Stale}
    /\ UNCHANGED <<connections, connCount, oauthVars>>

CleanupCollectEstablished ==
    /\ IdleTimeout > 0
    /\ stale = {}
    /\ stale' = {a \in Stale : connections[a].state = "Established"}
    /\ stale' # {}
    /\ disconnected' = disconnected \cup {connections[a].id : a \in stale'}
    /\ UNCHANGED <<connections, allocated, connCount, oauthVars>>

CleanupCollect ==
    /\ IdleTimeout > 0
    /\ stale = {}
    /\ Stale # {}
    /\ stale' = Stale
    /\ disconnected' = disconnected \cup {connections[a].id : a \in Stale}
    /\ UNCHANGED <<connections, allocated, connCount, oauthVars>>

\* Mutant of CleanupRemove: a connection that came back to life is kept.
CleanupRemoveRechecking ==
    /\ stale # {}
    /\ connections' = [a \in Addrs |-> IF a \in stale \cap Stale THEN Absent
                                       ELSE connections[a]]
    /\ stale' = {}
    /\ UNCHANGED <<allocated, connCount, oauthVars, disconnected>>

CleanupRemove ==
    /\ stale # {}
    /\ connections' = [a \in Addrs |-> IF a \in stale THEN Absent ELSE connections[a]]
    /\ stale' = {}
    /\ UNCHANGED <<allocated, connCount, oauthVars, disconnected>>

ControlPacket(a) ==
    \/ Touch(a)
    \/ PushRequest(a)
    \/ SoftReset(a)
    \/ NoKeyMethod(a)
    \/ \E user \in Claims \cup {None} :
          \/ KeyMethodUnsent(a, user)
          \/ KeyMethodNoAddress(a, user)
          \/ \E ip \in Ips :
                \/ KeyMethodOAuth(a, user, ip)
                \/ \E sent \in BOOLEAN : KeyMethodPlain(a, user, ip, sent)

Next ==
    \/ Tick
    \/ \E a \in Addrs : handle_hard_reset(a) \/ handle_data_packet(a) \/ ControlPacket(a)
    \/ \E t \in DOMAIN issued : OAuthLookup(t) \/ \E user \in Users : OAuthSend(t, user)
    \/ \E sent \in BOOLEAN : handle_auth_completed(sent)
    \/ CleanupCollect
    \/ CleanupRemove

\* tokio runs every task that is ready; select! picks among the branches that
\* are ready at random, so the completion branch is not passed over for ever.
Fairness ==
    /\ WF_vars(\E sent \in BOOLEAN : handle_auth_completed(sent))
    /\ WF_vars(CleanupCollect)
    /\ WF_vars(CleanupRemove)

Spec == Init /\ [][Next]_vars

FairSpec == Spec /\ Fairness

-----------------------------------------------------------------------------
Established(a) == Live(a) /\ connections[a].state = "Established"

\* The connections handle_tun_packet would pick for a packet to ip.
RoutesTo(ip) == {a \in Addrs : Established(a) /\ connections[a].vpn_ip = ip}

\* Whether address a is mapped to the same connection before and after a step.
Survives(a) == Live(a) /\ connections'[a].id = connections[a].id

(***************************************************************************)
(* handle_tun_packet takes the first established connection that has the   *)
(* destination address: there is never a second one, however often a       *)
(* client is reset, cleaned up, or repeats its key exchange.               *)
(***************************************************************************)
RouteIsUnique == \A ip \in Ips : Cardinality(RoutesTo(ip)) <= 1

(***************************************************************************)
(* An established connection can carry traffic: it has data channel keys   *)
(* and an address of the pool, and the client was told the very address    *)
(* the server routes to it, on every path that sets the state, including a *)
(* completion that finds another connection than it was for.               *)
(***************************************************************************)
EstablishedIsConfigured ==
    \A a \in Addrs :
        Established(a) => /\ connections[a].keys
                          /\ connections[a].vpn_ip # None
                          /\ connections[a].told = connections[a].vpn_ip

(***************************************************************************)
(* With OAuth, a connection is established only after a permitted user has *)
(* logged in for a token that was given to its address, and it is this     *)
(* user that the connection carries, not the name the client claimed in    *)
(* its key_method_v2 message.                                              *)
(***************************************************************************)
EstablishedIsVerified ==
    oauth_enabled =>
        \A a \in Addrs :
            Established(a) =>
                /\ connections[a].auth_method = "OAuth2"
                /\ connections[a].username \in Allowed
                /\ \E v \in verified : /\ v.email = connections[a].username
                                       /\ issued[v.state].addr = a

(***************************************************************************)
(* A token opens one connection at most, although the HTTP server may      *)
(* queue several completions for it before the first one is handled.       *)
(***************************************************************************)
TokenOpensOnce ==
    \A c, d \in completions : c[1] = d[1] => c = d

(***************************************************************************)
(* Once a connection is established its address and its user stay what     *)
(* they are: late completions and repeated key exchanges change neither.   *)
(***************************************************************************)
EstablishedKeepsIdentity ==
    [][\A a \in Addrs :
          Established(a) /\ Survives(a) =>
              /\ connections'[a].vpn_ip = connections[a].vpn_ip
              /\ connections'[a].username = connections[a].username]_vars

(***************************************************************************)
(* A connection that was logged as disconnected is not in the table any    *)
(* more once the cleanup is over, whatever it did in the meantime.         *)
(***************************************************************************)
DisconnectedIsGone ==
    stale = {} => \A a \in Addrs : connections[a].id \notin disconnected

(***************************************************************************)
(* Every completion that reaches the channel retires its token, whether or *)
(* not there is still a connection for it.                                 *)
(***************************************************************************)
CompletionRetiresToken ==
    \A t \in Tokens :
        (\E i \in DOMAIN auth_completed : auth_completed[i].state = t)
            ~> t \notin pending_oauths

(***************************************************************************)
(* "Idle timeout in seconds before a connection is dropped": an address    *)
(* does not stay occupied by an idle connection.                           *)
(***************************************************************************)
IdleConnectionGoes == \A a \in Addrs : (a \in Stale) ~> (a \notin Stale)

=============================================================================
