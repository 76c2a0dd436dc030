---------------------------- MODULE NativeClient ----------------------------
(***************************************************************************)
(* One connection attempt of corevpn-cli/src/client.rs against a server    *)
(* that does what corevpn-server/src/server.rs does with it: the phases of *)
(* connect_with_info with their timeouts and bounded loops, the messages   *)
(* of the server's TLS stream, and the data plane with its keepalive.      *)
(*                                                                         *)
(* A datagram is what process_packet makes of it: "HardResetAck",          *)
(* "TlsData", "None" (acknowledgements and the like), "Other", or "Bad"    *)
(* when it cannot be authenticated, parsed or decrypted.  The network may  *)
(* lose and delay datagrams, so a timeout may run out at any receive.      *)
(***************************************************************************)
EXTENDS Integers, Sequences

CONSTANTS MaxHandshake,   \* 50: MAX_HANDSHAKE_ATTEMPTS
          MaxKm,          \* 100: MAX_KM_ATTEMPTS
          PingRestart     \* ping-restart, in ping intervals

ASSUME ClientAssumption ==
    /\ MaxHandshake \in Nat /\ MaxKm \in Nat /\ PingRestart \in Nat

VARIABLES oauth,            \* the server asks for a login
          phase,            \* where connect_with_info is
          attempts,         \* handshake_attempts or km_attempts
          written,          \* messages the server has written to its TLS stream
          arrived,          \* how many of them the client's TLS layer has decrypted
          unread,           \* decrypted messages not yet read as plaintext
          total_plaintext,  \* read, and not yet parsed
          server_km,        \* the server's KeyMethodV2 was parsed
          push_reply,       \* "none", "full", or "noIfconfig"
          shown,            \* the login URL was printed
          loggedIn,         \* the user has logged in
          keys,             \* install_keys was called
          events,           \* what went through event_tx
          quiet,            \* the network delivers nothing any more
          silence           \* ping intervals since last_recv

tlsVars == <<written, arrived, unread>>
parsed == <<total_plaintext, server_km, push_reply, shown>>
vars == <<oauth, phase, attempts, tlsVars, parsed, loggedIn, keys, events, quiet, silence>>

Messages == {"KM", "AUTH_PENDING", "WEB_AUTH", "PUSH_REPLY", "PUSH_REPLY_noIfconfig", "PUSH_REPLY_bad"}
Replies == {"PUSH_REPLY", "PUSH_REPLY_noIfconfig", "PUSH_REPLY_bad"}
Receiving == {"reset", "handshake", "keyExchange", "dataPlane"}
Phases == Receiving \cup {"push", "tun", "closed", "failed"}

TypeOK ==
    /\ oauth \in BOOLEAN
    /\ phase \in Phases
    /\ attempts \in 0 .. MaxHandshake + MaxKm
    /\ written \in Seq(Messages)
    /\ arrived \in 0 .. Len(written)
    /\ unread \in Seq(Messages)
    /\ total_plaintext \in Seq(Messages)
    /\ server_km \in BOOLEAN
    /\ push_reply \in {"none", "full", "noIfconfig"}
    /\ shown \in BOOLEAN /\ loggedIn \in BOOLEAN /\ keys \in BOOLEAN /\ quiet \in BOOLEAN
    /\ events \in Seq({"PushReply", "Connected"})
    /\ silence \in 0 .. PingRestart + 1

\* The hard reset has been sent; the client waits for the answer.
Init ==
    /\ oauth \in BOOLEAN
    /\ phase = "reset"
    /\ attempts = 0
    /\ written = << >> /\ arrived = 0 /\ unread = << >>
    /\ total_plaintext = << >> /\ server_km = FALSE /\ push_reply = "none" /\ shown = FALSE
    /\ loggedIn = FALSE
    /\ keys = FALSE
    /\ events = << >>
    /\ quiet = FALSE
    /\ silence = 0

-----------------------------------------------------------------------------
\* connect_with_info returns: Ok from the data plane, Err from anywhere else.
Return(p) ==
    /\ phase' = p
    /\ UNCHANGED <<oauth, attempts, tlsVars, parsed, loggedIn, keys, events, quiet, silence>>

\* A receive under a timeout: 10 s for all of receive_until, 10 s for each
\* datagram of the handshake, 120 s for each of the key exchange.
Waiting ==
    \/ phase = "reset"
    \/ phase = "handshake" /\ attempts < MaxHandshake
    \/ phase = "keyExchange" /\ attempts < MaxKm /\ unread = << >>

Timeout == Waiting /\ Return("failed")

\* Before the data plane a datagram that cannot be processed ends the attempt.
ReceiveBad ==
    /\ Waiting
    /\ ~quiet
    /\ Return("failed")

\* receive_until returns on HardResetAck; the ACK and the ClientHello go out.
HardResetAck ==
    /\ phase = "reset"
    /\ ~quiet
    /\ phase' = "handshake"
    /\ attempts' = 0
    /\ UNCHANGED <<oauth, tlsVars, parsed, loggedIn, keys, events, quiet, silence>>

\* setup_tls_client cannot use the certificates, or the send window is full.
SetupFails ==
    /\ phase \in {"reset", "handshake"}
    /\ ~quiet
    /\ Return("failed")

\* The loop counter runs out before the next receive.
TooManyHandshakes ==
    /\ phase = "handshake"
    /\ attempts >= MaxHandshake
    /\ Return("failed")

\* A datagram that does not complete the TLS handshake.
HandshakeContinues ==
    /\ phase = "handshake"
    /\ attempts < MaxHandshake
    /\ ~quiet
    /\ attempts' = attempts + 1
    /\ UNCHANGED <<oauth, phase, tlsVars, parsed, loggedIn, keys, events, quiet, silence>>

\* The handshake is complete: Finished and key_method_v2 leave together.
HandshakeCompletes ==
    /\ phase = "handshake"
    /\ attempts < MaxHandshake
    /\ ~quiet
    /\ phase' = "keyExchange"
    /\ attempts' = 0
    /\ UNCHANGED <<oauth, tlsVars, parsed, loggedIn, keys, events, quiet, silence>>

-----------------------------------------------------------------------------
(***************************************************************************)
(* The server's side of the TLS stream.                                    *)
(***************************************************************************)
WaitsForReply == phase = "keyExchange"

\* key_method_v2, followed by the reply or by the request to log in.
ServerAnswers(reply) ==
    /\ WaitsForReply
    /\ written = << >>
    /\ written' = IF oauth THEN <<"KM", "AUTH_PENDING", "WEB_AUTH">> ELSE <<"KM", reply>>
    /\ UNCHANGED <<oauth, phase, attempts, arrived, unread, parsed, loggedIn, keys, events, quiet, silence>>

\* The user opens the URL that was printed and logs in; the reply goes out.
UserLogsIn(reply) ==
    /\ oauth /\ shown /\ ~loggedIn
    /\ WaitsForReply
    /\ loggedIn' = TRUE
    /\ written' = Append(written, reply)
    /\ UNCHANGED <<oauth, phase, attempts, arrived, unread, parsed, keys, events, quiet, silence>>

-----------------------------------------------------------------------------
(***************************************************************************)
(* The key exchange loop: plaintext that is there is read first, else the  *)
(* client waits for a datagram.                                            *)
(***************************************************************************)
\* The TLS records of a datagram, in order; one datagram may carry several
\* messages of the server, because it flushes them together.
TlsDataArrives ==
    /\ phase = "keyExchange"
    /\ unread = << >>
    /\ attempts < MaxKm
    /\ ~quiet
    /\ \E n \in arrived + 1 .. Len(written) :
          /\ unread' = SubSeq(written, arrived + 1, n)
          /\ arrived' = n
    /\ attempts' = attempts + 1
    /\ UNCHANGED <<oauth, phase, written, parsed, loggedIn, keys, events, quiet, silence>>

\* Mutant of NothingArrives: a retransmission starts the count anew.
NothingArrivesRestarting ==
    /\ phase = "keyExchange"
    /\ unread = << >>
    /\ attempts < MaxKm
    /\ ~quiet
    /\ \E retransmitted \in BOOLEAN : attempts' = IF retransmitted THEN 0 ELSE attempts + 1
    /\ UNCHANGED <<oauth, phase, tlsVars, parsed, loggedIn, keys, events, quiet, silence>>

\* Acknowledgements, session tickets, anything unexpected.
NothingArrives ==
    /\ phase = "keyExchange"
    /\ unread = << >>
    /\ attempts < MaxKm
    /\ ~quiet
    /\ attempts' = attempts + 1
    /\ UNCHANGED <<oauth, phase, tlsVars, parsed, loggedIn, keys, events, quiet, silence>>

TooManyKm ==
    /\ phase = "keyExchange"
    /\ attempts >= MaxKm
    /\ Return("failed")

\* What is left of the buffer once the server's KeyMethodV2 was taken off it.
StartsWithKm(buf) == buf # << >> /\ Head(buf) = "KM"
AfterKm(buf) == IF ~server_km /\ StartsWithKm(buf) THEN Tail(buf) ELSE buf

Contains(buf, m) == \E i \in DOMAIN buf : buf[i] = m

\* Which message try_parse_server_messages makes of the text in its buffer: a
\* reply at its start, else a login request anywhere in it, else a URL at its
\* start.
Recognised(text) ==
    IF text = << >> THEN "nothing"
    ELSE IF Head(text) \in Replies THEN Head(text)
    ELSE IF Contains(text, "AUTH_PENDING") THEN "AUTH_PENDING"
    ELSE IF Head(text) = "WEB_AUTH" THEN "WEB_AUTH"
    ELSE "nothing"

\* try_parse_server_messages on the buffer read so far.  A login request is
\* dropped with everything else that was read with it.
ParseMessages(buf) ==
    LET rest  == AfterKm(buf)
        found == IF server_km \/ StartsWithKm(buf) THEN Recognised(rest) ELSE "nothing"
    IN  /\ server_km' = (server_km \/ StartsWithKm(buf))
        /\ total_plaintext' = IF found \in {"AUTH_PENDING", "WEB_AUTH"} THEN << >> ELSE rest
        /\ shown' = (shown \/ found = "WEB_AUTH")
        /\ push_reply' = CASE found = "PUSH_REPLY" -> "full"
                            [] found = "PUSH_REPLY_noIfconfig" -> "noIfconfig"
                            [] OTHER -> push_reply
        /\ phase' = CASE found = "PUSH_REPLY_bad" -> "failed"
                       [] found \in Replies \ {"PUSH_REPLY_bad"} -> "push"
                       [] OTHER -> phase

ReadPlaintext ==
    /\ phase = "keyExchange"
    /\ unread # << >>
    /\ attempts < MaxKm
    /\ attempts' = attempts + 1
    /\ unread' = << >>
    /\ ParseMessages(total_plaintext \o unread)
    /\ UNCHANGED <<oauth, written, arrived, loggedIn, keys, events, quiet, silence>>

-----------------------------------------------------------------------------
\* Mutant of ReportConfiguration: the event is sent when the keys are there.
ReportConfigurationLate ==
    /\ phase = "push"
    /\ keys' = TRUE
    /\ phase' = "tun"
    /\ UNCHANGED <<oauth, attempts, tlsVars, parsed, loggedIn, events, quiet, silence>>

\* The PushReply event, key derivation and install_keys.
ReportConfiguration ==
    /\ phase = "push"
    /\ events' = Append(events, "PushReply")
    /\ keys' = server_km
    /\ phase' = "tun"
    /\ UNCHANGED <<oauth, attempts, tlsVars, parsed, loggedIn, quiet, silence>>

\* PUSH_REPLY without ifconfig, or no TUN device: the attempt fails after its
\* configuration was reported.
TunFails ==
    /\ phase = "tun"
    /\ Return("failed")

\* Mutant of TunUp: a reply without ifconfig is configured from defaults.
TunUpAnyway ==
    /\ phase = "tun"
    /\ events' = Append(events, "Connected")
    /\ phase' = "dataPlane"
    /\ silence' = 0
    /\ UNCHANGED <<oauth, attempts, tlsVars, parsed, loggedIn, keys, quiet>>

\* The TUN device is up; the Connected event; run_data_plane begins.
TunUp ==
    /\ phase = "tun"
    /\ push_reply = "full"
    /\ events' = Append(events, "Connected")
    /\ phase' = "dataPlane"
    /\ silence' = 0
    /\ UNCHANGED <<oauth, attempts, tlsVars, parsed, loggedIn, keys, quiet>>

\* Any datagram counts as a sign of life, whether it can be processed or not.
DataPlaneReceives ==
    /\ phase = "dataPlane"
    /\ ~quiet
    /\ silence' = 0
    /\ UNCHANGED <<oauth, phase, attempts, tlsVars, parsed, loggedIn, keys, events, quiet>>

\* Mutant of PingTick: a ping that is sent counts as activity.
PingTickTouching ==
    /\ phase = "dataPlane"
    /\ IF silence > PingRestart THEN phase' = "closed" /\ UNCHANGED silence
       ELSE phase' = phase /\ silence' = 0
    /\ UNCHANGED <<oauth, attempts, tlsVars, parsed, loggedIn, keys, events, quiet>>

\* ping_timer: the connection is given up when nothing came for ping-restart,
\* else a ping is sent, and another interval of silence begins.
PingTick ==
    /\ phase = "dataPlane"
    /\ IF silence > PingRestart THEN phase' = "closed" /\ UNCHANGED silence
       ELSE phase' = phase /\ silence' = silence + 1
    /\ UNCHANGED <<oauth, attempts, tlsVars, parsed, loggedIn, keys, events, quiet>>

\* The TUN device is closed or fails, or the socket does.
DataPlaneEnds ==
    /\ phase = "dataPlane"
    /\ Return("closed")

\* The network, or the server, goes away for good.
GoQuiet ==
    /\ ~quiet
    /\ quiet' = TRUE
    /\ UNCHANGED <<oauth, phase, attempts, tlsVars, parsed, loggedIn, keys, events, silence>>

KeyExchange == TlsDataArrives \/ NothingArrives \/ TooManyKm \/ ReadPlaintext

Environment ==
    \/ \E reply \in Replies : ServerAnswers(reply) \/ UserLogsIn(reply)
    \/ GoQuiet

Next ==
    \/ Timeout \/ ReceiveBad
    \/ HardResetAck \/ SetupFails
    \/ TooManyHandshakes \/ HandshakeContinues \/ HandshakeCompletes
    \/ KeyExchange
    \/ ReportConfiguration \/ TunFails \/ TunUp
    \/ DataPlaneReceives \/ PingTick \/ DataPlaneEnds
    \/ Environment

\* A receive ends with a datagram or with its timeout; the task goes on when
\* it waits for nothing; ticks of the ping timer come.  Nothing is assumed of
\* the server, the user or the network.
Fairness ==
    /\ WF_vars(Timeout \/ ReceiveBad \/ HardResetAck \/ HandshakeContinues
               \/ HandshakeCompletes \/ TlsDataArrives \/ NothingArrives)
    /\ WF_vars(TooManyHandshakes \/ TooManyKm \/ ReadPlaintext)
    /\ WF_vars(ReportConfiguration \/ TunUp \/ TunFails)
    /\ WF_vars(PingTick)

Spec == Init /\ [][Next]_vars

FairSpec == Spec /\ Fairness

-----------------------------------------------------------------------------
\* What the listener of event_tx has seen of the attempt.
Stage ==
    IF phase \in {"closed", "failed"} THEN "ended"
    ELSE IF events = << >> THEN "connecting"
    ELSE IF events[Len(events)] = "Connected" THEN "connected"
    ELSE IF push_reply = "full" THEN "configured" ELSE "unaddressed"

Task == INSTANCE ClientTask WITH stage <- Stage

\* connect_with_info implements ClientTask: its listener hears of the
\* configuration before it hears that the tunnel is up, never of a tunnel
\* without an address, and of nothing after the end, whatever fails in between (client.rs:370-453).
TaskSpec == Task!Spec

\* The data plane runs only with keys that both ends derived, an address from
\* the server and, where the server asks for it, after a login.
DataPlaneIsReady ==
    phase = "dataPlane" =>
        /\ keys
        /\ push_reply = "full"
        /\ oauth => loggedIn

\* No stream of datagrams keeps an attempt in the handshake or in the key
\* exchange for ever: each of the loops is bounded (client.rs:184-187, 279-282).
Settles == <>(phase \in {"dataPlane", "closed", "failed"})

\* When the server or the network has gone for good the attempt ends, the data
\* plane through ping-restart (client.rs:766-771).
SilenceEnds == quiet ~> (phase \in {"closed", "failed"})
=============================================================================
