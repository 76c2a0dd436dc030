---------------------------- MODULE KeyExchange -----------------------------
(***************************************************************************)
(* The control channel of one connection, from the profile and the hard    *)
(* reset to the keys of the data channel: the client's messages are        *)
(* encoded, put into TLS records, split over control packets, signed, and  *)
(* at the other end verified, parsed, reassembled and read                 *)
(* (ProtocolSession of corevpn-protocol, handle_control_packet of          *)
(* corevpn-server, connect_with_info of corevpn-cli).  TLS is a pair of    *)
(* ideal streams: its handshake is the client's last record of it.  The    *)
(* network keeps the order and may deliver a datagram twice; a lost or     *)
(* early one is the subject of ReliableTransport, as is a full send        *)
(* window; a repeated hard reset is the subject of VpnServer.              *)
(***************************************************************************)
EXTENDS KeyMessages

CONSTANTS Setups,     \* the two ends' settings to try
          MaxFaults   \* bound on repeated and retransmitted datagrams

VARIABLES setup,  \* settings of both ends and the size packets are split at, fixed
          s,      \* the two protocol sessions
          net,    \* datagrams on their way to each end, oldest first
          sent,   \* TLS records written by each end
          got,    \* TLS records each end has extracted
          client, \* connect_with_info: its phase and what it read
          server, \* the connection: the user and the cipher it settled on
          keys,   \* data channel keys of each end, << >> before
          faults

vars == <<setup, s, net, sent, got, client, server, keys, faults>>

Ends == {"client", "server"}
Other(e) == IF e = "client" THEN "server" ELSE "client"

Gateway == "10.8.0.1"
ClientIp == "10.8.0.2"
SubnetMask == MaskText(Mask(24))

NewSession(e, auth) ==
    [auth |-> auth, local |-> Octets(e, 8), remote |-> << >>, state |-> "Initial",
     next_send |-> 0, next_recv |-> 0, pending |-> [i \in {} |-> << >>], acks |-> << >>,
     tls_auth_packet_id |-> 1, seen |-> {}, buffer |-> << >>]

\* The halves of the key file a new connection of the server signs and checks
\* with.
ServerAuth ==
    LET key == load_tls_auth_key(setup)
    IN  IF key = << >> THEN << >> ELSE <<from_ta_key(key[1], TRUE, None).value>>

Init ==
    /\ setup \in {c \in Setups : validate_server(c)}
    /\ s = [e \in Ends |-> NewSession(e, IF e = "server" THEN ServerAuth ELSE << >>)]
    /\ net = [e \in Ends |-> << >>]
    /\ sent = [e \in Ends |-> << >>]
    /\ got = [e \in Ends |-> << >>]
    /\ client = [phase |-> "start", config |-> << >>, plain |-> << >>, km |-> << >>, reply |-> << >>,
                 routes |-> << >>]
    /\ server = [tls |-> "handshaking", username |-> << >>,
                 suite |-> get_cipher_suite(setup.cipher)]
    /\ keys = [e \in Ends |-> << >>]
    /\ faults = 0

-----------------------------------------------------------------------------
(* Sessions: each operator takes the session of an end and gives back the  *)
(* session and the datagrams made.                                         *)

\* Serialized and, with tls-auth, signed under the next packet id.
Emit(e, se, p) ==
    LET data == serialize(p)
        auth == se.auth # << >> /\ is_control(p.opcode)
    IN  [s |-> IF auth THEN [se EXCEPT !.tls_auth_packet_id = @ + 1] ELSE se,
         out |-> <<[packet |-> p,
                    data |-> IF auth
                             THEN maybe_wrap_tls_auth(data, se.tls_auth_packet_id, se.auth[1])
                             ELSE data]>>]

\* A packet registered with the reliable transport, carrying the queued acks.
SendReliable(e, se, opcode, payload) ==
    Emit(e, [se EXCEPT !.next_send = @ + 1, !.acks = << >>,
                       !.pending = @ @@ (se.next_send :> payload)],
         Control(opcode, 0, se.local, se.remote, se.acks, se.next_send, payload))

create_hard_reset_client(se) == SendReliable("client", se, HardResetClientV2, << >>)
create_hard_reset_response(se) == SendReliable("server", se, HardResetServerV2, << >>)

\* TLS data cut into packets of at most MAX_CONTROL_PAYLOAD octets.
create_control_packets(e, se, tls_data) ==
    LET MaxControlPayload == setup.max_control_payload
        n == (Len(tls_data) + MaxControlPayload - 1) \div MaxControlPayload
        Chunk(i) == SubSeq(tls_data, (i - 1) * MaxControlPayload + 1,
                           IF i = n THEN Len(tls_data) ELSE i * MaxControlPayload)
    IN  FoldLeft(LAMBDA acc, i : LET made == SendReliable(e, acc.s, ControlV1, Chunk(i))
                                 IN  [s |-> made.s, out |-> acc.out \o made.out],
                 [s |-> se, out |-> << >>], [i \in 1 .. n |-> i])

\* Nothing when no ack is queued.
create_ack_packet(e, se) ==
    IF se.acks = << >> THEN [s |-> se, out |-> << >>]
    ELSE Emit(e, [se EXCEPT !.acks = << >>],
              Control(AckV1, 0, se.local, se.remote, se.acks, None, << >>))

\* A pending packet built again: same id, no acks, always a control packet.
Rebuilt(e, se, id) ==
    Emit(e, se, Control(ControlV1, 0, se.local, se.remote, << >>, id, se.pending[id]))

\* The reliable transport's receive: the id is acked whatever becomes of it.
Received(se, id) ==
    [se EXCEPT !.acks = Append(@, id),
               !.next_recv = IF id = @ THEN @ + 1 ELSE @]

ZeroId == [i \in 1 .. 8 |-> Byte(0)]

\* process_control_packet: replay check, acks, then by opcode.
process_control_packet(se, p) ==
    LET seen  == [se EXCEPT !.seen = IF se.auth # << >> THEN @ \cup {p.packet_id} ELSE @,
                            !.pending = [i \in DOMAIN @ \ Range(p.acks) |-> @[i]]]
        id    == p.message_packet_id
        heard == IF id = None THEN seen ELSE Received(seen, id)
        reset == [heard EXCEPT !.remote = p.session_id, !.state = "TlsHandshake"]
        added == extract_records(heard.buffer \o p.payload)
        fresh == id # None /\ id = seen.next_recv
    IN  IF se.auth # << >> /\ p.packet_id \in se.seen
        THEN [s |-> se, result |-> "replay", records |-> << >>]
        ELSE
        CASE p.opcode \in {HardResetClientV2, HardResetClientV3} /\ p.session_id # ZeroId ->
                [s |-> reset, result |-> "HardReset", records |-> << >>]
          [] p.opcode = HardResetServerV2 ->
                [s |-> reset, result |-> "HardResetAck", records |-> << >>]
          [] p.opcode = ControlV1 /\ fresh /\ Len(heard.buffer \o p.payload) <= MaxRecordBuffer ->
                [s |-> [heard EXCEPT !.buffer = added.buffer],
                 result |-> IF added.records = << >> THEN "None" ELSE "TlsData",
                 records |-> added.records]
          [] p.opcode = ControlV1 /\ ~fresh ->
                [s |-> heard, result |-> "None", records |-> << >>]
          [] p.opcode = AckV1 -> [s |-> seen, result |-> "None", records |-> << >>]
          [] p.opcode = SoftResetV1 ->
                [s |-> [seen EXCEPT !.state = "Rekeying"], result |-> "SoftReset", records |-> << >>]
          [] OTHER -> [s |-> seen, result |-> "error", records |-> << >>]

\* process_packet, data packets included: theirs is the subject of DataChannel.
process_packet(e, data) ==
    LET p == open(data, s[e].auth)
    IN  IF p.error THEN [s |-> s[e], result |-> "error", records |-> << >>]
        ELSE IF is_data(p.value.opcode) THEN [s |-> s[e], result |-> "Data", records |-> << >>]
        ELSE process_control_packet(s[e], p.value)

\* process_packet gave an error: nothing but its handling of acks happened.
Failed(in) == in.result \in {"error", "replay"}

\* A standalone ack, when the delay since the last one has passed.
WithAck(e, made, due) ==
    LET ack == create_ack_packet(e, made.s)
    IN  IF due THEN [s |-> ack.s, out |-> made.out \o ack.out] ELSE made

\* The plaintext of application records.
Plaintext(records) ==
    FlattenSeq([i \in DOMAIN records |->
                  IF Value(records[i][1]) = Application THEN BodyOf(records[i]) ELSE << >>])

\* What an end does behind the dispatch: a due ack, then the retransmission of
\* a packet whose timer ran out.
Finish(e, made, due, again) ==
    LET acked == WithAck(e, made, due)
        extra == Rebuilt(e, acked.s, again)
    IN  IF again = None THEN acked ELSE [s |-> extra.s, out |-> acked.out \o extra.out]

\* Take the oldest datagram, or a copy of it, and put what was made on the
\* network.
Take(e, keep, again, made) ==
    /\ faults' = faults + (IF keep THEN 1 ELSE 0) + (IF again = None THEN 0 ELSE 1)
    /\ faults' <= MaxFaults
    /\ s' = [s EXCEPT ![e] = made.s]
    /\ net' = [net EXCEPT ![e] = IF keep THEN @ ELSE Tail(@), ![Other(e)] = @ \o made.out]

Repeatable(e) == Head(net[e]).packet.opcode \notin {HardResetClientV2}

\* Both ends use tls-auth, or neither.
SameEnvelope == s["client"].auth = << >> <=> s["server"].auth = << >>

-----------------------------------------------------------------------------
(* The server: handle_control_packet.                                      *)

server_km ==
    [random1 |-> Octets("server1", 32), random2 |-> Octets("server2", 32),
     options |-> Octets("options", 3), username |-> << >>, password |-> << >>,
     peer_info |-> << >>]

\* The configured routes whose CIDR can be turned into a mask.
PushedRoutes ==
    LET masks == [i \in DOMAIN setup.routes |-> cidr_to_netmask(setup.routes[i])]
        good  == SelectSeq(masks, LAMBDA m : ~m.error)
    IN  [i \in DOMAIN good |-> good[i].value]

push_reply(cipher) ==
    [DefaultReply EXCEPT !.ifconfig = <<ClientIp, SubnetMask>>, !.dns = setup.dns,
        !.redirect_gateway = setup.redirect_gateway,
        !.route_gateway = IF setup.redirect_gateway THEN <<Gateway>> ELSE << >>,
        !.routes = PushedRoutes,
        !.options = <<<<"reneg-sec", "3600">>, <<"cipher", cipher>>>>]

\* Mutant of ServerKeys: the server takes its own session id for the client's.
ServerKeysOwnId(km, cipher) ==
    LET m == KeyMaterial(KeyBlock(km.pre_master, km.random1, server_km.random1, km.random2,
                                  server_km.random2, s["server"].local, s["server"].local))
    IN  [encrypt |-> m.server, decrypt |-> m.client, suite |-> SuiteOf(cipher)]

\* PRF and install_keys(km, true).
ServerKeys(km, cipher) ==
    LET m == KeyMaterial(KeyBlock(km.pre_master, km.random1, server_km.random1, km.random2,
                                  server_km.random2, s["server"].remote, s["server"].local))
    IN  [encrypt |-> m.server, decrypt |-> m.client, suite |-> SuiteOf(cipher)]

\* The reply to a client's key_method_v2: the server's own and the PUSH_REPLY,
\* each flushed for itself.
ServerAnswer(se, km, due, again) ==
    LET cipher == Negotiated(km.peer_info, setup.cipher)
        records == <<Record(Application, encode_km(server_km, TRUE)),
                     Record(Application, ReplyText(push_reply(cipher)))>>
        first  == create_control_packets("server", se, records[1])
        second == create_control_packets("server", first.s, records[2])
        made   == [s |-> [second.s EXCEPT !.state = "Established"],
                   out |-> first.out \o second.out]
    IN  /\ sent' = [sent EXCEPT !["server"] = @ \o records]
        /\ server' = [tls |-> "complete", username |-> km.username, suite |-> SuiteOf(cipher)]
        /\ keys' = [keys EXCEPT !["server"] = <<ServerKeys(km, cipher)>>]
        /\ again \in {None} \cup DOMAIN made.s.pending
        /\ Take("server", FALSE, again, Finish("server", made, due, again))

\* A hard reset opens the session and is answered.
ServerReset ==
    /\ net["server"] # << >> /\ SameEnvelope
    /\ LET in == process_packet("server", Head(net["server"]).data)
       IN  /\ in.result = "HardReset"
           /\ Take("server", FALSE, None, create_hard_reset_response(in.s))
    /\ UNCHANGED <<setup, sent, got, client, server, keys>>

\* A server without tls-auth looks for the number of acks where a signed reset
\* has its MAC, which may be any number: too large a one is refused, and the
\* connection not kept (id = None); a small one makes an id of what follows.
ServerMisreads(id) ==
    /\ net["server"] # << >> /\ ~SameEnvelope
    /\ LET reset == [Received(s["server"], id) EXCEPT !.remote = Head(net["server"]).packet.session_id,
                                                     !.state = "TlsHandshake"]
       IN  Take("server", FALSE, None, IF id = None THEN [s |-> s["server"], out |-> << >>]
                                       ELSE create_hard_reset_response(reset))
    /\ UNCHANGED <<setup, sent, got, client, server, keys>>

\* Any other packet: an error ends its handling; TLS data goes to TLS, and once
\* its handshake is complete the plaintext is read for the client's
\* key_method_v2.
ServerReceives(keep, due, again) ==
    /\ net["server"] # << >> /\ SameEnvelope
    /\ Repeatable("server")
    /\ LET in    == process_packet("server", Head(net["server"]).data)
           done  == server.tls = "complete"
                        \/ \E i \in DOMAIN in.records : Value(in.records[i][1]) = Handshake
           plain == Plaintext(in.records)
           tries == done /\ in.result = "TlsData" /\ in.s.state \in {"TlsHandshake", "KeyExchange"}
           se    == IF tries THEN [in.s EXCEPT !.state = "KeyExchange"] ELSE in.s
       IN  /\ Failed(in) => ~due /\ again = None
           /\ got' = [got EXCEPT !["server"] = @ \o in.records]
           /\ IF tries /\ plain # << >> /\ ~parse_km(plain).error
              THEN ~keep /\ ServerAnswer(se, parse_km(plain).value, due, again)
              ELSE /\ again \in {None} \cup DOMAIN se.pending
                   /\ Take("server", keep, again,
                           Finish("server", [s |-> se, out |-> << >>], due, again))
                   /\ server' = [server EXCEPT !.tls = IF done THEN "complete" ELSE @]
                   /\ UNCHANGED <<sent, keys>>
    /\ UNCHANGED <<setup, client>>

-----------------------------------------------------------------------------
(* The client: connect_with_info.                                          *)

client_km ==
    [pre_master |-> Octets("pre_master", 48), random1 |-> Octets("client1", 32),
     random2 |-> Octets("client2", 32), options |-> Octets("options", 3),
     username |-> setup.username, password |-> setup.username, peer_info |-> setup.peer_info]

\* corevpn's client refuses what it cannot read and a cipher it does not have;
\* an OpenVPN client resolves the host.
ReadProfile(mobile) ==
    /\ client.phase = "start"
    /\ LET made   == IF mobile THEN generate_mobile_config(setup)
                     ELSE generate_client_config(setup)
           config == IF made.error THEN Err
                     ELSE IF setup.native THEN ParseNative(made.value)
                     ELSE parse_ovpn(made.value)
           key    == IF config.error THEN << >> ELSE config.value.tls_auth_key
           auth   == IF key = << >> THEN Ok(<< >>)
                     ELSE from_ta_key(key[1], FALSE, config.value.key_direction)
           unknown == ~config.error /\ setup.native
                          /\ Upper(config.value.cipher) \notin {Chacha, Aes256}
       IN  IF config.error \/ auth.error \/ unknown
           THEN client' = [client EXCEPT !.phase = "refused"] /\ UNCHANGED s
           ELSE /\ client' = [client EXCEPT !.phase = "ready", !.config = <<config.value>>]
                /\ s' = [s EXCEPT !["client"] =
                            NewSession("client", IF key = << >> THEN << >> ELSE <<auth.value>>)]
    /\ UNCHANGED <<setup, net, sent, got, server, keys, faults>>

Connect ==
    /\ client.phase = "ready"
    /\ client' = [client EXCEPT !.phase = "wait"]
    /\ LET made == create_hard_reset_client(s["client"])
       IN  /\ s' = [s EXCEPT !["client"] = made.s]
           /\ net' = [net EXCEPT !["server"] = @ \o made.out]
    /\ UNCHANGED <<setup, sent, got, server, keys, faults>>

\* receive_until: the server's hard reset is acked at once.
ClientHardResetAck(keep) ==
    /\ client.phase = "wait" /\ net["client"] # << >>
    /\ LET in == process_packet("client", Head(net["client"]).data)
       IN  /\ in.result = "HardResetAck"
           /\ Take("client", keep, None, create_ack_packet("client", in.s))
    /\ client' = [client EXCEPT !.phase = "tls"]
    /\ UNCHANGED <<setup, sent, got, server, keys>>

\* The handshake completes: its last record and the key_method_v2 leave in one
\* flush.
SendKeyMethod ==
    /\ client.phase = "tls"
    /\ client' = [client EXCEPT !.phase = "km"]
    /\ LET records == <<Record(Handshake, Octets("finished", 4)),
                        Record(Application, encode_km(client_km, FALSE))>>
           made == create_control_packets("client", [s["client"] EXCEPT !.state = "KeyExchange"],
                                          FlattenSeq(records))
       IN  /\ sent' = [sent EXCEPT !["client"] = @ \o records]
           /\ s' = [s EXCEPT !["client"] = made.s]
           /\ net' = [net EXCEPT !["server"] = @ \o made.out]
    /\ UNCHANGED <<setup, got, server, keys, faults>>

\* try_parse_server_messages: the server's key_method_v2 off the front of the
\* plaintext, then the PUSH_REPLY behind any NULs.
ParseMessages(plain, km) ==
    LET now   == km = << >> /\ Len(plain) >= 71 /\ ~parse_from_server(plain).error
        known == IF now THEN <<parse_from_server(plain).value>> ELSE km
        rest  == IF now THEN From(plain, calculate_km_size(plain)) ELSE plain
        text  == SubSeq(rest, Min({i \in 1 .. Len(rest) + 1 :
                                      i = Len(rest) + 1 \/ rest[i] # Nul}), Len(rest))
        push  == known # << >> /\ text # << >> /\ text[1] = <<"text", "PUSH_REPLY">>
    IN  [km |-> known, plain |-> IF known = << >> THEN rest ELSE text,
         reply |-> IF push THEN <<parse_reply(PartsOf(TrimEnd(text)))>> ELSE << >>]

\* The cipher of the pushed options.
PushedCipher(reply) ==
    LET ciphers == SelectSeq(reply.options, LAMBDA o : o[1] = "cipher") IN ciphers[1][2]

\* PRF and install_keys(km, false); corevpn's client keeps the suite of its
\* profile, an OpenVPN client follows the pushed cipher.
ClientKeys(km, reply) ==
    LET m == KeyMaterial(KeyBlock(client_km.pre_master, client_km.random1, km.random1,
                                  client_km.random2, km.random2,
                                  s["client"].local, s["client"].remote))
    IN  [encrypt |-> m.client, decrypt |-> m.server,
         suite |-> IF setup.native THEN ProfileSuite(client.config[1].cipher)
                   ELSE PushedSuite(PushedCipher(reply))]

\* add_route for every pushed route.
RoutesOf(reply) ==
    [i \in DOMAIN reply.routes |->
        [network |-> reply.routes[i].network,
         prefix |-> CountOnes(ParseMask(reply.routes[i].netmask))]]

\* A packet of the handshake or key exchange loop.
ClientReceives(keep, due, again) ==
    /\ client.phase \in {"tls", "km"} /\ net["client"] # << >>
    /\ LET in   == process_packet("client", Head(net["client"]).data)
           read == ParseMessages(client.plain \o Plaintext(in.records), client.km)
       IN  /\ ~Failed(in)
           /\ got' = [got EXCEPT !["client"] = @ \o in.records]
           /\ due => client.phase = "km" /\ in.result \in {"TlsData", "None"}
           /\ again \in {None} \cup DOMAIN in.s.pending
           /\ Take("client", keep, again,
                   Finish("client", [s |-> in.s, out |-> << >>], due, again))
           /\ client' = [config |-> client.config,
                         phase |-> IF read.reply = << >> THEN client.phase ELSE "done",
                         plain |-> read.plain, km |-> read.km, reply |-> read.reply,
                         routes |-> IF read.reply = << >> THEN << >> ELSE RoutesOf(read.reply[1])]
           /\ keys' = [keys EXCEPT !["client"] =
                         IF read.reply = << >> THEN << >>
                         ELSE <<ClientKeys(read.km[1], read.reply[1])>>]
    /\ UNCHANGED <<setup, sent, server>>

\* A datagram that does not verify or is replayed: any error of process_packet
\* ends connect_with_info, while an OpenVPN client drops the datagram.
ClientFails(keep) ==
    /\ client.phase \in {"wait", "tls", "km"} /\ net["client"] # << >>
    /\ LET in == process_packet("client", Head(net["client"]).data)
       IN  /\ Failed(in)
           /\ Take("client", keep, None, [s |-> in.s, out |-> << >>])
    /\ client' = [client EXCEPT !.phase = IF setup.native THEN "failed" ELSE @]
    /\ UNCHANGED <<setup, sent, got, server, keys>>

\* Nothing comes within the ten seconds for the server's reset.
ClientTimesOut ==
    /\ client.phase = "wait" /\ \A e \in Ends : net[e] = << >>
    /\ client' = [client EXCEPT !.phase = "failed"]
    /\ UNCHANGED <<setup, s, net, sent, got, server, keys, faults>>

\* Nothing is left to deliver to the server: both ends hold keys, the profile
\* was refused, or the client gave up.
Finished ==
    /\ client.phase \in {"done", "refused", "failed"}
    /\ net["server"] = << >>
    /\ UNCHANGED vars

Next ==
    \/ Connect \/ ServerReset \/ SendKeyMethod \/ ClientTimesOut \/ Finished
    \/ \E mobile \in BOOLEAN : ReadProfile(mobile)
    \/ \E id \in {None, 0, 1} : ServerMisreads(id)
    \/ \E keep \in BOOLEAN : ClientHardResetAck(keep) \/ ClientFails(keep)
    \/ \E keep, due \in BOOLEAN, again \in -1 .. 8 :
          ServerReceives(keep, due, again) \/ ClientReceives(keep, due, again)

Spec == Init /\ [][Next]_vars

-----------------------------------------------------------------------------
(***************************************************************************)
(* A profile generated from the server's configuration fits that server.   *)
(* The remote is the server's.  The static key is that of the ta.key file, *)
(* and where the server uses it too, each end checks with the half the     *)
(* other signs with, although one takes its direction from the profile and *)
(* the other from its role.  Both use it or neither unless tls_auth is     *)
(* switched off and the file is there: the generator puts the file's key   *)
(* into the profile without looking at tls_auth, and that client never     *)
(* gets past its hard reset.  With an envelope they share an attempt fails *)
(* only at corevpn's client, and for a datagram that comes twice.  The     *)
(* profile's cipher is the one a new connection starts with, except for    *)
(* "CHACHA20-POLY1305" in upper case, which get_cipher_suite does not      *)
(* recognise.  The generator refuses nothing, and corevpn's client nothing *)
(* but a public_host that is not an IPv4 address (generate_client_config,  *)
(* to_ovpn, OvpnConfig::parse, from_ta_key, load_tls_auth_key).            *)
(***************************************************************************)
ProfileFits ==
    /\ client.phase = "refused" => setup.native /\ ~IsIpv4(setup.public_host)
    /\ client.config # << >> =>
           LET c == client.config[1]
           IN  /\ <<c.host, c.port, c.protocol>> = <<setup.public_host, setup.port, setup.protocol>>
               /\ c.tls_auth_key = load_tls_auth_key([setup EXCEPT !.tls_auth = TRUE])
               /\ SameEnvelope <=> (setup.tls_auth \/ setup.ta_file = << >>)
               /\ s["client"].auth # << >> /\ s["server"].auth # << >> =>
                      /\ s["client"].auth[1].tx = s["server"].auth[1].rx
                      /\ s["client"].auth[1].rx = s["server"].auth[1].tx
                      /\ s["client"].auth[1].tx # s["client"].auth[1].rx
               /\ ProfileSuite(c.cipher) = get_cipher_suite(setup.cipher) <=> setup.cipher # Chacha
    /\ client.phase \in {"tls", "km", "done"} => SameEnvelope
    /\ client.phase = "failed" /\ SameEnvelope =>
           setup.native /\ s["client"].auth # << >> /\ faults > 0

\* A parsed packet without its envelope.
Bare(p) == IF is_data(p.opcode) THEN p
           ELSE [p EXCEPT !.hmac = << >>, !.packet_id = None, !.timestamp = << >>]

(***************************************************************************)
(* Every datagram an end sends, resets, acks, split TLS data and           *)
(* retransmissions, with or without the tls-auth envelope, verifies and    *)
(* parses at the other end, if that uses tls-auth as the sender does, into *)
(* the packet it was built from                                            *)
(* (Packet::serialize, maybe_wrap_tls_auth, process_packet).               *)
(***************************************************************************)
PacketsRoundTrip ==
    SameEnvelope => \A e \in Ends : \A i \in DOMAIN net[e] :
        LET r == open(net[e][i].data, s[e].auth)
        IN  ~r.error /\ Bare(r.value) = net[e][i].packet

(***************************************************************************)
(* A datagram that arrives cut short at any octet is refused, or says of   *)
(* the sender, the acks and the message id nothing but what was sent:      *)
(* acks and ids are never made up out of what is missing (Packet::parse);  *)
(* under tls-auth every cut is refused.                                    *)
(***************************************************************************)
CutIsHarmless ==
    SameEnvelope => \A e \in Ends : net[e] # << >> =>
        LET d == Head(net[e])
        IN  \A n \in 0 .. Len(d.data) - 1 :
                LET r == open(Slice(d.data, 0, n), s[e].auth)
                IN  \/ r.error
                    \/ /\ s[e].auth = << >>
                       /\ [Bare(r.value) EXCEPT !.message_packet_id = None, !.payload = << >>]
                            = [d.packet EXCEPT !.message_packet_id = None, !.payload = << >>]
                       /\ r.value.message_packet_id \in {None, d.packet.message_packet_id}

(***************************************************************************)
(* The TLS records an end has extracted are the records the other wrote,   *)
(* in order, however they were split over packets, and no complete record  *)
(* waits in the buffer (create_control_packets, TlsRecordReassembler).     *)
(***************************************************************************)
RecordsWhole ==
    \A e \in Ends :
        LET n == Len(got[e])
        IN  /\ IsPrefix(got[e], sent[Other(e)])
            /\ s[e].buffer # << >> =>
                   n < Len(sent[Other(e)]) /\ IsStrictPrefix(s[e].buffer, sent[Other(e)][n + 1])

(***************************************************************************)
(* When the client is up, what one end encrypts with the other decrypts    *)
(* with, in both directions, and the server knows the user the client      *)
(* named.  Both use the same cipher ("Update the session's cipher suite to *)
(* match the negotiated cipher") exactly if the pushed name is neither     *)
(* AES-128-GCM, for which the server has no suite, nor a spelling of       *)
(* ChaCha20 that is not in upper case: the server finds the client's       *)
(* cipher in upper case, keeps the client's spelling and then looks for    *)
(* "CHACHA" in it.  corevpn's own client keeps its profile's cipher and    *)
(* offers ChaCha20 first, so the two agree exactly where that is the       *)
(* configured one.                                                         *)
(***************************************************************************)
EndsAgree ==
    client.phase = "done" =>
        LET c == keys["client"][1]
            v == keys["server"][1]
            name == PushedCipher(client.reply[1])
        IN  /\ c.encrypt = v.decrypt /\ c.decrypt = v.encrypt
            /\ c.encrypt # c.decrypt
            /\ server.username = setup.username
            /\ c.suite = v.suite <=>
                   (IF setup.native THEN Upper(setup.cipher) = Chacha
                    ELSE name = Chacha \/ Upper(name) \notin {Aes128, Chacha})

\* The IPv4 networks of push_routes.
Ipv4Routes == SelectSeq(setup.routes, LAMBDA r : IsIpv4(r.network))

(***************************************************************************)
(* The client reads out of the PUSH_REPLY what the server's configuration  *)
(* says: its address and mask, the resolvers in order and a gateway        *)
(* exactly for a full tunnel.  It asks for a route of the same prefix      *)
(* length for every IPv4 network of push_routes, and for none of the IPv6  *)
(* ones, which ServerConfig::validate accepts: the server drops a prefix   *)
(* above 32, and pushes a shorter one under an IPv4 mask, for the client   *)
(* to drop (cidr_to_netmask, PushReply::encode and parse, add_route).      *)
(***************************************************************************)
ReplyAsConfigured ==
    client.phase = "done" =>
        LET r == client.reply[1]
        IN  /\ r.ifconfig = <<ClientIp, SubnetMask>>
            /\ r.dns = setup.dns
            /\ r.redirect_gateway = setup.redirect_gateway
            /\ r.route_gateway = IF setup.redirect_gateway THEN <<Gateway>> ELSE << >>
            /\ client.routes = Ipv4Routes
=============================================================================
