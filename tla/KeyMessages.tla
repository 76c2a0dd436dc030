---------------------------- MODULE KeyMessages -----------------------------
(***************************************************************************)
(* The messages the ends exchange inside TLS: key_method_v2 and PUSH_REPLY *)
(* (control.rs of corevpn-protocol), with the client's way of cutting them *)
(* out of the plaintext (client.rs of corevpn-cli), the cipher negotiation *)
(* and the configuration the server pushes (server.rs of corevpn-server),  *)
(* and the key derivation (kdf.rs of corevpn-crypto).                      *)
(* A piece of text is one octet of the plaintext, with its tokens.         *)
(***************************************************************************)
EXTENDS ClientProfile

Nul == Byte(0)

\* trim_end_matches('\0')
TrimEnd(s) ==
    LET last == {i \in DOMAIN s : s[i] # Nul}
    IN  IF last = {} THEN << >> ELSE SubSeq(s, 1, Max(last))

write_string(s) == U16((Len(s) + 1) % 65536) \o s \o <<Nul>>

\* The string at an offset and the offset behind it.
read_string(data, offset) ==
    LET len == FromU16(Slice(data, offset, 2))
    IN  IF offset + 2 > Len(data) THEN Err
        ELSE IF offset + 2 + len > Len(data) THEN Err
        ELSE Ok([text |-> TrimEnd(Slice(data, offset + 2, len)), next |-> offset + 2 + len])

\* An optional string: absent at the end of the data, and then empty.
read_optional(data, offset) ==
    IF offset + 2 <= Len(data) THEN read_string(data, offset)
    ELSE Ok([text |-> << >>, next |-> offset])

Prefix == <<Byte(0), Byte(0), Byte(0), Byte(0), Byte(2)>>

\* KeyMethodV2::encode; the server leaves the pre-master secret out, and a
\* missing peer_info is not written at all.
encode_km(km, is_server) ==
    Prefix \o (IF is_server THEN << >> ELSE km.pre_master) \o km.random1 \o km.random2
        \o write_string(km.options) \o write_string(km.username) \o write_string(km.password)
        \o (IF km.peer_info = << >> THEN << >> ELSE write_string(km.peer_info))

\* KeyMethodV2::parse, of what a client sent.
parse_km(data) ==
    LET options  == read_string(data, 117)
        username == read_optional(data, options.value.next)
        password == read_optional(data, username.value.next)
        info     == read_optional(data, password.value.next)
    IN  IF Len(data) < 119 THEN Err
        ELSE IF Value(data[5]) # 2 \/ options.error THEN Err
        ELSE IF username.error THEN Err
        ELSE IF password.error THEN Err
        ELSE IF info.error THEN Err
        ELSE Ok([pre_master |-> Slice(data, 5, 48), random1 |-> Slice(data, 53, 32),
                 random2 |-> Slice(data, 85, 32), options |-> options.value.text,
                 username |-> username.value.text, password |-> password.value.text,
                 peer_info |-> info.value.text])

\* KeyMethodV2::parse_from_server
parse_from_server(data) ==
    LET options == read_string(data, 69)
    IN  IF Len(data) < 71 THEN Err
        ELSE IF Value(data[5]) # 2 \/ options.error THEN Err
        ELSE Ok([random1 |-> Slice(data, 5, 32), random2 |-> Slice(data, 37, 32),
                 options |-> options.value.text])

\* calculate_km_size: the fixed part and up to three strings, as far as they go.
calculate_km_size(data) ==
    LET Skip(offset) ==
            LET s == read_string(data, offset) IN IF s.error THEN offset ELSE s.value.next
    IN  Skip(Skip(Skip(69)))

-----------------------------------------------------------------------------
supported == <<Aes256, Aes128, Chacha>>

\* peer_info with an IV_CIPHERS line; without one it names only the version.
PeerInfo(ciphers) == <<<<"IV_VER", 1>>>> \o [i \in DOMAIN ciphers |-> <<"IV_CIPHERS", ciphers[i]>>]

\* The first of the client's ciphers that the server knows in upper case, in the
\* client's own spelling; else the server's cipher in upper case.
Negotiated(peer_info, server_cipher) ==
    LET known == SelectSeq(peer_info, LAMBDA o : /\ o[1] = "IV_CIPHERS"
                                                 /\ Contains(supported, Upper(o[2])))
    IN  IF known = << >> THEN Upper(server_cipher) ELSE known[1][2]

\* The server's suite for the negotiated name, contains("CHACHA") as it is spelled.
SuiteOf(name) == IF name = Chacha THEN "ChaCha20Poly1305" ELSE "Aes256Gcm"

\* corevpn's client takes its suite from the profile, in any spelling.
ProfileSuite(name) == IF Upper(name) = Chacha THEN "ChaCha20Poly1305" ELSE "Aes256Gcm"

\* The suite an OpenVPN client takes for a pushed name, in any spelling.
PushedSuite(name) == IF Upper(name) = Aes128 THEN "Aes128Gcm" ELSE ProfileSuite(name)

\* An ideal PRF: equal outputs only for equal inputs.
openvpn_prf(secret, label, seed) == <<secret, label, seed>>

\* master secret and key block of both ends; the session ids close the seed.
KeyBlock(pre_master, client1, server1, client2, server2, client_sid, server_sid) ==
    openvpn_prf(openvpn_prf(pre_master, "OpenVPN master secret", client1 \o server1),
                "OpenVPN key expansion", client2 \o server2 \o client_sid \o server_sid)

\* The client's and the server's half of the key block.
KeyMaterial(block) == [client |-> <<block, 0>>, server |-> <<block, 128>>]

-----------------------------------------------------------------------------
\* A subnet mask of n leading ones, one number for each of its four octets.
Mask(n) == [k \in 1 .. 4 |->
              LET ones == IF n >= 8 * k THEN 8 ELSE IF n <= 8 * (k - 1) THEN 0 ELSE n - 8 * (k - 1)
              IN  256 - 2 ^ (8 - ones)]
Masks == {Mask(n) : n \in 0 .. 32}

\* Its text, and the mask of a text.
MaskText(m) == ToString(m)
ParseMask(text) == CHOOSE m \in Masks : MaskText(m) = text

\* Mutant of cidr_to_netmask: the shift is one short.
CidrShiftShort(cidr) ==
    IF cidr.prefix > 32 THEN Err
    ELSE Ok([network |-> cidr.network,
             netmask |-> MaskText(Mask(IF cidr.prefix \in 1 .. 31 THEN cidr.prefix + 1
                                       ELSE cidr.prefix))])

cidr_to_netmask(cidr) ==
    IF cidr.prefix > 32 THEN Err
    ELSE Ok([network |-> cidr.network, netmask |-> MaskText(Mask(cidr.prefix))])

\* What the client hands to `ip route`: the mask's count of ones.
CountOnes(m) ==
    LET OnesOf(k) == CHOOSE n \in 0 .. 8 : 256 - 2 ^ (8 - n) = m[k]
    IN  OnesOf(1) + OnesOf(2) + OnesOf(3) + OnesOf(4)

\* PushRoute::encode of a route without gateway and metric, as the server
\* makes them.
EncodeRoute(r) == <<"route", r.network, r.netmask, "vpn_gateway">>

\* PushReply::encode: the parts in the order of the code.
encode_reply(r) ==
    <<<<"topology", r.topology>>>>
        \o (IF r.ifconfig = << >> THEN << >> ELSE <<<<"ifconfig">> \o r.ifconfig>>)
        \o (IF r.ifconfig_ipv6 = << >> THEN << >> ELSE <<<<"ifconfig-ipv6">> \o r.ifconfig_ipv6>>)
        \o [i \in DOMAIN r.routes |-> EncodeRoute(r.routes[i])]
        \o (IF r.route_gateway = << >> THEN << >> ELSE <<<<"route-gateway">> \o r.route_gateway>>)
        \o (IF r.redirect_gateway THEN <<<<"redirect-gateway", "def1">>>> ELSE << >>)
        \o [i \in DOMAIN r.dns |-> <<"dhcp-option", "DNS", r.dns[i]>>]
        \o [i \in DOMAIN r.dns_search |-> <<"dhcp-option", "DOMAIN", r.dns_search[i]>>]
        \o <<<<"ping", ToString(r.ping)>>, <<"ping-restart", ToString(r.ping_restart)>>>>
        \o r.options

\* PushReply::default
DefaultReply ==
    [routes |-> << >>, ifconfig |-> << >>, ifconfig_ipv6 |-> << >>, dns |-> << >>,
     dns_search |-> << >>, redirect_gateway |-> FALSE, route_gateway |-> << >>,
     topology |-> "subnet", ping |-> 10, ping_restart |-> 60, options |-> << >>]

MaxSeconds == 3600   \* bound on the numbers a reply carries
ParseSeconds(text) == CHOOSE n \in 0 .. MaxSeconds : ToString(n) = text

\* PushRoute::parse: both addresses must be addresses; a default gateway and a
\* missing metric stay unset.
ParseRoute(part) ==
    IF Len(part) < 3 \/ ~IsIpv4(part[2]) THEN Err
    ELSE Ok([network |-> part[2], netmask |-> part[3]])

\* PushReply::parse: one part after the other onto the default.
parse_reply(parts) ==
    FoldLeft(LAMBDA r, p :
        CASE p[1] = "topology" -> [r EXCEPT !.topology = p[2]]
          [] p[1] = "ifconfig" -> [r EXCEPT !.ifconfig = Tail(p)]
          [] p[1] = "ifconfig-ipv6" -> [r EXCEPT !.ifconfig_ipv6 = Tail(p)]
          [] p[1] = "route" -> IF ParseRoute(p).error THEN r
                               ELSE [r EXCEPT !.routes = Append(@, ParseRoute(p).value)]
          [] p[1] = "route-gateway" -> [r EXCEPT !.route_gateway = Tail(p)]
          [] p[1] = "redirect-gateway" -> [r EXCEPT !.redirect_gateway = TRUE]
          [] p[1] = "dhcp-option" /\ p[2] = "DNS" -> [r EXCEPT !.dns = Append(@, p[3])]
          [] p[1] = "dhcp-option" /\ p[2] = "DOMAIN" ->
                [r EXCEPT !.dns_search = Append(@, p[3])]
          [] p[1] = "ping" -> [r EXCEPT !.ping = ParseSeconds(p[2])]
          [] p[1] = "ping-restart" -> [r EXCEPT !.ping_restart = ParseSeconds(p[2])]
          [] OTHER -> [r EXCEPT !.options = Append(@, p)],
        DefaultReply, parts)

\* The message on the wire: its name, one octet per part, a closing NUL.
ReplyText(reply) ==
    <<<<"text", "PUSH_REPLY">>>>
        \o [i \in DOMAIN encode_reply(reply) |-> <<"part", encode_reply(reply)[i]>>] \o <<Nul>>

PartsOf(text) == LET parts == SelectSeq(text, LAMBDA o : o[1] = "part")
                 IN  [i \in DOMAIN parts |-> parts[i][2]]
=============================================================================
