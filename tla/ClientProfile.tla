--------------------------- MODULE ClientProfile ----------------------------
(***************************************************************************)
(* What the two ends are configured with: the server's configuration and   *)
(* its check (corevpn-config/src/server.rs), the ta.key file (cert.rs),    *)
(* the .ovpn profile the server generates from them (generator.rs,         *)
(* client.rs of corevpn-config) and what corevpn's client reads out of it  *)
(* (corevpn-cli/src/ovpn.rs).  A text is a sequence of lines, a line the   *)
(* sequence of its words; a word is a pair <<kind, value>>.                *)
(***************************************************************************)
EXTENDS ControlWire

W(text) == <<"word", text>>
N(n) == <<"number", n>>
Line(words) == [i \in DOMAIN words |-> W(words[i])]

Ipv4Addresses == {"10.8.0.1", "10.8.0.2", "10.2.0.0", "192.168.7.0", "1.1.1.1",
                  "1.0.0.1", "203.0.113.7"}
Ipv6Addresses == {"2001:db8::", "fd00::", "2001:db8::7"}
HostNames == {"vpn.example.com"}
IsIpv4(text) == text \in Ipv4Addresses

Chacha == "CHACHA20-POLY1305"
Aes256 == "AES-256-GCM"
Aes128 == "AES-128-GCM"

\* to_uppercase of a cipher's name: the lower-case spellings are changed, the
\* others are in upper case as they are.
Upper(cipher) ==
    CASE cipher = "chacha20-poly1305" -> Chacha
      [] cipher = "aes-256-gcm" -> Aes256
      [] cipher = "aes-128-gcm" -> Aes128
      [] OTHER -> cipher

-----------------------------------------------------------------------------
(* The server's configuration.                                             *)

default_config ==
    [public_host |-> "203.0.113.7", port |-> 1194, protocol |-> "udp", max_clients |-> 1000,
     dns |-> <<"1.1.1.1", "1.0.0.1">>, routes |-> << >>, redirect_gateway |-> TRUE, mtu |-> 1420,
     cipher |-> "chacha20-poly1305", tls_auth |-> TRUE, cert_lifetime_days |-> 3650,
     client_cert_lifetime_days |-> 90, reneg_sec |-> 3600]

\* ServerConfig::validate
validate_server(c) ==
    /\ c.public_host \in Ipv4Addresses \cup Ipv6Addresses \cup HostNames
    /\ \A i \in DOMAIN c.dns : c.dns[i] \in Ipv4Addresses \cup Ipv6Addresses
    /\ \A i \in DOMAIN c.routes :
           \/ c.routes[i].network \in Ipv4Addresses /\ c.routes[i].prefix <= 32
           \/ c.routes[i].network \in Ipv6Addresses /\ c.routes[i].prefix <= 128
    /\ c.port # 0
    /\ c.max_clients \in 1 .. 100000
    /\ c.client_cert_lifetime_days # 0
    /\ c.client_cert_lifetime_days <= c.cert_lifetime_days
    /\ c.reneg_sec # 0
    /\ c.mtu \in 68 .. 1500

\* The suite a new connection of the server starts with: contains("chacha").
get_cipher_suite(cipher) ==
    IF cipher = "chacha20-poly1305" THEN "ChaCha20Poly1305" ELSE "Aes256Gcm"

-----------------------------------------------------------------------------
(* The ta.key file.                                                        *)

BeginKey == Line(<<"-----BEGIN", "OpenVPN", "Static", "key", "V1-----">>)
EndKey == Line(<<"-----END", "OpenVPN", "Static", "key", "V1-----">>)

\* Three lines of comment, then 16 octets to a line of hexadecimals.
format_static_key(key) ==
    <<Line(<<"#">>), Line(<<"#", "2048", "bit", "OpenVPN", "static", "key">>), Line(<<"#">>), BeginKey>>
        \o [i \in 1 .. 16 |-> <<<<"hex", SubSeq(key, 16 * i - 15, 16 * i)>>>>]
        \o <<EndKey, << >>>>

Skipped(line) ==
    line = << >> \/ line[1] \in {W("#"), W("-----BEGIN"), W("-----END")}

\* The octets of the lines that are neither comment nor marker: the server's
\* reader stops at 256, the client's refuses more.
KeyOctets(text) ==
    LET lines == SelectSeq(text, LAMBDA line : ~Skipped(line))
    IN  IF \E i \in DOMAIN lines : lines[i][1][1] # "hex" THEN Err
        ELSE Ok(FlattenSeq([i \in DOMAIN lines |-> lines[i][1][2]]))

parse_static_key_server(text) ==
    LET octets == KeyOctets(text)
    IN  IF octets.error THEN Err
        ELSE IF Len(octets.value) < 256 THEN Err
        ELSE Ok(SubSeq(octets.value, 1, 256))

parse_static_key_client(text) ==
    LET octets == KeyOctets(text)
    IN  IF octets.error THEN Err
        ELSE IF Len(octets.value) # 256 THEN Err
        ELSE octets

\* A server without a readable key goes on without tls-auth.
load_tls_auth_key(c) ==
    IF ~c.tls_auth \/ c.ta_file = << >> THEN << >>
    ELSE IF parse_static_key_server(c.ta_file[1]).error THEN << >>
    ELSE <<parse_static_key_server(c.ta_file[1]).value>>

-----------------------------------------------------------------------------
(* The profile.                                                            *)

trim(text) ==
    LET full == {i \in DOMAIN text : text[i] # << >>}
    IN  IF full = {} THEN << >> ELSE SubSeq(text, Min(full), Max(full))

\* A certificate or a key as the library writes it.
Pem(type, body) == <<Line(<<"-----BEGIN", type>>), Line(<<body>>), Line(<<"-----END", type>>), << >>>>

validate_pem(content, type) ==
    LET text == trim(content)
    IN  /\ text # << >>
        /\ Head(text) = Line(<<"-----BEGIN", type>>)
        /\ Last(text) = Line(<<"-----END", type>>)
        /\ trim(SubSeq(text, 2, Len(text) - 1)) # << >>

\* ClientConfig::validate; a static key of 32 characters has at least a line.
validate_client(c) ==
    /\ validate_pem(c.ca_cert, "CERTIFICATE")
    /\ validate_pem(c.client_cert, "CERTIFICATE")
    /\ \E type \in {"PRIVATE KEY", "RSA PRIVATE KEY", "EC PRIVATE KEY"} : validate_pem(c.client_key, type)
    /\ \A key \in Range(c.tls_auth_key \o c.tls_crypt_key) : trim(key) # << >>

Tag(kind, tag) == <<<<kind, tag>>>>
Inline(tag, content) == <<Tag("open", tag)>> \o trim(content) \o <<Tag("close", tag), << >>>>

\* tls-crypt wins over tls-auth; the direction goes with tls-auth only.
InlineKey(c) ==
    IF c.tls_crypt_key # << >> THEN Inline("tls-crypt", c.tls_crypt_key[1])
    ELSE IF c.tls_auth_key = << >> THEN << >>
    ELSE (IF c.key_direction = None THEN << >>
          ELSE <<<<W("key-direction"), N(c.key_direction)>>>>)
             \o Inline("tls-auth", c.tls_auth_key[1])

to_ovpn(c) ==
    <<Line(<<"#", "CoreVPN">>), << >>, Line(<<"client">>), Line(<<"dev", "tun">>),
      Line(<<"proto", c.protocol>>), <<W("remote"), W(c.remote_host), N(c.remote_port)>>,
      Line(<<"resolv-retry", "infinite">>), Line(<<"nobind">>), Line(<<"persist-key">>),
      Line(<<"persist-tun">>), Line(<<"remote-cert-tls", "server">>),
      Line(<<"cipher", c.cipher>>), Line(<<"auth", c.auth>>), <<W("verb"), N(3)>>, << >>,
      Line(<<"tls-client">>), Line(<<"tls-version-min", "1.3">>)>>
        \o (IF c.reneg_sec > 0 THEN <<<<W("reneg-sec"), N(c.reneg_sec)>>>> ELSE << >>)
        \o c.extra_options
        \o Inline("ca", c.ca_cert) \o Inline("cert", c.client_cert) \o Inline("key", c.client_key)
        \o InlineKey(c)

\* ClientConfigBuilder::new
ClientConfigBuilder(remote_host) ==
    [remote_host |-> remote_host, remote_port |-> 1194, protocol |-> "udp",
     ca_cert |-> << >>, client_cert |-> << >>, client_key |-> << >>,
     tls_auth_key |-> << >>, tls_crypt_key |-> << >>, cipher |-> Aes256, auth |-> "SHA256",
     key_direction |-> 1, reneg_sec |-> 0, extra_options |-> << >>]

\* ClientConfigBuilder::tls_auth
WithTlsAuth(b, key, direction) == [b EXCEPT !.tls_auth_key = <<key>>, !.key_direction = direction]

map_cipher(cipher) == IF Upper(cipher) = Chacha THEN Chacha ELSE Aes256

\* The part the two generators share: build, check, write out.
Generate(c, direction, options) ==
    LET base   == [ClientConfigBuilder(c.public_host) EXCEPT
                      !.remote_port = c.port, !.protocol = c.protocol,
                      !.ca_cert = Pem("CERTIFICATE", "authority"),
                      !.client_cert = Pem("CERTIFICATE", "client"),
                      !.client_key = Pem("PRIVATE KEY", "secret"),
                      !.cipher = map_cipher(c.cipher), !.reneg_sec = c.reneg_sec,
                      !.extra_options = options]
        config == IF c.ta_file = << >> THEN base ELSE WithTlsAuth(base, c.ta_file[1], direction)
    IN  IF validate_client(config) THEN Ok(to_ovpn(config)) ELSE Err

Compress == Line(<<"compress", "stub-v2">>)

\* Mutant of generate_client_config: the client is told the server's direction.
GenerateServerDirection(c) == Generate(c, 0, <<Compress>>)

generate_client_config(c) == Generate(c, 1, <<Compress>>)

generate_mobile_config(c) ==
    IF generate_client_config(c).error THEN Err
    ELSE Generate(c, 1, <<<<W("connect-retry"), N(2)>>, <<W("connect-retry-max"), N(5)>>,
                          Line(<<"auth-retry", "interact">>), Compress>>)

-----------------------------------------------------------------------------
(* The client's reader: directives are looked for in every line, those of  *)
(* the inline blocks too, and the last one counts.                         *)

\* The text between the first opening and the first closing tag.
extract_inline_block(content, tag) ==
    LET opens  == {i \in DOMAIN content : content[i] = Tag("open", tag)}
        closes == {i \in DOMAIN content : content[i] = Tag("close", tag)}
    IN  IF opens = {} \/ closes = {} THEN << >>
        ELSE IF Min(opens) >= Min(closes) THEN << >>
        ELSE <<trim(SubSeq(content, Min(opens) + 1, Min(closes) - 1))>>

\* The n-th argument of a directive.
Argument(content, name, n, default) ==
    LET given == {i \in DOMAIN content : Len(content[i]) > n /\ content[i][1] = W(name)}
    IN  IF given = {} THEN default ELSE content[Max(given)][n + 1]

parse_ovpn(content) ==
    LET raw == extract_inline_block(content, "tls-auth")
        key == IF raw = << >> THEN Ok(<< >>) ELSE parse_static_key_client(raw[1])
        direction == Argument(content, "key-direction", 1, N(None))
    IN  IF \/ \E tag \in {"ca", "cert", "key"} : extract_inline_block(content, tag) = << >>
           \/ key.error
           \/ Argument(content, "remote", 1, W("")) = W("")
        THEN Err
        ELSE Ok([host |-> Argument(content, "remote", 1, W(""))[2],
                 port |-> Argument(content, "remote", 2, N(1194))[2],
                 protocol |-> Argument(content, "proto", 1, W("udp"))[2],
                 cipher |-> Argument(content, "cipher", 1, W(Aes256))[2],
                 tls_auth_key |-> IF raw = << >> THEN << >> ELSE <<key.value>>,
                 key_direction |-> direction[2]])

\* OvpnConfig::parse, whose remote must be an address and a port: a host name
\* is refused, and so is an IPv6 address, for want of brackets.
ParseNative(content) ==
    LET config == parse_ovpn(content)
    IN  IF config.error THEN Err
        ELSE IF ~IsIpv4(config.value.host) THEN Err
        ELSE config
=============================================================================
