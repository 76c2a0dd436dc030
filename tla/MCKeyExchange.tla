--------------------------- MODULE MCKeyExchange ----------------------------
(***************************************************************************)
(* Settings for the key exchange: corevpn's own client and OpenVPN clients *)
(* with and without a user name, a peer_info and a list of ciphers,        *)
(* against servers with and without tls-auth, a full tunnel and routes;    *)
(* some of the settings do not pass the server's validation and never run. *)
(* Packets are split at the 1100 octets of the code, where both records of *)
(* the client share a datagram, or at 80, where each spans several.        *)
(* A server that has a ta.key and tls_auth switched off generates profiles *)
(* that do not fit it.                                                     *)
(***************************************************************************)
EXTENDS KeyExchange

Route(network, prefix) == [network |-> network, prefix |-> prefix]

NativeClient == [native |-> TRUE, username |-> << >>,
                 peer_info |-> PeerInfo(<<Chacha, Aes256, Aes128>>)]

OpenVpnClient(name, info) == [native |-> FALSE, username |-> name, peer_info |-> info]

OpenVpnClients == {OpenVpnClient(Octets("user", 2), << >>),
                   OpenVpnClient(<< >>, PeerInfo(<< >>)),
                   OpenVpnClient(Octets("user", 2), PeerInfo(<<Chacha, Aes256>>)),
                   OpenVpnClient(<< >>, PeerInfo(<<"BF-CBC", Aes128>>)),
                   OpenVpnClient(<< >>, PeerInfo(<<"chacha20-poly1305", Aes256>>))}

TaFile == format_static_key(Octets("ta", 256))

\* tls_auth and the key file: switched on or off, with and without a file.
TlsAuth == {[tls_auth |-> TRUE, ta_file |-> <<TaFile>>],
            [tls_auth |-> TRUE, ta_file |-> << >>],
            [tls_auth |-> FALSE, ta_file |-> << >>],
            [tls_auth |-> FALSE, ta_file |-> <<TaFile>>]}

FullTunnel == [max_control_payload |-> 1100, redirect_gateway |-> TRUE, dns |-> <<Gateway>>]

SplitTunnel ==
    [max_control_payload |-> 80, redirect_gateway |-> FALSE, dns |-> <<"1.1.1.1", Gateway>>,
     routes |-> <<Route("10.2.0.0", 20), Route("2001:db8::", 32), Route("fd00::", 64),
                  Route("192.168.7.0", 32), Route("10.8.0.1", 0)>>]

Servers == {auth @@ tunnel @@ [cipher |-> cipher] @@ default_config :
                auth \in TlsAuth, tunnel \in {FullTunnel, SplitTunnel},
                cipher \in {"chacha20-poly1305", "aes-256-gcm"}}

\* Variations tried with one client each.
Others ==
    {FullTunnel @@ change @@ [tls_auth |-> TRUE, ta_file |-> <<TaFile>>] @@ default_config :
        change \in {[public_host |-> "vpn.example.com"], [public_host |-> "2001:db8::7"],
                    [port |-> 443, protocol |-> "tcp"], [port |-> 0],
                    [cipher |-> Chacha], [cipher |-> "aes-128-gcm"],
                    [routes |-> <<Route("lan", 8)>>], [routes |-> <<Route("10.2.0.0", 33)>>],
                    [client_cert_lifetime_days |-> 3651], [mtu |-> 1501]}}

MCSetups == {c @@ v : c \in OpenVpnClients \cup {NativeClient}, v \in Servers}
                \cup {c @@ v : c \in {NativeClient, OpenVpnClient(<< >>, PeerInfo(<< >>))}, v \in Others}
=============================================================================
