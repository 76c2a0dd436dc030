# Formal models of corevpn

TLA+ specifications of the parts of corevpn that keep state, run concurrently,
or translate between two ends that have to agree: the data channel, the control
channel from the octets of its datagrams to the keys, the address pool, the
server's connection table with its OAuth logins, the native client and the
NetworkManager plugin that runs it, the session manager and the administration
pages on top of it, the authentication library, and the connection log. TLC
checks them on small instances; TLAPS proves most of their safety properties for
every instance.

## Inventory of the system

corevpn is an OpenVPN-compatible VPN written in Rust, in nine crates.

| Component | State | Operations | Interacts with | What makes it correct |
|---|---|---|---|---|
| Data channel (`corevpn-crypto/cipher.rs`, `corevpn-protocol/data.rs`, `session.rs`) | eight slots of keys, a send counter and a replay window per slot | `install_keys`, `rotate_key`, `encrypt`, `decrypt` | the peer's, over UDP | a nonce is used once; a packet is handed on at most once; the window agrees with history |
| Replay windows (`cipher.rs`, `session.rs`) | highest identifier, bitmap | `check_and_update` | data packets, tls-auth packets | verdicts equal those of a set of seen identifiers |
| Reliable transport (`corevpn-protocol/reliable.rs`) | packets not acknowledged, reorder buffer, acknowledgements to send | `send`, `receive`, `process_acks`, `get_acks`, `get_retransmits` | TLS above, UDP below | TLS sees its bytes in order, once; nothing acknowledged is lost |
| Packets, tls-auth, TLS records (`packet.rs`, `opcode.rs`, `session.rs`, `reliable.rs`, `hmac_auth.rs`) | identifiers, replay window, record buffer | serialize, sign, verify, parse, reassemble | UDP, TLS | what is sent is what is parsed; nothing is made up from a cut datagram |
| Key exchange (`control.rs`, `kdf.rs`, `server.rs`, `corevpn-cli/client.rs`) | randoms, the suite and keys of each end | key_method_v2, PUSH_REPLY, key derivation | both ends | both ends use the same keys and cipher; the client gets what is configured |
| Configuration and profiles (`corevpn-config`, `corevpn-cli/ovpn.rs`) | settings, ta.key, `.ovpn` text | validate, generate, parse | server, both clients | a generated profile fits its server |
| Address pool (`corevpn-core/network.rs`) | one set of allocated addresses per family, one lock each | `allocate`, `allocate_specific`, `release` | the server's event loop, which allocates without IPv6; its locks admit any number of threads | no address has two owners; reserved addresses have none |
| Server (`corevpn-server/server.rs`) | map from peer address to connection | one event loop for packets, TUN, pings, completions; a cleanup task | all of the above | routes are unique; what is established is configured, and verified when OAuth is on |
| OAuth login (`server.rs`) | tokens waiting for a login, a channel of 32 completions | `oauth_start`, `oauth_callback`, `oauth_complete`, `handle_auth_completed` | browser, identity provider, event loop | a token opens one connection, for a permitted user |
| Native client (`corevpn-cli/client.rs`) | phase, counters of its loops, timeouts | `connect_with_info`, data plane | server, listener of its events | connects or fails, never hangs; events tell the truth |
| NetworkManager plugin (`corevpn-nm`) | shared state, handle of the connection task | `connect`, `disconnect`, `need_secrets`, the task | NetworkManager, native client | STARTED comes with a configuration; no attempt stays in STARTING |
| Session manager (`corevpn-core/session.rs`) | table of sessions; copies in the hands of workers | create, get, update, remove, clean up | web pages | removed sessions stay away, the limit holds |
| Web administration (`corevpn-server/webui`) | password, one form token | one handler per page | browsers, session manager, CA files | forms are checked; disconnecting all disconnects all |
| Authentication library (`corevpn-auth`) | sessions, index by state, rate limiter, JWKS cache | create, look up, exchange, verify, store | browser, provider | a login belongs to its user; limits hold; withdrawn keys die |
| Connection log (`connection_log/`) | memory ring, files and a buffered writer, database rows | log, rotate, purge | server | only the oldest is lost; Ok means kept; only the old is purged |
| Audit pipeline, users, certificates and set-up, desktop client, templates | - | - | - | see "Not modelled" |

The hard behaviours are: datagrams that are lost, duplicated, reordered, cut and
delayed beyond a change of keys; counters and bitmaps at their limits; two locks
taken one after the other; awaits in the cleanup task, the HTTP handlers and the
log's rotation during which others move on; copies that are written back late;
peers that reconnect from the same address while a login is under way; a full
send window in the middle of a handler; loops that every datagram prolongs;
tasks that are aborted or replaced while they signal; a crash in the middle of a
rotation. `PROJECT.json` lists each of them with its line and its properties.

## Modules

| Module | Models |
|---|---|
| `ReplayWindow` | the window algorithm, as operators; the width is a constant (128 for data, 64 for tls-auth) |
| `AtMostOnceChannel` | what the data channel promises: seal once, deliver at most once |
| `DataChannel` | one direction of two sessions' data channels over an unreliable network; implements `AtMostOnceChannel` |
| `AddressPool` | the pool; every operation is two steps, one per lock |
| `ReliableTransport` | the sending half of one transport, the network, and the receiving half of the other |
| `VpnServer` | connection table, key exchange, OAuth completions, cleanup |
| `ClientTask` | what a connection attempt promises to the listener of its events |
| `NativeClient` | one attempt of the native client, its loops, timeouts and data plane; implements `ClientTask` |
| `NmPlugin` | the NetworkManager plugin over several clients, each a `ClientTask` |
| `SessionRegistry` | the session manager and workers with copies |
| `WebAdmin` | the administration pages, composed with `SessionRegistry` |
| `AuthSessions` | rate limiter, sessions, code flow, ID tokens and JWKS cache |
| `ConnectionLog` | the three backends, their composite, the cleanup task and crashes |
| `ControlWire` | the octets of control datagrams and TLS records, as operators |
| `ClientProfile` | configuration, ta.key and `.ovpn` texts, as operators over `ControlWire` |
| `KeyMessages` | key_method_v2, PUSH_REPLY, cipher negotiation and key derivation, as operators over `ClientProfile` |
| `KeyExchange` | both ends of one control channel, from the profile to the keys |
| `DataChannelProofs`, `AddressPoolProofs`, `ReliableTransportProofs`, `VpnServerProofs`, `ClientProofs`, `WebAdminProofs`, `AuthSessionsProofs`, `ConnectionLogProofs` | theorems and proofs, one module per specification; `ClientProofs` is about `NativeClient` and `NmPlugin` |
| `MC...` | symmetry sets, bounds per mode and settings for TLC |

Definitions keep the names of the source where they stand for one function.
Operators whose comment begins with "Mutant of" are deliberately wrong variants
of the definition that follows them; no specification uses them. Each shows
that a property fails when the code has the bug the comment names.

### DataChannel

Key material is the number of the key exchange that made it. A slot with key 0
is empty. `InstallTx` and `InstallRx` are `install_keys` on the two sides, which
need not happen together, nor for every exchange. Every packet ever sealed stays
on the network, so it may arrive at any time, any number of times, or never.
`DecryptDamaged` is a packet that does not verify: `PacketCipher::decrypt`
consults and updates the window before it looks at the tag, so such a packet
moves the window all the same. The AEAD is ideal: a packet verifies under the
key that sealed it and no other.

### AddressPool

An address is its offset in the network. A caller that fails in its second half
forgets its address while the IPv4 mark stays, as in the code; the pool may be
used up this way, which is why the runs do not check for deadlock.
`allocate_specific` may be asked for any address. `release` is called with
addresses the caller owns.

### ReliableTransport

A packet is its identifier. `SendWindowFull` is `create_control_packets` when
`send` fails half-way: packets before the failure are registered and not sent.
The retransmission timer may run out at any time. Everything put on the network
may arrive in any order, any number of times, or never. Identifiers do not wrap:
`MaxSends` stands for a connection of fewer than 2^32 control packets.

### VpnServer

The event loop handles one event at a time, so a packet, a completion or a tick
is one step. `handle_hard_reset` reads the table, awaits and writes it again;
only the cleanup task can come between, and removing a connection that is about
to be replaced changes nothing, so it is one step. `cleanup_stale_connections`
is two steps, and so is an HTTP request. `age` is the time since the last
activity in steps of `Tick`. Failures of the handlers are actions or parameters
of their own: `KeyMethodUnsent`, `KeyMethodNoAddress`, and `sent = FALSE` for a
send window that is full after the reply was stored or taken. One is left out: TLS
refusing to encrypt the reply, which the server only warns about before it
establishes the connection, and which an open TLS session does not do. The pool is the
set of addresses `allocate` has marked; which of the free ones it picks is left
open. TLS is environment: any TLS data may complete the handshake or carry a
key_method_v2 message; what the messages say is `KeyExchange`. Data packets, pings and TUN packets change nothing in this
state but the age; `RoutesTo` is the lookup of `handle_tun_packet`.

### NativeClient and ClientTask

A datagram is what `process_packet` makes of it: a reset, TLS data, nothing of
interest, or an error. The phases are those of `connect_with_info`; `attempts` is
the counter of the loop it is in. The server's half is its TLS stream: the
messages it has written, how many of them have arrived, and what has been
decrypted and not yet read. `ReadPlaintext` adds that to the buffer and
parses the buffer as `try_parse_server_messages` does: a login request is dropped
together with everything that was read with it, other text waits.
Timeouts may run out at any receive. `GoQuiet` is a network that delivers nothing
from then on. The data plane keeps `silence`, the ping intervals since the last
packet. `Stage` maps all of this to `ClientTask`, the order of events a listener
may rely on.

### NmPlugin

Calls run concurrently and take the mutex anew for each change, so `connect` is
three steps (change the state and abort the old task, spawn, store the handle).
The client of a task is a `ClientTask`; its events queue in `event_rx`. An aborted
task dies at its next await, so it may take further steps first. Signals may fail
to be sent, which takes the task to `emit_failure_signals`. `signals` is a history
of what a task has told NetworkManager.

### SessionRegistry and WebAdmin

`SessionManager` returns clones. A worker's copy changes through
`ChangeCopy`, which follows the table of permitted transitions, and comes back
through `update_session`, which stores it only if its session is still there.
`WebAdmin` adds one action per handler: the password check first, then the form
token, then the effect. All browsers share the session identifier "default", as in
`get_session_id`, so `tokens` has one entry. `disconnect_all_sessions` collects the
active sessions under one lock and removes them one by one, taking the lock anew
for each; `found` is what it collected, `collected` what it has still to remove, and
anything may happen to the table between two removals. What a page or a generated profile contains is
left out; that profiles are right is `KeyExchange`'s subject.

### AuthSessions

A task takes one callback through the library: look up by state, exchange the
code, verify the ID token, store the session. Each lock region is a step. The
provider's answers are environment: it may answer with any approved login's
token, signed with the key in use; keys are withdrawn in order. `setup` says
whether the validator was given a `jwks_uri` and whether its caller passes the
expected nonce, both of which the library leaves open: without the first,
`decode_and_verify_jwt` accepts a token with no key looked at, without the second
`validate_claims` compares nothing. `WithdrawnKeyDies` speaks of validators with a
`jwks_uri`; `LoginIsOwn` gives each session its own user if the nonce is passed and
some approved user if it is not. The issuer, audience and time checks of the claims
are left out, so the model accepts tokens they would refuse. A refresh and an
extension write back a copy as well, which is how copies become stale. All
lookups come from one client address, the key of the limiter; `allowed` is a
history of the ages of the latest ones it let through. `Delay` bounds the time
between an answer and its insertion in the cache.

### ConnectionLog

Each lock region and each file operation of the file logger is a step, and any
file operation may fail: a flush or an open ends the call with an error, a rename is
passed over (`.ok()`) and the next one goes on, so that the log may take over a file
that was not the oldest; the flush of a writer that is dropped fails unnoticed.
`Shred` is `secure_delete_file`, which overwrites the file about to be replaced and
removes it after an await; it may fail in between. The size of a file counts the events on disk, since the
code looks at metadata and not at the buffer. A crash takes the buffer. The
database is atomic per statement. `written` is the order in which a backend took
the events; `acked` the calls that returned Ok. One cleanup runs at a time. Three
histories say what was lost otherwise than by being the oldest: `lost` (events of a
buffer or of the memory), `replaced` (events of a younger file that was replaced),
and `disturbed` (two rotations were under way at once, or a rename failed).
`Part(i)` is what file i holds with the writer's buffer, and `KeptIsSuffix` compares
positions in the parts with positions in `written`. A line that a failing write cuts
short is not modelled: an event is on disk or not.

### ControlWire, ClientProfile, KeyMessages and KeyExchange

An octet is a pair of the field it belongs to and its number, so octets that
differ in origin differ; lengths, counts and identifiers are numbers in
big-endian octets of the width the code uses. The MAC and the PRF are ideal: their
octets are named after key and input. A datagram is a sequence of octets, and
packets are split, signed, verified and parsed by the offsets of the code. A
profile is a sequence of lines of words. TLS is a pair of streams of records; its
handshake is one record of the client. `KeyExchange` composes them: `ReadProfile`
generates and reads the profile (for the native client through its own reader),
then resets, records and messages travel through `ProtocolSession` at both ends
until the client has its reply and both have keys. Names of ciphers keep their
spelling: `Upper` is `to_uppercase`, and each place that matches a name does it the
way the code does there. A profile carries the key of the `ta.key` file whenever there is
one; with `tls_auth = false` the server then reads the MAC of the client's reset for
its acks (`ServerMisreads`), and the client refuses the unsigned answer, or gets
none. Any error of `process_packet`, a replay as well, ends the native client's
attempt (`ClientFails`), while an OpenVPN client drops the datagram. The network keeps
the order and repeats or retransmits a datagram; loss and reordering are
`ReliableTransport`'s subject, concurrency of connections `VpnServer`'s.

## Runs

| Run | Checks | Instance |
|---|---|---|
| `data` | `TypeOK`, `NonceUnique`, `WindowExact`, `DeliversAtMostOnce` | two key exchanges over two slots, a counter that reaches its limit, a window of two that identifiers overtake |
| `pool` | `NoSharedAddress`, `ReservedKept` | three callers, five hosts, two IPv6 addresses |
| `reliable` | `InOrderOnce`, `AckedIsHeld`, `BufferAhead` | five packets, a window of three, a reorder buffer of two, one retransmission each |
| `server` | `EstablishedIsConfigured`, `EstablishedIsVerified`, `TokenOpensOnce`, `RouteIsUnique`, `DisconnectedIsGone`, `EstablishedKeepsIdentity` | with OAuth: two peers or one that comes back, two tokens, two permitted users and one that is not, a pool of two; without: four connections |
| `server_live` | `CompletionRetiresToken`, `IdleConnectionGoes` | liveness, without symmetry |
| `client` | `DataPlaneIsReady`, `TaskSpec`, `Settles`, `SilenceEnds` | one attempt with and without a login, loops of three and eight rounds |
| `nm` | `StartedIsConfigured`, `StartingSettles` | two overlapping calls, two attempts |
| `web` | `RemovedStaysRemoved`, `CapacityHeld`, `OneFormIsValid`, `DisconnectedAreGone` | two windows, one worker, room for two sessions, three sessions in all |
| `auth` | `PendingIsIndexed`, `LoginIsOwn`, `LookupsBounded`, `WithdrawnKeyDies` | two logins, two tasks, two keys, two lookups per window; with and without a `jwks_uri`, with and without the nonce |
| `records` | `KeptIsSuffix`, `AckedIsTaken`, `PurgedIsOld` | all four modes, two callers, three files of one event, failing operations; four events in the file or three and a crash, two with the database beside it |
| `exchange` | `ProfileFits`, `PacketsRoundTrip`, `CutIsHarmless`, `RecordsWhole`, `EndsAgree`, `ReplyAsConfigured` | six clients, one of them with its ciphers in lower case, against servers with tls-auth on and off, with and without the key file, two tunnels, two ciphers, and single variations of the settings; packets of 1100 and of 80 octets; one fault |

Why the bounds are enough: a second key exchange, connection at an address,
token, task, login or caller is what the properties compare; a third adds only
permutations, except where a VPN address might be reused, for which `server` has
four connections when there is no login. Windows, buffers, loops, limiters and files are
smaller than what goes through them, so all of them overflow. The theorems remove
the bounds for the safety properties they state; in particular they give
`WindowExact` for the widths 64 and 128 of the code.

One run states what a comment of the repository says and the code does not do.
In `reliable_buffered`, TLC violates `BufferedIsDelivered`: a packet that arrives
early is buffered and acknowledged, and dropped when its turn comes.

Deadlock is not checked where the system may stop: a pool that is used up, an
attempt that has ended, a log, a login or a plugin whose bounded inputs are over.

## Refinements

* `DataChannel` implements `AtMostOnceChannel` (`DeliversAtMostOnce`: checked by
  TLC, proved by TLAPS). The mapping is the identity on the histories of sealed
  and delivered packets; keys, counters and windows are hidden.
* `NativeClient` implements `ClientTask` under the mapping `Stage` (`TaskSpec`:
  checked by TLC, proved by TLAPS).
  `NmPlugin` runs each of its clients as a `ClientTask`, so what it shows of the
  plugin rests on what `client` shows of the client: `TaskSpec` for safety, and
  `Settles` for the fairness of a client that is not yet connected.

## Fairness

* `server_live`: weak fairness of the event loop's completion branch, because
  `tokio::select!` chooses at random among the branches that are ready, and of the
  two steps of the cleanup task, which tokio runs once a minute and which waits
  only for the log. Nothing is assumed of peers, network or identity provider.
* `client`: a receive ends with a datagram or with its timeout, since all of them
  are wrapped in one; a task that waits for nothing goes on; the ping timer
  ticks. Nothing is assumed of the server, the user or the network.
* `nm`: calls and tasks that are ready run, an aborted task dies at an await, and
  a client that is not connected settles. NetworkManager need not call anything,
  and a connected client need not end.

## Proofs

All proofs are checked by TLAPS with Z3, Zenon and, for the temporal steps, LS4.
Each module ends in theorems of the form `Spec => []P`, and rests on an inductive
invariant `IInv` (`Invariance`): one lemma per action or group of alike actions
shows that a step keeps it. The assumptions are the named ones on the constants,
which TLC evaluates in the runs; none bounds the number of processes, addresses,
packets or sessions. Bounds such as `MaxSends` or `MaxTime` appear as arbitrary
natural numbers.

| Module | Theorem | States |
|---|---|---|
| `DataChannelProofs` | `TypeCorrect`, `NonceSafety`, `WindowCorrect` | `TypeOK`, `NonceUnique`, `WindowExact` |
| | `AtMostOnce` | `DataChannel` implements `AtMostOnceChannel` |
| `AddressPoolProofs` | `NoDoubleAllocation`, `ReservedSafety` | `NoSharedAddress`, `ReservedKept` |
| `ReliableTransportProofs` | `TypeCorrect`, `InOrderDelivery`, `AckSafety`, `BufferSafety` | `TypeOK`, `InOrderOnce`, `AckedIsHeld`, `BufferAhead` |
| `VpnServerProofs` | `RouteUnique`, `Configuration`, `Verification` | `RouteIsUnique`, `EstablishedIsConfigured`, `EstablishedIsVerified` |
| | `TokenOnce`, `CleanupComplete` | `TokenOpensOnce`, `DisconnectedIsGone` |
| | `IdentityKept` | the action property `EstablishedKeepsIdentity` |
| `ClientProofs` | `DataPlaneReady` | `DataPlaneIsReady` |
| | `TaskImplemented` | `NativeClient` implements `ClientTask` |
| | `StartedConfigured` | `StartedIsConfigured` |
| `WebAdminProofs` | `RemovalIsFinal`, `Capacity`, `OneForm` | `RemovedStaysRemoved`, `CapacityHeld`, `OneFormIsValid` |
| | `DisconnectAll` | the action property `DisconnectedAreGone` |
| `AuthSessionsProofs` | `TypeCorrect`, `IndexSafety`, `LoginSafety` | `TypeOK`, `PendingIsIndexed`, `LoginIsOwn` |
| | `RateLimit` | `LookupsBounded` |
| | `WithdrawnKeys` | the action property `WithdrawnKeyDies` |
| `ConnectionLogProofs` | `OldestAreLost`, `OkIsTaken` | `KeptIsSuffix`, `AckedIsTaken` |
| | `PurgeRespectsRetention` | the action property `PurgedIsOld` |

Hardly any of the properties is inductive; what `IInv` adds is the reason why the
code has them:

* `DataChannelProofs`: a window represents a set of identifiers when the
  identifiers of its one bits are those of the set that lie inside it. `Accepts` is
  TRUE exactly for identifiers that are new and not too old, and `Mark` adds the
  identifier to the set. `IInv` says that a key is in one slot at most and is the
  newest there, that packets of a slot's key have identifiers up to its counter,
  that a delivered packet of a key still installed was seen by its window, and that
  windows represent what they have seen. Assumed: positive width and number of
  slots, natural limits.
* `AddressPoolProofs`: everything owned is marked, which is why the candidates of an
  allocation have no owner. Assumed: a configured family and the smallest sizes
  that validation admits.
* `ReliableTransportProofs`: only identifiers that `send` has given out are anywhere;
  an acknowledgement that is queued or under way is for a packet the receiver has
  passed, buffered or refused, so that it may arrive at any time later; what was
  delivered is behind the expected identifier. `BufferAhead` includes that the buffer
  stays within its limit. That a batch fits into the send
  window is a fact about cardinalities of runs of identifiers (`AddRun`). Assumed: a
  positive send window and batch, natural limits.
* `VpnServerProofs`: `Table` ties the parts of a connection together on every path
  (its address is marked in the pool, a waiting reply is for that address and comes
  with keys, an established connection of an OAuth server has no reply left and a
  verified login), `Distinct` keeps numbers and addresses of connections apart,
  `Logins` says that what is on its way to the event loop was verified and that a
  token which has opened a connection is not pending, and `Removal` that a
  connection logged as disconnected is on the list of the cleanup under way. That
  the reply is gone is what keeps a second completion out (`IdentityKept`). Assumed:
  permitted and claimed users are users, `None` is neither a user nor an address.
* `ClientProofs`, the client: before a login that the server asked for, no reply is
  anywhere in the TLS stream, in the plaintext or in the buffer; past the key
  exchange there is a reply and the server's key material; the events sent tell the
  phase. The refinement then takes every step to one of `ClientTask` or to a stutter.
* `ClientProofs`, the plugin (`PluginInv`): the queue of a task that still listens is one of the five that
  `ClientTask` leaves possible, and "Connected" is alone in it only after the
  configuration was signalled. Calls that replace or abort the task keep this,
  since a task that was aborted never listens again.
* `WebAdminProofs`: every copy in the hands of a worker bears the number of a session
  that was created, so no new session gets the number of a removed one; the table is
  finite and within its limit; the token in the store is that of the last form. Of
  what a `disconnect_all_sessions` found, only what it has still to remove can be in
  the table (`Swept`): no step brings a session with an old number back in
  (`NoOldComesIn`).
* `AuthSessionsProofs`: every copy a request holds, and not only every session, is
  logged in as the user who approved the login of its id (without the nonce: some
  approved user), and is open until then (`Own`), which is why writing back a stale copy is harmless to `LoginIsOwn`; every
  session is in the index, whether or not it is complete. For keys: the one in use
  was never withdrawn, an answer was given when its keys were published and is at
  most `Delay` old, and a cache entry expires within `Ttl` of that. `Completion` shows
  which two steps can complete a login under way. For the limiter (`LimiterInv`): of
  the lookups before the open window all passed before it opened, and all but
  `MaxLookups` are a window old, since the window before it was over by then.
  Assumed: key ids are numbers and there is one, the limit and the windows are
  positive, `None` is no user, id, key, session or entry.
* `ConnectionLogProofs`: the open writer has a file and no file is newer
  (`WriterInv`), so a new event is the last one there is, and a rename takes the
  writer along and never replaces its file, however many rotations run at once. No
  event is written twice (`Fresh`), which is what makes "before" an order. As long as
  no two rotations have overlapped and no rename has failed, the one that renames
  finds the writer closed and, below the oldest file, the name it renames to free
  (`RotationInv`): all it can overwrite is the oldest file. Otherwise it may replace a
  younger one, whose events are then `replaced`; the order and the completeness of
  the rest survive that as well (`GoodEmptied`). A call that may still answer Ok on account of the
  file has written its event (`AckInv`), and a row bears the rounded time of its event
  (`RowsInv`), which is less than `Round` off (`Rounding`). `KeptIsSuffix` itself is
  carried over the steps by lemmas about the contents of the files alone: an event is
  appended to the newest (`GoodAppend`), a file is renamed (`GoodRename`), the ring
  drops its head (`GoodTail`), a crash or a flush that fails unnoticed cuts off the
  buffer (`GoodCut`, `BufferLost`); a flush, a close or an open changes no contents. Assumed: positive sizes and limits, `None` is
  no number, no sequence of events and no writer.

Only model-checked:

* liveness, since fairness and ENABLED are beyond this prover:
  `CompletionRetiresToken`, `IdleConnectionGoes`, `Settles`, `SilenceEnds`,
  `StartingSettles`;
* everything of `KeyExchange`, whose readers and writers work through sequences of
  octets: what a fold or a recursion computes for every input needs an induction
  over data, which the prover cannot do.

Every other property of a passing run is stated by a theorem.

## Met while modelling

Without a run of their own, because a property above already states what holds
instead, or because the part concerned has no property:

* Server: a soft reset ends the traffic of an established connection; the cleanup
  removes a connection that became active while it awaited the log; the login for
  a replaced connection opens its successor; after an OAuth login no reply is
  left for a PUSH_REQUEST; VPN addresses are never released; `max_clients` limits
  only a session manager that the VPN path does not use.
* Pool: `available_v4` is two short, because `hosts()` leaves out the network and
  broadcast addresses that are subtracted again; `allocate_v6` leaves networks
  smaller than its search range.
* Ciphers: the native client keeps the cipher of its profile and offers ChaCha20
  first, so the ends disagree where the configuration says aes-256-gcm;
  AES-128-GCM is pushed to clients that prefer it while the session uses
  AES-256-GCM; the server finds a client's cipher whatever its case, keeps the
  client's spelling and then looks for "CHACHA" in it, so a client that offers
  "chacha20-poly1305" is told ChaCha20 while the session uses AES-256-GCM, against
  "Update the session's cipher suite to match the negotiated cipher"
  (server.rs:917; `EndsAgree` says exactly when the ends agree); `get_cipher_suite`
  knows "chacha" in lower case only, so that with "CHACHA20-POLY1305" in the
  configuration a connection starts with AES until the negotiation (`ProfileFits`).
* Profiles: they contain the tls-auth key whenever the file exists, also with
  `tls_auth = false`, although the generator's comments say "if enabled"
  (generator.rs:17 and 64); such a client never gets past its hard reset
  (`ProfileFits`); a `public_host` that is a name or an IPv6 address is
  refused by the native client; the client's reader refuses static keys of more
  than 256 octets, the server's ignores the rest.
* Control channel: a retransmitted hard reset is sent as a control packet;
  `get_acks` hands out more acknowledgements than the 16 the parser takes; a
  PUSH_REPLY of more than 8192 octets is read cut; AUTH_PENDING and WEB_AUTH read
  together lose the URL; IPv6 entries of `push_routes` pass the validation and are
  dropped by the server or at the client (`ReplyAsConfigured`), and host bits are
  kept; the native client only logs the resolvers and the gateway it is sent; with
  tls-auth one repeated datagram ends its attempt.
* Authentication: a completed login leaves its entry in the index by state; a
  stale copy that is written back undoes a login; a lookup by state counts twice;
  an unknown key id does not refetch the JWKS; `decode_and_verify_jwt`, which by its
  comment verifies before it trusts, accepts any signature when the validator has no
  `jwks_uri` (token.rs:382-386); an absent nonce is not compared.
* Connection log: with `max_files = 1` the log is never cut; when the file cannot be
  opened after the renames, the writer stays closed until the server is started
  again; a rename that fails is ignored, and the next one replaces the file that was
  to be moved away, though older ones are kept; writes during another
  caller's rotation are refused; the composite's cleanup skips the purge when the
  rotation fails.
* Plugin and desktop client: a task that fails late clears the handle of its
  successor. In the desktop client Disconnect only reports the event and does not
  stop the task, Connected is reported after `connect` has returned, and several
  Connects run several tasks.

## Not modelled

* Cryptography (AEAD, MAC, PRF, TLS, X.509) is ideal or environment.
* Templates and views of the administration pages and the desktop client, which
  turn state into text; the desktop client's back end is a thin wrapper around the
  native client.
* The audit pipeline: `AuditLogger` has no caller and its network sinks are stubs.
* `corevpn-core/user.rs`: records without a user in the server.
* The device flow and provider metadata of `corevpn-auth`: the server does not use
  the first, the second is one HTTP request.
* tls-crypt, which neither end uses.
* Set-up, privileges and service commands: one-shot I/O. Of the configuration, the
  settings that reach neither the profile nor the PUSH_REPLY.
* The RTT estimate, which only determines when timers run out, and the statistics.

## Plan

1. Further action properties that follow from the invariants there are, such as what
   a step of `ReliableTransport` may never forget and what an aborted task of
   `NmPlugin` may never signal.
2. `KeyExchange`: with its records and messages as values instead of octets, what the
   two ends agree on could be proved apart from how it is encoded; the encodings
   themselves stay with TLC.
