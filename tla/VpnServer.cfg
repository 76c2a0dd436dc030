\* With OAuth and without: peers that come back, late logins, a pool that runs out.
SPECIFICATION Spec
CONSTANTS
    Addrs = {a1, a2}
    Ips = {ip1, ip2}
    Users = {u1, u2, u3}
    Allowed = {u1, u2}
    Claims = {u3}
    None = None
    RetryTimeout = 0
    IdleTimeout = 1
    MaxAge = 2
    MaxConns <- MCMaxConns
    MaxTokens = 2
    ChannelCap = 1
SYMMETRY ServerSymmetry
INVARIANTS
    EstablishedIsConfigured
    EstablishedIsVerified
    TokenOpensOnce
    RouteIsUnique
    DisconnectedIsGone
PROPERTY
    EstablishedKeepsIdentity
