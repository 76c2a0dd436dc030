\* One token and the cleanup task, under the fairness of the tokio scheduler.
SPECIFICATION FairSpec
CONSTANTS
    Addrs = {a1}
    Ips = {ip1, ip2}
    Users = {u1}
    Allowed = {u1}
    Claims = {u1}
    None = None
    RetryTimeout = 0
    IdleTimeout = 1
    MaxAge = 2
    MaxConns <- LiveMaxConns
    MaxTokens = 2
    ChannelCap = 2
PROPERTIES
    CompletionRetiresToken
    IdleConnectionGoes
