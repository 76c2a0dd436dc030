---------------------------- MODULE AuthSessions ----------------------------
(***************************************************************************)
(* The authentication library: the rate limiter, the session manager with  *)
(* its index by OAuth2 state (session.rs), the authorization code flow     *)
(* (flow.rs) and the ID token validator with its JWKS cache (token.rs).    *)
(*                                                                         *)
(* A task is a request handler that takes one callback through the         *)
(* library: it looks the session up by its state, exchanges the code,      *)
(* verifies the ID token and stores the completed session.  Every lock     *)
(* region is one step; an await is the gap between two steps.              *)
(*                                                                         *)
(* A session's random id, state and nonce are drawn together, so the id    *)
(* names all three.  All requests come from one client address, which is   *)
(* the key of the limiter.  Time is counted in ticks.                      *)
(***************************************************************************)
EXTENDS Naturals, FiniteSets, FiniteSetsExt

CONSTANTS Ids,         \* the sessions create_session may draw
          Users,       \* e-mail addresses
          Tasks,       \* request handlers that run at the same time
          Kids,        \* key ids of the provider, used in this order
          MaxLookups,  \* max_attempts of lookup_rate_limiter
          Window,      \* its window
          Lifetime,    \* default_lifetime of a session
          Ttl,         \* ttl of the JWKS cache
          Delay,       \* longest time between a JWKS answer and its insertion
          MaxTime,     \* bound on the clock
          None

ASSUME ConstantsAssumption ==
    /\ MaxLookups \in Nat \ {0} /\ Window \in Nat \ {0} /\ Ttl \in Nat \ {0}
    /\ Lifetime \in Nat /\ Delay \in Nat /\ MaxTime \in Nat
    /\ Kids \subseteq Nat /\ Kids # {}
    /\ None \notin Ids \cup Users \cup Kids

VARIABLES now,
          sessions,           \* sessions by id; None when there is none
          sessions_by_state,  \* the states that are keys of the index
          drawn,              \* ids drawn so far
          entry,              \* the limiter's entry for the client address
          allowed,            \* ages of the latest lookups let through, newest first
          approved,           \* who follows the authorization_url of a session
                              \* and logs in at the provider, if anyone does
          kid,                \* key the provider publishes and signs with
          withdrawn,          \* when a key was withdrawn
          setup,              \* jwks_uri: the validator has one (with_jwks_uri);
                              \* nonce: the handlers pass an expected_nonce
          jwks_cache,
          task

vars == <<now, sessions, sessions_by_state, drawn, entry, allowed, approved,
          kid, withdrawn, setup, jwks_cache, task>>

managerVars == <<sessions, sessions_by_state, drawn>>
limiterVars == <<entry, allowed>>
providerVars == <<approved, kid, withdrawn, setup>>

Times == 0 .. MaxTime
Ages == 0 .. Window                \* Window stands for all that are older
Latest == 1 .. 2 * MaxLookups + 1  \* lookups that are remembered

(* AuthSession: login holds while auth_state is Some. *)
AuthSession == [login : BOOLEAN, user : Users \cup {None},
                expires_at : 0 .. MaxTime + Lifetime]

Entry == [count : Nat, reset_at : 0 .. MaxTime + Window]

ASSUME NoneAssumption == None \notin AuthSession \cup Entry

(* The ID token a code was exchanged for. *)
IdToken == [nonce : Ids, user : Users, kid : Kids]

Idle == [pc |-> "idle", id |-> None, copy |-> None, token |-> None,
         served |-> None, keys |-> None]

-----------------------------------------------------------------------------
(* The rate limiter *)

(* Mutant of check: the attempt is compared before it is counted. *)
CheckBeforeCounting ==
    LET live == entry # None /\ entry.reset_at > now
        e == IF live THEN entry ELSE [count |-> 0, reset_at |-> now + Window]
    IN  [entry |-> [e EXCEPT !.count = @ + 1], allowed |-> e.count <= MaxLookups]

(* check: expired entries go, the first attempt of a window opens it, and  *)
(* max_attempts of them are let through until it closes.                   *)
check ==
    LET live == entry # None /\ entry.reset_at > now
        e == IF live THEN entry ELSE [count |-> 0, reset_at |-> now + Window]
    IN  [entry |-> [e EXCEPT !.count = @ + 1], allowed |-> e.count + 1 <= MaxLookups]

(* A lookup passes the limiter.  Counts past the first refusal are alike.  *)
Allowed ==
    /\ check.allowed
    /\ entry' = check.entry
    /\ allowed' = [n \in Latest |-> IF n = 1 THEN 0 ELSE allowed[n - 1]]

Limited ==
    /\ ~check.allowed
    /\ entry' = [check.entry EXCEPT !.count = MaxLookups + 1]
    /\ UNCHANGED allowed

-----------------------------------------------------------------------------
(* The session manager *)

Live == {i \in Ids : sessions[i] # None}

is_expired(i) == now > sessions[i].expires_at

is_authenticated(s) == s.user # None

(* AuthSession::new and AuthState::new. *)
NewSession == [login |-> TRUE, user |-> None, expires_at |-> now + Lifetime]

create_session(i) ==
    /\ i \notin drawn
    /\ drawn' = drawn \cup {i}
    /\ sessions_by_state' = sessions_by_state \cup {i}
    /\ sessions' = [sessions EXCEPT ![i] = NewSession]
    /\ UNCHANGED <<now, limiterVars, providerVars, jwks_cache, task>>

(* Removing a set of sessions drops the index entries of those that still  *)
(* have their auth_state; what a completed session leaves in the index     *)
(* stays there.                                                            *)
Remove(gone) ==
    /\ sessions' = [i \in Ids |-> IF i \in gone THEN None ELSE sessions[i]]
    /\ sessions_by_state' = sessions_by_state \ {i \in gone : sessions[i].login}
    /\ UNCHANGED <<now, drawn, limiterVars, providerVars, jwks_cache, task>>

remove_session(i) == i \in Live /\ Remove({i})

remove_user_sessions(u) ==
    LET gone == {i \in Live : sessions[i].user = u}
    IN  gone # {} /\ Remove(gone)

cleanup_expired ==
    LET gone == {i \in Live : is_expired(i)}
    IN  gone # {} /\ Remove(gone)

(* get_user_sessions changes nothing but the limiter. *)
get_user_sessions ==
    /\ Allowed \/ Limited
    /\ UNCHANGED <<now, managerVars, providerVars, jwks_cache, task>>

-----------------------------------------------------------------------------
(* A callback *)

At(t, pc) == task[t].pc = pc

Ends(t) == task' = [task EXCEPT ![t] = Idle]

(* get_session_by_state up to the read of the index. *)
get_session_by_state(t, i) ==
    /\ At(t, "idle") /\ i \in drawn
    /\ \/ /\ Allowed
          /\ i \in sessions_by_state
          /\ task' = [task EXCEPT ![t].pc = "indexed", ![t].id = i]
       \/ /\ Allowed /\ i \notin sessions_by_state
          /\ UNCHANGED task
       \/ Limited /\ UNCHANGED task
    /\ UNCHANGED <<now, managerVars, providerVars, jwks_cache>>

(* get_session, which takes the limiter a second time. *)
get_session(t) ==
    /\ At(t, "indexed")
    /\ \/ /\ Allowed /\ sessions[task[t].id] # None
          /\ task' = [task EXCEPT ![t].pc = "loaded",
                                  ![t].copy = sessions[task[t].id]]
       \/ Allowed /\ sessions[task[t].id] = None /\ Ends(t)
       \/ Limited /\ Ends(t)
    /\ UNCHANGED <<now, managerVars, providerVars, jwks_cache>>

(* exchange_code: the code of the callback is that of some login; any      *)
(* failure ends the request.                                               *)
exchange_code(t) ==
    /\ At(t, "loaded") /\ task[t].copy.login
    /\ \/ \E j \in Ids :
            /\ approved[j] # None
            /\ task' = [task EXCEPT
                 ![t].pc = "exchanged",
                 ![t].token = [nonce |-> j, user |-> approved[j], kid |-> kid]]
       \/ Ends(t)
    /\ UNCHANGED <<now, managerVars, limiterVars, providerVars, jwks_cache>>

(* refresh_token with update_tokens: a copy that is logged in gets other   *)
(* tokens, which are not told apart here.                                  *)
refresh_token(t) ==
    /\ At(t, "loaded") /\ is_authenticated(task[t].copy)
    /\ \/ task' = [task EXCEPT ![t].pc = "changed"]
       \/ Ends(t)
    /\ UNCHANGED <<now, managerVars, limiterVars, providerVars, jwks_cache>>

(* extend (or touch and associate_vpn_session) on a copy. *)
extend(t) ==
    /\ At(t, "loaded")
    /\ task' = [task EXCEPT ![t].pc = "changed",
                            ![t].copy.expires_at = now + Lifetime]
    /\ UNCHANGED <<now, managerVars, limiterVars, providerVars, jwks_cache>>

(* A request that only reads leaves with its copy. *)
Leave(t) ==
    /\ At(t, "loaded") /\ Ends(t)
    /\ UNCHANGED <<now, managerVars, limiterVars, providerVars, jwks_cache>>

-----------------------------------------------------------------------------
(* The validator *)

(* Mutant of cache_get: an entry is served whatever its age. *)
CacheGetStale == IF jwks_cache = None THEN None ELSE jwks_cache.keys

(* JwksCache::get *)
cache_get ==
    IF jwks_cache # None /\ now < jwks_cache.expires_at
    THEN jwks_cache.keys ELSE None

(* Mutant of validate_claims: the nonce is not compared. *)
ValidateWithoutNonce(token, expected_nonce) == TRUE

(* validate_claims on a token the provider issued to this client: issuer,  *)
(* audience and times are the provider's, the nonce is that of the login,  *)
(* and is compared if one is expected.                                     *)
validate_claims(token, expected_nonce) ==
    expected_nonce = None \/ token.nonce = expected_nonce

(* The claims of a token that is not or no longer in doubt: validate_claims *)
(* and complete_auth on the task's copy.                                   *)
Trust(t) ==
    LET token == task[t].token
    IN  IF validate_claims(token, IF setup.nonce THEN task[t].id ELSE None)
        THEN task' = [task EXCEPT ![t].pc = "changed",
                                  ![t].copy = [@ EXCEPT !.login = FALSE,
                                                        !.user = token.user],
                                  ![t].served = None, ![t].keys = None]
        ELSE Ends(t)

(* The rest of verify_signature once the keys are known. *)
Judge(t, keys) == IF task[t].token.kid \in keys THEN Trust(t) ELSE Ends(t)

(* decode_and_verify_jwt up to fetch_jwks: without a jwks_uri no key is    *)
(* looked at, and a cached key set is used at once.                        *)
decode_and_verify_jwt(t) ==
    /\ At(t, "exchanged")
    /\ IF ~setup.jwks_uri THEN Trust(t)
       ELSE IF cache_get # None THEN Judge(t, cache_get)
       ELSE task' = [task EXCEPT ![t].pc = "fetching"]
    /\ UNCHANGED <<now, managerVars, limiterVars, providerVars, jwks_cache>>

(* The provider answers with the keys it publishes then, or not at all.    *)
JwksAnswered(t) ==
    /\ At(t, "fetching")
    /\ \/ task' = [task EXCEPT ![t].pc = "answered", ![t].served = now,
                               ![t].keys = {kid}]
       \/ Ends(t)
    /\ UNCHANGED <<now, managerVars, limiterVars, providerVars, jwks_cache>>

(* The tail of fetch_jwks: the answer is cached, whatever another task     *)
(* cached since, and the token is judged by it.                            *)
fetch_jwks(t) ==
    /\ At(t, "answered")
    /\ jwks_cache' = [keys |-> task[t].keys, expires_at |-> now + Ttl]
    /\ Judge(t, task[t].keys)
    /\ UNCHANGED <<now, managerVars, limiterVars, providerVars>>

-----------------------------------------------------------------------------
(* Mutant of update_session: a completed session leaves the index. *)
UpdateUnindexing(t) ==
    LET i == task[t].id
    IN  /\ At(t, "changed")
        /\ IF sessions[i] # None
           THEN /\ sessions' = [sessions EXCEPT ![i] = task[t].copy]
                /\ sessions_by_state' = IF task[t].copy.login THEN sessions_by_state
                                        ELSE sessions_by_state \ {i}
           ELSE UNCHANGED <<sessions, sessions_by_state>>
        /\ Ends(t)
        /\ UNCHANGED <<now, drawn, limiterVars, providerVars, jwks_cache>>

(* update_session: the copy replaces a session that is still there. *)
update_session(t) ==
    LET i == task[t].id
    IN  /\ At(t, "changed")
        /\ sessions' = IF sessions[i] # None
                       THEN [sessions EXCEPT ![i] = task[t].copy] ELSE sessions
        /\ Ends(t)
        /\ UNCHANGED <<now, sessions_by_state, drawn, limiterVars, providerVars,
                       jwks_cache>>

(* The provider replaces its key (external). *)
Rotate ==
    /\ \E k \in Kids :
         /\ k > kid /\ kid' = k
         /\ withdrawn' = [withdrawn EXCEPT ![kid] = now]
    /\ UNCHANGED <<now, managerVars, limiterVars, approved, setup, jwks_cache, task>>

(* Time passes; an answer that has arrived is handled within Delay.        *)
Tick ==
    /\ now < MaxTime
    /\ \A t \in Tasks : At(t, "answered") => now < task[t].served + Delay
    /\ now' = now + 1
    /\ allowed' = [n \in Latest |-> IF allowed[n] < Window THEN allowed[n] + 1 ELSE Window]
    /\ UNCHANGED <<managerVars, entry, providerVars, jwks_cache, task>>

Init ==
    /\ now = 0
    /\ sessions = [i \in Ids |-> None] /\ sessions_by_state = {} /\ drawn = {}
    /\ entry = None /\ allowed = [n \in Latest |-> Window]
    /\ approved \in [Ids -> Users \cup {None}]
    /\ kid = Min(Kids) /\ withdrawn = [k \in Kids |-> None]
    /\ setup \in [jwks_uri : BOOLEAN, nonce : BOOLEAN]
    /\ jwks_cache = None
    /\ task = [t \in Tasks |-> Idle]

Step(t) ==
    \/ \E i \in Ids : get_session_by_state(t, i)
    \/ get_session(t)
    \/ exchange_code(t)
    \/ refresh_token(t)
    \/ extend(t)
    \/ Leave(t)
    \/ decode_and_verify_jwt(t)
    \/ JwksAnswered(t)
    \/ fetch_jwks(t)
    \/ update_session(t)

Next ==
    \/ \E i \in Ids : create_session(i) \/ remove_session(i)
    \/ \E u \in Users : remove_user_sessions(u)
    \/ cleanup_expired
    \/ get_user_sessions
    \/ \E t \in Tasks : Step(t)
    \/ Rotate
    \/ Tick

Spec == Init /\ [][Next]_vars

-----------------------------------------------------------------------------
TypeOK ==
    /\ now \in Times
    /\ sessions \in [Ids -> AuthSession \cup {None}]
    /\ sessions_by_state \subseteq drawn /\ drawn \subseteq Ids
    /\ entry \in Entry \cup {None} /\ allowed \in [Latest -> Ages]
    /\ approved \in [Ids -> Users \cup {None}]
    /\ kid \in Kids /\ withdrawn \in [Kids -> Times \cup {None}]
    /\ setup \in [jwks_uri : BOOLEAN, nonce : BOOLEAN]
    /\ \A t \in Tasks : task[t].token \in IdToken \cup {None}

(* The logins a callback of session i may be completed with: its own if    *)
(* the nonce is compared, any otherwise.                                   *)
Logins(i) == IF setup.nonce THEN {i} ELSE Ids

(* A session that still waits for its login can be found by its state,     *)
(* whatever copies other requests wrote back in the meantime               *)
(* (get_session_by_state goes through the index alone); and an entry of    *)
(* the index that leads nowhere is one a completed login left behind.      *)
PendingIsIndexed ==
    \A i \in drawn :
        /\ sessions[i] # None /\ sessions[i].login => i \in sessions_by_state
        /\ i \in sessions_by_state /\ sessions[i] = None =>
              \E j \in Logins(i) : approved[j] # None

(* A session is logged in as the user who approved that very login, also   *)
(* when callbacks of two logins overlap and each brings the other's code,  *)
(* provided the handler passes the nonce; if it passes none, as a user who *)
(* approved some login (validate_claims, token.rs:277-281).                *)
LoginIsOwn ==
    \A i \in Ids : sessions[i] # None /\ is_authenticated(sessions[i])
        => sessions[i].user \in {approved[j] : j \in Logins(i)}

(* The limiter's fixed windows let through at most twice max_attempts in   *)
(* any stretch of time of one window's length: whenever one more passes,   *)
(* the one that passed twice max_attempts earlier is a window old.         *)
LookupsBounded == allowed[2 * MaxLookups + 1] = Window

(* A validator that has a jwks_uri stops accepting a key the provider has  *)
(* withdrawn: no token is judged good by it once the answer that carried   *)
(* it and the cache entry made from that answer have had their time.  One  *)
(* that has none never looks at a key (token.rs:382-386), so that nothing  *)
(* is claimed for it.                                                      *)
WithdrawnKeyDies ==
    [][\A t \in Tasks :
         (/\ setup.jwks_uri
          /\ task[t].pc \in {"exchanged", "answered"} /\ task'[t].pc = "changed")
         => LET w == withdrawn[task[t].token.kid]
            IN  w = None \/ now < w + Delay + Ttl]_vars
=============================================================================
