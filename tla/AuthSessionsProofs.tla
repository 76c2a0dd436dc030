------------------------- MODULE AuthSessionsProofs -------------------------
(***************************************************************************)
(* The session manager, the code flow and the key cache of the             *)
(* authentication library for every number of sessions, users, requests    *)
(* and keys, every lifetime and every delay.                               *)
(***************************************************************************)
EXTENDS AuthSessions, WellFoundedInduction, TLAPS

Holding == {"loaded", "exchanged", "fetching", "answered", "changed"}

TaskRecord ==
    [pc : {"idle", "indexed"} \cup Holding, id : Ids \cup {None},
     copy : AuthSession \cup {None}, token : IdToken \cup {None},
     served : Times \cup {None}, keys : (SUBSET Kids) \cup {None}]

\* Who a session or a copy of one may be logged in as; it is open until then.
Own(i, c) ==
    /\ c.user # None => c.user \in {approved[j] : j \in Logins(i)}
    /\ ~c.login => c.user # None

\* There is a login that session i can have been completed with.
Finished(i) == \E j \in Logins(i) : approved[j] # None

Typed ==
    /\ now \in Times
    /\ sessions \in [Ids -> AuthSession \cup {None}]
    /\ sessions_by_state \subseteq drawn /\ drawn \subseteq Ids
    /\ approved \in [Ids -> Users \cup {None}]
    /\ kid \in Kids /\ withdrawn \in [Kids -> Times \cup {None}]
    /\ task \in [Tasks -> TaskRecord]
    /\ setup \in [jwks_uri : BOOLEAN, nonce : BOOLEAN]

\* Every session is in the index, and only a completed login leaves its entry.
Table ==
    \A i \in Ids :
        /\ sessions[i] # None => i \in sessions_by_state /\ Own(i, sessions[i])
        /\ i \in sessions_by_state /\ sessions[i] = None => Finished(i)

\* The keys of an answer were published when it was given.
Answer(r) ==
    /\ r.served \in Times /\ r.keys \in SUBSET Kids
    /\ r.served <= now /\ now <= r.served + Delay
    /\ \A k \in r.keys : withdrawn[k] = None \/ r.served <= withdrawn[k]

\* What a request knows, by where it is.
Good(r) ==
    /\ r.pc \in Holding \cup {"indexed"} => r.id \in drawn
    /\ r.pc \in Holding => r.copy \in AuthSession /\ Own(r.id, r.copy)
    /\ r.pc \in {"exchanged", "fetching", "answered"} =>
          r.token \in IdToken /\ r.token.user = approved[r.token.nonce]
    /\ r.pc = "answered" => Answer(r)

\* A cached key that was withdrawn is not served for long.
Cache ==
    jwks_cache # None =>
        /\ jwks_cache.keys \in SUBSET Kids
        /\ jwks_cache.expires_at \in Nat /\ jwks_cache.expires_at <= now + Ttl
        /\ \A k \in jwks_cache.keys :
              withdrawn[k] = None \/ jwks_cache.expires_at <= withdrawn[k] + Delay + Ttl

\* Keys are withdrawn in their order, so the one in use never was.
Order == \A k \in Kids : withdrawn[k] # None => k < kid

IInv ==
    /\ Typed
    /\ Table
    /\ \A t \in Tasks : Good(task[t])
    /\ Cache
    /\ Order

USE ConstantsAssumption

-----------------------------------------------------------------------------
\* The provider's first key is one of its keys.
LEMMA FirstKey == Min(Kids) \in Kids
<1> DEFINE R == OpToRel(<, Nat)
<1>1. \E x \in Kids : \A y \in Kids : ~(<<y, x>> \in R)
  BY NatLessThanWellFounded, WFMin
<1>2. \A x, y \in Nat : <<y, x>> \in R <=> y < x
  BY DEF OpToRel
<1> HIDE DEF R
<1>3. PICK x \in Kids : \A y \in Kids : ~(<<y, x>> \in R)
  BY <1>1
<1>4. \A y \in Kids : x =< y
  <2> SUFFICES ASSUME NEW y \in Kids PROVE x =< y
    OBVIOUS
  <2>1. x \in Nat /\ y \in Nat /\ ~(y < x)
    BY <1>2, <1>3
  <2> QED BY <2>1
<1> QED BY <1>4 DEF Min

LEMMA IdleFields ==
    /\ Idle \in TaskRecord /\ Idle.pc = "idle"
    /\ Good(Idle)
<1>1. Idle \in TaskRecord /\ Idle.pc = "idle"
  BY DEF Idle, TaskRecord, Holding
<1> QED BY <1>1 DEF Good, Holding

\* Steps of a request that leave the manager, the provider and the cache alone.
LEMMA RequestIInv ==
    ASSUME IInv, NEW t \in Tasks, NEW r \in TaskRecord, Good(r),
           task' = [task EXCEPT ![t] = r],
           UNCHANGED <<now, managerVars, providerVars, jwks_cache>>
    PROVE  IInv'
<1>1. UNCHANGED <<now, sessions, sessions_by_state, drawn, approved, kid, withdrawn, setup, jwks_cache>>
  BY DEF managerVars, providerVars
<1>2. Typed'
  BY <1>1 DEF IInv, Typed
<1>3. Table' /\ Cache' /\ Order'
  BY <1>1 DEF IInv, Table, Own, Logins, Finished, Cache, Order
<1>4. \A u \in Tasks : Good(task[u])'
  <2> SUFFICES ASSUME NEW u \in Tasks PROVE Good(task[u])'
    OBVIOUS
  <2> PICK q : q = task'[u]
    OBVIOUS
  <2>1. Good(q)
    BY DEF IInv, Typed
  <2> QED BY <1>1, <2>1 DEF Good, Own, Logins, Finished, Answer
<1> QED BY <1>2, <1>3, <1>4 DEF IInv

LEMMA EndsIInv ==
    ASSUME IInv, NEW t \in Tasks, Ends(t) \/ UNCHANGED task,
           UNCHANGED <<now, managerVars, providerVars, jwks_cache>>
    PROVE  IInv'
<1>1. task \in [Tasks -> TaskRecord] /\ Good(task[t]) /\ task[t] \in TaskRecord
  BY DEF IInv, Typed
<1>2. CASE Ends(t)
  BY <1>2, IdleFields, RequestIInv DEF Ends
<1>3. CASE UNCHANGED task
  <2>1. task' = [task EXCEPT ![t] = task[t]]
    BY <1>1, <1>3
  <2> QED BY <1>1, <2>1, RequestIInv
<1> QED BY <1>2, <1>3

-----------------------------------------------------------------------------
(***************************************************************************)
(* Requests.                                                               *)
(***************************************************************************)
\* What the invariant says of one request.
LEMMA AtTask ==
    ASSUME IInv, NEW t \in Tasks
    PROVE  task[t] \in TaskRecord /\ Good(task[t]) /\ task \in [Tasks -> TaskRecord]
BY DEF IInv, Typed

LEMMA LookupIInv ==
    ASSUME IInv, NEW t \in Tasks, NEW i \in Ids, get_session_by_state(t, i)
    PROVE  IInv'
<1>1. UNCHANGED <<now, managerVars, providerVars, jwks_cache>> /\ i \in drawn
  BY DEF get_session_by_state
<1>2. CASE UNCHANGED task
  BY <1>1, <1>2, EndsIInv
<1>3. CASE task' = [task EXCEPT ![t].pc = "indexed", ![t].id = i]
  <2> DEFINE q == task[t]
             r == [q EXCEPT !.pc = "indexed", !.id = i]
  <2>1. q \in TaskRecord
    BY AtTask
  <2>2. task' = [task EXCEPT ![t] = r]
    BY <1>3, AtTask
  <2> HIDE DEF q
  <2>3. r \in TaskRecord /\ r.pc = "indexed" /\ r.id = i
    BY <2>1 DEF TaskRecord, Holding
  <2> HIDE DEF r
  <2>4. Good(r)
    BY <1>1, <2>3 DEF Good, Holding
  <2> QED BY <1>1, <2>2, <2>3, <2>4, RequestIInv
<1> QED BY <1>2, <1>3 DEF get_session_by_state

LEMMA LoadIInv ==
    ASSUME IInv, NEW t \in Tasks, get_session(t)
    PROVE  IInv'
<1>1. UNCHANGED <<now, managerVars, providerVars, jwks_cache>> /\ task[t].pc = "indexed"
  BY DEF get_session, At
<1>2. CASE Ends(t)
  BY <1>1, <1>2, EndsIInv
<1>3. CASE sessions[task[t].id] # None
           /\ task' = [task EXCEPT ![t].pc = "loaded", ![t].copy = sessions[task[t].id]]
  <2> DEFINE q == task[t]
             r == [q EXCEPT !.pc = "loaded", !.copy = sessions[q.id]]
  <2>1. q \in TaskRecord /\ q.id \in drawn /\ q.id \in Ids
    BY <1>1, AtTask DEF Good, IInv, Typed
  <2>2. task' = [task EXCEPT ![t] = r]
    BY <1>3, AtTask
  <2>3. sessions[q.id] \in AuthSession /\ Own(q.id, sessions[q.id])
    BY <1>3, <2>1 DEF IInv, Typed, Table
  <2> HIDE DEF q
  <2>4. r \in TaskRecord /\ r.pc = "loaded" /\ r.id = q.id /\ r.copy = sessions[q.id]
    BY <2>1, <2>3 DEF TaskRecord, Holding
  <2> HIDE DEF r
  <2>5. Good(r)
    BY <2>1, <2>3, <2>4 DEF Good, Holding
  <2> QED BY <1>1, <2>2, <2>4, <2>5, RequestIInv
<1> QED BY <1>2, <1>3 DEF get_session

LEMMA ExchangeIInv ==
    ASSUME IInv, NEW t \in Tasks, exchange_code(t)
    PROVE  IInv'
<1>1. UNCHANGED <<now, managerVars, providerVars, jwks_cache>> /\ task[t].pc = "loaded"
  BY DEF exchange_code, At
<1>2. CASE Ends(t)
  BY <1>1, <1>2, EndsIInv
<1>3. ASSUME NEW j \in Ids, approved[j] # None,
             task' = [task EXCEPT ![t].pc = "exchanged",
                        ![t].token = [nonce |-> j, user |-> approved[j], kid |-> kid]]
      PROVE  IInv'
  <2> DEFINE q == task[t]
             tok == [nonce |-> j, user |-> approved[j], kid |-> kid]
             r == [q EXCEPT !.pc = "exchanged", !.token = tok]
  <2>1. /\ q \in TaskRecord /\ q.id \in drawn /\ q.copy \in AuthSession /\ Own(q.id, q.copy)
    BY <1>1, AtTask DEF Good, Holding
  <2>2. task' = [task EXCEPT ![t] = r]
    BY <1>3, AtTask
  <2>3. tok \in IdToken /\ tok.user = approved[tok.nonce]
    BY <1>3 DEF IInv, Typed, IdToken
  <2> HIDE DEF q, tok
  <2>4. r \in TaskRecord /\ r.pc = "exchanged" /\ r.id = q.id /\ r.copy = q.copy /\ r.token = tok
    BY <2>1, <2>3 DEF TaskRecord, Holding
  <2> HIDE DEF r
  <2>5. Good(r)
    BY <2>1, <2>3, <2>4 DEF Good, Holding
  <2> QED BY <1>1, <2>2, <2>4, <2>5, RequestIInv
<1> QED BY <1>2, <1>3 DEF exchange_code

\* refresh_token and extend change neither the user nor whether it is logged in.
LEMMA ChangeIInv ==
    ASSUME IInv, NEW t \in Tasks, refresh_token(t) \/ extend(t) \/ Leave(t)
    PROVE  IInv'
<1>1. UNCHANGED <<now, managerVars, providerVars, jwks_cache>> /\ task[t].pc = "loaded"
  BY DEF refresh_token, extend, Leave, At
<1>2. CASE Ends(t)
  BY <1>1, <1>2, EndsIInv
<1> DEFINE q == task[t]
<1>3. /\ q \in TaskRecord /\ q.id \in drawn /\ q.copy \in AuthSession /\ Own(q.id, q.copy)
      /\ task \in [Tasks -> TaskRecord]
  BY <1>1, AtTask DEF Good, Holding
<1>4. CASE task' = [task EXCEPT ![t].pc = "changed"]
  <2> DEFINE r == [q EXCEPT !.pc = "changed"]
  <2>1. task' = [task EXCEPT ![t] = r]
    BY <1>3, <1>4
  <2> HIDE DEF q
  <2>2. r \in TaskRecord /\ r.pc = "changed" /\ r.id = q.id /\ r.copy = q.copy
    BY <1>3 DEF TaskRecord, Holding
  <2> HIDE DEF r
  <2>3. Good(r)
    BY <1>3, <2>2 DEF Good, Holding
  <2> QED BY <1>1, <2>1, <2>2, <2>3, RequestIInv
<1>5. CASE task' = [task EXCEPT ![t].pc = "changed", ![t].copy.expires_at = now + Lifetime]
  <2> DEFINE b == q.copy
             c == [b EXCEPT !.expires_at = now + Lifetime]
             r == [q EXCEPT !.pc = "changed", !.copy = c]
  <2>1. task' = [task EXCEPT ![t] = r]
    BY <1>3, <1>5
  <2>2. b \in AuthSession /\ Own(q.id, b) /\ now + Lifetime \in 0 .. MaxTime + Lifetime
    BY <1>3 DEF IInv, Typed, Times
  <2> HIDE DEF q, b
  <2>3. c \in AuthSession /\ c.user = b.user /\ c.login = b.login
    BY <2>2 DEF AuthSession
  <2> HIDE DEF c
  <2>4. r \in TaskRecord /\ r.pc = "changed" /\ r.id = q.id /\ r.copy = c
    BY <1>3, <2>3 DEF TaskRecord, Holding
  <2> HIDE DEF r
  <2>5. Own(q.id, c)
    BY <2>2, <2>3 DEF Own, Logins, Finished
  <2>6. Good(r)
    BY <1>3, <2>3, <2>4, <2>5 DEF Good, Holding
  <2> QED BY <1>1, <2>1, <2>4, <2>6, RequestIInv
<1> QED BY <1>2, <1>4, <1>5 DEF refresh_token, extend, Leave

-----------------------------------------------------------------------------
(***************************************************************************)
(* The validator.                                                          *)
(***************************************************************************)
\* A request whose token is good has a copy logged in as the user of that token,
\* who is the one who approved the login of its session if the nonce is compared.
LEMMA TrustGood ==
    ASSUME IInv, NEW t \in Tasks, task[t].pc \in {"exchanged", "answered"}, Trust(t)
    PROVE  \E r \in TaskRecord :
               /\ task' = [task EXCEPT ![t] = r]
               /\ r = Idle \/ r.pc = "changed"
               /\ Good(r)
<1> DEFINE q == task[t]
           b == q.copy
           c == [b EXCEPT !.login = FALSE, !.user = q.token.user]
           r == [q EXCEPT !.pc = "changed", !.copy = c, !.served = None, !.keys = None]
           valid == validate_claims(q.token, IF setup.nonce THEN q.id ELSE None)
<1>1. /\ q \in TaskRecord /\ task \in [Tasks -> TaskRecord]
      /\ q.id \in drawn /\ q.id \in Ids /\ b \in AuthSession
      /\ q.token \in IdToken /\ q.token.user = approved[q.token.nonce]
  BY AtTask DEF Good, Holding, IInv, Typed
<1>2. CASE valid
  <2>1. task' = [task EXCEPT ![t] = r]
    BY <1>1, <1>2 DEF Trust
  <2>2. q.token.user \in Users /\ q.token.user # None /\ q.token.nonce \in Ids
    BY <1>1 DEF IdToken
  <2>3. q.token.nonce \in Logins(q.id)
    <3>1. CASE setup.nonce
      <4>1. q.token.nonce = q.id
        BY <1>1, <1>2, <3>1 DEF validate_claims
      <4> QED BY <3>1, <4>1 DEF Logins
    <3>2. CASE ~setup.nonce
      BY <2>2, <3>2 DEF Logins
    <3> QED BY <3>1, <3>2
  <2> HIDE DEF q, b
  <2>4. c \in AuthSession /\ c.user = q.token.user
    BY <1>1, <2>2 DEF AuthSession
  <2> HIDE DEF c
  <2>5. r \in TaskRecord /\ r.pc = "changed" /\ r.id = q.id /\ r.copy = c
    BY <1>1, <2>4 DEF TaskRecord, Holding
  <2> HIDE DEF r
  <2>6. Own(q.id, c)
    BY <1>1, <2>2, <2>3, <2>4 DEF Own
  <2>7. Good(r)
    BY <1>1, <2>4, <2>5, <2>6 DEF Good, Holding
  <2> QED BY <2>1, <2>5, <2>7
<1>3. CASE ~valid
  <2>1. task' = [task EXCEPT ![t] = Idle]
    BY <1>3 DEF Trust, Ends
  <2> QED BY <2>1, IdleFields
<1> QED BY <1>2, <1>3

\* Judged by keys, it is good only if its key is one of them.
LEMMA JudgeGood ==
    ASSUME IInv, NEW t \in Tasks, task[t].pc \in {"exchanged", "answered"},
           NEW keys, Judge(t, keys)
    PROVE  \E r \in TaskRecord :
               /\ task' = [task EXCEPT ![t] = r]
               /\ r = Idle \/ r.pc = "changed"
               /\ r.pc = "changed" => task[t].token.kid \in keys
               /\ Good(r)
<1>1. CASE task[t].token.kid \in keys
  BY <1>1, TrustGood DEF Judge
<1>2. CASE task[t].token.kid \notin keys
  <2>1. task' = [task EXCEPT ![t] = Idle]
    BY <1>2 DEF Judge, Ends
  <2> QED BY <2>1, IdleFields
<1> QED BY <1>1, <1>2

LEMMA VerifyIInv ==
    ASSUME IInv, NEW t \in Tasks, decode_and_verify_jwt(t)
    PROVE  IInv'
<1>1. UNCHANGED <<now, managerVars, providerVars, jwks_cache>> /\ task[t].pc = "exchanged"
  BY DEF decode_and_verify_jwt, At
<1>2. CASE Judge(t, cache_get)
  BY <1>1, <1>2, JudgeGood, RequestIInv
<1>3. CASE Trust(t)
  BY <1>1, <1>3, TrustGood, RequestIInv
<1>4. CASE task' = [task EXCEPT ![t].pc = "fetching"]
  <2> DEFINE q == task[t]
             r == [q EXCEPT !.pc = "fetching"]
  <2>1. /\ q \in TaskRecord /\ task \in [Tasks -> TaskRecord] /\ Good(q)
        /\ q.pc = "exchanged"
    BY <1>1, AtTask
  <2>2. task' = [task EXCEPT ![t] = r]
    BY <1>4, <2>1
  <2> HIDE DEF q
  <2>3. /\ r \in TaskRecord /\ r.pc = "fetching" /\ r.id = q.id /\ r.copy = q.copy
        /\ r.token = q.token
    BY <2>1 DEF TaskRecord, Holding
  <2> HIDE DEF r
  <2>4. Good(r)
    BY <2>1, <2>3 DEF Good, Holding
  <2> QED BY <1>1, <2>2, <2>3, <2>4, RequestIInv
<1> QED BY <1>2, <1>3, <1>4 DEF decode_and_verify_jwt

\* The key of an answer is the one in use, which Order says was not withdrawn.
LEMMA AnsweredIInv ==
    ASSUME IInv, NEW t \in Tasks, JwksAnswered(t)
    PROVE  IInv'
<1>1. UNCHANGED <<now, managerVars, providerVars, jwks_cache>> /\ task[t].pc = "fetching"
  BY DEF JwksAnswered, At
<1>2. CASE Ends(t)
  BY <1>1, <1>2, EndsIInv
<1>3. CASE task' = [task EXCEPT ![t].pc = "answered", ![t].served = now, ![t].keys = {kid}]
  <2> DEFINE q == task[t]
             r == [q EXCEPT !.pc = "answered", !.served = now, !.keys = {kid}]
  <2>1. /\ q \in TaskRecord /\ task \in [Tasks -> TaskRecord] /\ Good(q)
        /\ q.pc = "fetching"
    BY <1>1, AtTask
  <2>2. task' = [task EXCEPT ![t] = r]
    BY <1>3, <2>1
  <2>3. now \in Times /\ kid \in Kids /\ withdrawn[kid] = None
    BY DEF IInv, Typed, Order
  <2> HIDE DEF q
  <2>4. /\ r \in TaskRecord /\ r.pc = "answered" /\ r.id = q.id /\ r.copy = q.copy
        /\ r.token = q.token /\ r.served = now /\ r.keys = {kid}
    BY <2>1, <2>3 DEF TaskRecord, Holding
  <2> HIDE DEF r
  <2>5. Answer(r)
    BY <2>3, <2>4 DEF Answer, Times
  <2>6. Good(r)
    BY <2>1, <2>4, <2>5 DEF Good, Holding
  <2> QED BY <1>1, <2>2, <2>4, <2>6, RequestIInv
<1> QED BY <1>2, <1>3 DEF JwksAnswered

\* An answer is at most Delay old when its keys enter the cache.
LEMMA FetchIInv ==
    ASSUME IInv, NEW t \in Tasks, fetch_jwks(t)
    PROVE  IInv'
<1>1. /\ UNCHANGED <<now, sessions, sessions_by_state, drawn, approved, kid, withdrawn, setup>>
      /\ task[t].pc = "answered"
      /\ jwks_cache' = [keys |-> task[t].keys, expires_at |-> now + Ttl]
  BY DEF fetch_jwks, At, managerVars, providerVars
<1>2. PICK r \in TaskRecord : task' = [task EXCEPT ![t] = r] /\ Good(r)
  BY <1>1, JudgeGood DEF fetch_jwks
<1>3. Typed' /\ Table' /\ Order'
  BY <1>1, <1>2 DEF IInv, Typed, Table, Own, Logins, Finished, Order
<1>4. \A u \in Tasks : Good(task[u])'
  <2> SUFFICES ASSUME NEW u \in Tasks PROVE Good(task[u])'
    OBVIOUS
  <2> PICK q : q = task'[u]
    OBVIOUS
  <2>1. Good(q)
    BY <1>2 DEF IInv, Typed
  <2> QED BY <1>1, <2>1 DEF Good, Own, Logins, Finished, Answer
<1>5. Cache'
  <2> DEFINE q == task[t]
  <2>1. Answer(q) /\ now \in Nat
    BY <1>1, AtTask DEF Good, IInv, Typed, Times
  <2>2. jwks_cache'.keys = q.keys /\ jwks_cache'.expires_at = now + Ttl
    BY <1>1
  <2> HIDE DEF q
  <2>3. /\ q.keys \in SUBSET Kids /\ q.served \in Nat /\ now <= q.served + Delay
        /\ \A k \in q.keys : withdrawn[k] = None \/ q.served <= withdrawn[k]
    BY <2>1 DEF Answer, Times
  <2>4. \A k \in q.keys : withdrawn[k] = None \/ now + Ttl <= withdrawn[k] + Delay + Ttl
    <3> SUFFICES ASSUME NEW k \in q.keys, withdrawn[k] # None
                 PROVE  now + Ttl <= withdrawn[k] + Delay + Ttl
      OBVIOUS
    <3>1. withdrawn \in [Kids -> Times \cup {None}] /\ k \in Kids
      BY <2>3 DEF IInv, Typed
    <3>2. withdrawn[k] \in Times
      BY <3>1
    <3>3. withdrawn[k] \in Nat
      BY <3>2 DEF Times
    <3> QED BY <2>1, <2>3, <3>3
  <2> QED BY <1>1, <2>1, <2>2, <2>3, <2>4 DEF Cache
<1> QED BY <1>3, <1>4, <1>5 DEF IInv

-----------------------------------------------------------------------------
(***************************************************************************)
(* The session manager, the provider's keys and the clock.                 *)
(***************************************************************************)
\* Changes of the table do not concern the requests under way: each has a
\* copy of its own, and no id is ever given back.
LEMMA TableIInv ==
    ASSUME IInv, UNCHANGED <<now, approved, kid, withdrawn, setup, jwks_cache>>,
           NEW t, task' = task \/ Ends(t), drawn \subseteq drawn', drawn' \subseteq Ids,
           sessions' \in [Ids -> AuthSession \cup {None}],
           sessions_by_state' \subseteq drawn', Table'
    PROVE  IInv'
<1>1. \A u \in Tasks : task'[u] \in TaskRecord /\ Good(task'[u])
  BY IdleFields DEF Ends, IInv, Typed
<1>2. task' \in [Tasks -> TaskRecord]
  BY IdleFields DEF Ends, IInv, Typed
<1>3. Typed' /\ Cache' /\ Order'
  BY <1>2 DEF IInv, Typed, Cache, Order
<1>4. \A u \in Tasks : Good(task[u])'
  <2> SUFFICES ASSUME NEW u \in Tasks PROVE Good(task[u])'
    OBVIOUS
  <2> PICK q : q = task'[u]
    OBVIOUS
  <2>1. Good(q)
    BY <1>1
  <2> QED BY <2>1 DEF Good, Own, Logins, Finished, Answer
<1> QED BY <1>3, <1>4 DEF IInv

\* A copy written back belongs to the session it replaces.
LEMMA UpdateIInv ==
    ASSUME IInv, NEW t \in Tasks, update_session(t)
    PROVE  IInv'
<1> DEFINE q == task[t]
           i == q.id
<1>1. /\ UNCHANGED <<now, sessions_by_state, drawn, approved, kid, withdrawn, setup, jwks_cache>>
      /\ Ends(t) /\ q.pc = "changed"
      /\ sessions' = IF sessions[i] # None THEN [sessions EXCEPT ![i] = q.copy] ELSE sessions
  BY DEF update_session, At, providerVars
<1>2. i \in drawn /\ i \in Ids /\ q.copy \in AuthSession /\ Own(i, q.copy)
  BY <1>1, AtTask DEF Good, Holding, IInv, Typed
<1>3. /\ sessions \in [Ids -> AuthSession \cup {None}]
      /\ sessions_by_state \subseteq drawn /\ drawn \subseteq Ids
  BY DEF IInv, Typed
<1> HIDE DEF q, i
<1>4. sessions' \in [Ids -> AuthSession \cup {None}]
  BY <1>1, <1>2, <1>3
<1>5. Table'
  <2> SUFFICES ASSUME NEW j \in Ids
               PROVE  /\ sessions'[j] # None =>
                            j \in sessions_by_state /\ Own(j, sessions'[j])
                      /\ j \in sessions_by_state /\ sessions'[j] = None => Finished(j)
    BY <1>1 DEF Table, Own, Logins, Finished
  <2>1. /\ sessions[j] # None => j \in sessions_by_state /\ Own(j, sessions[j])
        /\ j \in sessions_by_state /\ sessions[j] = None => Finished(j)
    BY DEF IInv, Table
  <2>2. CASE sessions[i] # None /\ j = i
    <3>1. sessions'[j] = q.copy
      BY <1>1, <1>2, <1>3, <2>2
    <3>2. q.copy # None
      BY <1>2, NoneAssumption
    <3> QED BY <3>1, <3>2, <1>2, <2>1, <2>2
  <2>3. CASE ~(sessions[i] # None /\ j = i)
    <3>1. sessions'[j] = sessions[j]
      BY <1>1, <1>3, <2>3
    <3> QED BY <2>1, <3>1
  <2> QED BY <2>2, <2>3
<1> QED BY <1>1, <1>3, <1>4, <1>5, TableIInv

LEMMA CreateIInv ==
    ASSUME IInv, NEW i \in Ids, create_session(i)
    PROVE  IInv'
<1>1. /\ UNCHANGED <<now, approved, kid, withdrawn, setup, jwks_cache, task>>
      /\ drawn' = drawn \cup {i} /\ sessions_by_state' = sessions_by_state \cup {i}
      /\ sessions' = [sessions EXCEPT ![i] = NewSession]
  BY DEF create_session, providerVars
<1>2. /\ sessions \in [Ids -> AuthSession \cup {None}]
      /\ sessions_by_state \subseteq drawn /\ drawn \subseteq Ids
  BY DEF IInv, Typed
<1>3. NewSession \in AuthSession /\ Own(i, NewSession)
  BY DEF NewSession, AuthSession, Own, Logins, Finished, IInv, Typed, Times
<1>4. sessions' \in [Ids -> AuthSession \cup {None}]
  BY <1>1, <1>2, <1>3
<1>5. Table'
  <2> SUFFICES ASSUME NEW j \in Ids
               PROVE  /\ sessions'[j] # None =>
                            j \in sessions_by_state' /\ Own(j, sessions'[j])
                      /\ j \in sessions_by_state' /\ sessions'[j] = None => Finished(j)
    BY <1>1 DEF Table, Own, Logins, Finished
  <2>1. /\ sessions[j] # None => j \in sessions_by_state /\ Own(j, sessions[j])
        /\ j \in sessions_by_state /\ sessions[j] = None => Finished(j)
    BY DEF IInv, Table
  <2>2. CASE j = i
    <3>1. sessions'[j] = NewSession
      BY <1>1, <1>2, <2>2
    <3> QED BY <3>1, <1>1, <1>3, <2>2, NoneAssumption
  <2>3. CASE j # i
    <3>1. sessions'[j] = sessions[j] /\ (j \in sessions_by_state' <=> j \in sessions_by_state)
      BY <1>1, <1>2, <2>3
    <3> QED BY <2>1, <3>1
  <2> QED BY <2>2, <2>3
<1> QED BY <1>1, <1>2, <1>4, <1>5, TableIInv

\* Only a session whose login is complete leaves its entry behind.
LEMMA RemoveIInv ==
    ASSUME IInv, NEW gone \in SUBSET Live, Remove(gone)
    PROVE  IInv'
<1>1. /\ UNCHANGED <<now, drawn, approved, kid, withdrawn, setup, jwks_cache, task>>
      /\ sessions' = [i \in Ids |-> IF i \in gone THEN None ELSE sessions[i]]
      /\ sessions_by_state' = sessions_by_state \ {i \in gone : sessions[i].login}
  BY DEF Remove, providerVars
<1>2. /\ sessions \in [Ids -> AuthSession \cup {None}]
      /\ sessions_by_state \subseteq drawn /\ drawn \subseteq Ids
  BY DEF IInv, Typed
<1>3. sessions' \in [Ids -> AuthSession \cup {None}]
  BY <1>1, <1>2
<1>4. Table'
  <2> SUFFICES ASSUME NEW j \in Ids
               PROVE  /\ sessions'[j] # None =>
                            j \in sessions_by_state' /\ Own(j, sessions'[j])
                      /\ j \in sessions_by_state' /\ sessions'[j] = None => Finished(j)
    BY <1>1 DEF Table, Own, Logins, Finished
  <2>1. /\ sessions[j] # None => j \in sessions_by_state /\ Own(j, sessions[j])
        /\ j \in sessions_by_state /\ sessions[j] = None => Finished(j)
    BY DEF IInv, Table
  <2>2. CASE j \in gone
    <3>1. sessions'[j] = None /\ sessions[j] # None
      BY <1>1, <2>2 DEF Live
    <3>2. j \in sessions_by_state' => ~sessions[j].login
      BY <1>1, <2>2
    <3> QED BY <2>1, <3>1, <3>2 DEF Own, Logins, Finished
  <2>3. CASE j \notin gone
    BY <1>1, <2>1, <2>3
  <2> QED BY <2>2, <2>3
<1> QED BY <1>1, <1>2, <1>3, <1>4, TableIInv

\* A key is withdrawn in favour of a later one, at the time it is now.
LEMMA RotateIInv ==
    ASSUME IInv, Rotate
    PROVE  IInv'
<1>1. PICK k \in Kids : k > kid /\ kid' = k
  BY DEF Rotate
<1>2. /\ UNCHANGED <<now, sessions, sessions_by_state, drawn, approved, setup, jwks_cache, task>>
      /\ withdrawn' = [withdrawn EXCEPT ![kid] = now]
  BY DEF Rotate, managerVars
<1>3. /\ now \in Times /\ now \in Nat /\ kid \in Kids
      /\ withdrawn \in [Kids -> Times \cup {None}]
  BY DEF IInv, Typed, Times
<1>4. Typed' /\ Table'
  BY <1>1, <1>2, <1>3 DEF IInv, Typed, Table, Own, Logins, Finished
<1>5. /\ withdrawn'[kid] = now
      /\ \A l \in Kids : l # kid => withdrawn'[l] = withdrawn[l]
  BY <1>2, <1>3
<1>6. Order'
  BY <1>1, <1>3, <1>5 DEF IInv, Order
<1>7. \A u \in Tasks : Good(task[u])'
  <2> SUFFICES ASSUME NEW u \in Tasks PROVE Good(task[u])'
    OBVIOUS
  <2> PICK q : q = task[u]
    OBVIOUS
  <2>1. Good(q)
    BY DEF IInv
  <2>2. Answer(q) => Answer(q)'
    BY <1>2, <1>3, <1>5 DEF Answer
  <2> QED BY <1>2, <2>1, <2>2 DEF Good, Own, Logins, Finished
<1>8. Cache'
  <2> SUFFICES ASSUME jwks_cache # None, NEW l \in jwks_cache.keys
               PROVE  withdrawn'[l] = None
                      \/ jwks_cache.expires_at <= withdrawn'[l] + Delay + Ttl
    BY <1>2 DEF IInv, Cache
  <2>1. /\ jwks_cache.keys \in SUBSET Kids
        /\ jwks_cache.expires_at \in Nat /\ jwks_cache.expires_at <= now + Ttl
        /\ withdrawn[l] = None \/ jwks_cache.expires_at <= withdrawn[l] + Delay + Ttl
    BY DEF IInv, Cache
  <2>2. CASE l = kid
    <3>1. jwks_cache.expires_at <= now + Delay + Ttl
      BY <1>3, <2>1
    <3> QED BY <1>5, <2>2, <3>1
  <2>3. CASE l # kid
    BY <1>5, <2>1, <2>3
  <2> QED BY <2>2, <2>3
<1> QED BY <1>4, <1>6, <1>7, <1>8 DEF IInv

\* The clock waits for an answer that is about to be Delay old.
LEMMA TickIInv ==
    ASSUME IInv, Tick
    PROVE  IInv'
<1>1. /\ UNCHANGED <<sessions, sessions_by_state, drawn, approved, kid, withdrawn, setup,
                     jwks_cache, task>>
      /\ now < MaxTime /\ now' = now + 1
      /\ \A t \in Tasks : task[t].pc = "answered" => now < task[t].served + Delay
  BY DEF Tick, managerVars, providerVars, At
<1>2. now \in Times /\ now \in Nat /\ now' \in Times
  BY <1>1 DEF IInv, Typed, Times
<1>3. Typed' /\ Table' /\ Order'
  BY <1>1, <1>2 DEF IInv, Typed, Table, Own, Logins, Finished, Order
<1>4. Cache'
  BY <1>1, <1>2 DEF IInv, Cache
<1>5. \A u \in Tasks : Good(task[u])'
  <2> SUFFICES ASSUME NEW u \in Tasks PROVE Good(task[u])'
    OBVIOUS
  <2> PICK q : q = task[u]
    OBVIOUS
  <2>1. Good(q) /\ (q.pc = "answered" => now < q.served + Delay)
    BY <1>1 DEF IInv
  <2>2. q.pc = "answered" => Answer(q)'
    BY <1>1, <1>2, <2>1 DEF Good, Answer, Times
  <2> QED BY <1>1, <2>1, <2>2 DEF Good, Own, Logins, Finished
<1> QED BY <1>3, <1>4, <1>5 DEF IInv

-----------------------------------------------------------------------------
(***************************************************************************)
(* The invariant and what follows from it.                                 *)
(***************************************************************************)
LEMMA InitIInv == Init => IInv
<1> SUFFICES ASSUME Init PROVE IInv
  OBVIOUS
<1>1. Typed
  BY FirstKey, IdleFields DEF Init, Typed, Times
<1>2. Table /\ Cache /\ Order
  BY DEF Init, Table, Cache, Order
<1>3. \A t \in Tasks : Good(task[t])
  BY IdleFields DEF Init
<1> QED BY <1>1, <1>2, <1>3 DEF IInv

LEMMA StepIInv ==
    ASSUME IInv, NEW t \in Tasks, Step(t)
    PROVE  IInv'
BY LookupIInv, LoadIInv, ExchangeIInv, ChangeIInv, VerifyIInv, AnsweredIInv,
   FetchIInv, UpdateIInv DEF Step

LEMMA NextIInv == IInv /\ [Next]_vars => IInv'
<1> SUFFICES ASSUME IInv, [Next]_vars PROVE IInv'
  OBVIOUS
<1>1. CASE \E i \in Ids : create_session(i)
  BY <1>1, CreateIInv
<1>2. CASE \E i \in Ids : remove_session(i)
  BY <1>2, RemoveIInv DEF remove_session
<1>3. CASE \E u \in Users : remove_user_sessions(u)
  <2> PICK u \in Users : remove_user_sessions(u)
    BY <1>3
  <2> DEFINE gone == {i \in Live : sessions[i].user = u}
  <2>1. gone \in SUBSET Live /\ Remove(gone)
    BY DEF remove_user_sessions
  <2> QED BY <2>1, RemoveIInv
<1>4. CASE cleanup_expired
  <2> DEFINE gone == {i \in Live : is_expired(i)}
  <2>1. gone \in SUBSET Live /\ Remove(gone)
    BY <1>4 DEF cleanup_expired
  <2> QED BY <2>1, RemoveIInv
<1>5. CASE get_user_sessions \/ UNCHANGED vars
  <2>1. UNCHANGED <<now, sessions, sessions_by_state, drawn, approved, kid, withdrawn, setup,
                    jwks_cache, task>>
    BY <1>5 DEF get_user_sessions, managerVars, providerVars, vars
  <2>2. Table'
    BY <2>1 DEF IInv, Table, Own, Logins, Finished
  <2> QED BY <2>1, <2>2, TableIInv DEF IInv, Typed
<1>6. CASE \E t \in Tasks : Step(t)
  BY <1>6, StepIInv
<1>7. CASE Rotate
  BY <1>7, RotateIInv
<1>8. CASE Tick
  BY <1>8, TickIInv
<1> QED BY <1>1, <1>2, <1>3, <1>4, <1>5, <1>6, <1>7, <1>8 DEF Next

\* IInv is an invariant of the library.
THEOREM Invariance == Spec => []IInv
<1>1. Init => IInv
  BY InitIInv
<1>2. IInv /\ [Next]_vars => IInv'
  BY NextIInv
<1> QED BY <1>1, <1>2, PTL DEF Spec

\* A session that waits for its login can always be found by its state, and
\* only a completed login leaves an index entry that leads nowhere, whatever
\* copies overlapping requests write back (update_session, get_session_by_state).
THEOREM IndexSafety == Spec => []PendingIsIndexed
<1>1. IInv => PendingIsIndexed
  BY DEF IInv, Typed, Table, Finished, PendingIsIndexed
<1> QED BY <1>1, Invariance, PTL

\* Every session is logged in as the user who approved that very login when the
\* nonce is compared, and as one who approved some login when it is not, for any
\* number of callbacks that overlap (validate_claims, complete_auth).
THEOREM LoginSafety == Spec => []LoginIsOwn
<1>1. IInv => LoginIsOwn
  BY DEF IInv, Table, Own, Logins, Finished, LoginIsOwn, is_authenticated
<1> QED BY <1>1, Invariance, PTL

\* Which step may complete a login that is under way.
LEMMA Completion ==
    ASSUME IInv, [Next]_vars, NEW t \in Tasks,
           task[t].pc \in {"exchanged", "answered"}, task'[t].pc = "changed"
    PROVE  decode_and_verify_jwt(t) \/ fetch_jwks(t)
<1>1. task \in [Tasks -> TaskRecord] /\ task[t].pc \notin {"idle", "indexed", "loaded", "changed"}
  BY AtTask
<1>2. task' # task
  BY <1>1
<1>3. PICK u \in Tasks : Step(u)
  BY <1>2 DEF Next, vars, create_session, remove_session, remove_user_sessions,
     cleanup_expired, Remove, get_user_sessions, Rotate, Tick
<1>4. CASE u # t
  <2>1. task'[t] = task[t]
    BY <1>1, <1>3, <1>4 DEF Step, get_session_by_state, get_session, exchange_code,
       refresh_token, extend, Leave, decode_and_verify_jwt, JwksAnswered, fetch_jwks,
       update_session, Judge, Trust, Ends
  <2> QED BY <1>1, <2>1
<1>5. CASE u = t
  BY <1>1, <1>3, <1>5 DEF Step, get_session_by_state, get_session, exchange_code,
     refresh_token, extend, Leave, JwksAnswered, update_session, At
<1> QED BY <1>4, <1>5

\* A validator with a jwks_uri accepts no token signed with a key that was withdrawn
\* longer ago than an answer may be under way and a cache entry may last, for
\* every order in which requests fetch, cache and judge (JwksCache::get,
\* fetch_jwks).  One without a jwks_uri accepts tokens without looking at keys.
THEOREM WithdrawnKeys == Spec => WithdrawnKeyDies
<1> DEFINE Dies ==
      \A t \in Tasks :
         (/\ setup.jwks_uri
          /\ task[t].pc \in {"exchanged", "answered"} /\ task'[t].pc = "changed")
         => LET w == withdrawn[task[t].token.kid]
            IN  w = None \/ now < w + Delay + Ttl
<1>1. IInv /\ [Next]_vars => [Dies]_vars
  <2> SUFFICES ASSUME IInv, [Next]_vars, NEW t \in Tasks, setup.jwks_uri,
                      task[t].pc \in {"exchanged", "answered"}, task'[t].pc = "changed",
                      withdrawn[task[t].token.kid] # None
               PROVE  now < withdrawn[task[t].token.kid] + Delay + Ttl
    OBVIOUS
  <2> DEFINE q == task[t]
             k == q.token.kid
  <2>1. q \in TaskRecord /\ Good(q) /\ q.token \in IdToken /\ k \in Kids
    BY AtTask DEF Good, IdToken
  <2>2. withdrawn \in [Kids -> Times \cup {None}] /\ now \in Nat /\ task \in [Tasks -> TaskRecord]
    BY DEF IInv, Typed, Times
  <2>3. withdrawn[k] \in Nat
    <3>1. withdrawn[k] # None
      OBVIOUS
    <3> HIDE DEF k
    <3>2. withdrawn[k] \in Times
      BY <2>1, <2>2, <3>1
    <3> QED BY <3>2 DEF Times
  <2>n. withdrawn[k] # None
    OBVIOUS
  <2> SUFFICES now < withdrawn[k] + Delay + Ttl
    OBVIOUS
  <2>4. CASE decode_and_verify_jwt(t)
    <3>1. Judge(t, cache_get) /\ cache_get # None
      <4>1. task' # [task EXCEPT ![t].pc = "fetching"]
        BY <2>1, <2>2 DEF TaskRecord
      <4> QED BY <2>4, <4>1 DEF decode_and_verify_jwt
    <3>2. k \in cache_get
      BY <3>1, JudgeGood, IdleFields, <2>2
    <3> HIDE DEF q, k
    <3>3. jwks_cache # None /\ now < jwks_cache.expires_at /\ k \in jwks_cache.keys
      BY <3>1, <3>2 DEF cache_get
    <3>4. jwks_cache.expires_at \in Nat
          /\ jwks_cache.expires_at <= withdrawn[k] + Delay + Ttl
      BY <2>n, <3>3 DEF IInv, Cache
    <3> QED BY <2>2, <2>3, <3>3, <3>4
  <2>5. CASE fetch_jwks(t)
    <3>1. q.pc = "answered" /\ Judge(t, q.keys)
      BY <2>5 DEF fetch_jwks, At
    <3>2. k \in q.keys
      BY <3>1, JudgeGood, IdleFields, <2>2
    <3>3. Answer(q)
      BY <2>1, <3>1 DEF Good
    <3> HIDE DEF q, k
    <3>4. q.served \in Nat /\ now <= q.served + Delay /\ q.served <= withdrawn[k]
      BY <3>2, <3>3, <2>n DEF Answer, Times
    <3> QED BY <2>2, <2>3, <3>4
  <2> QED BY <2>4, <2>5, Completion
<1> QED BY <1>1, Invariance, PTL DEF Spec, WithdrawnKeyDies

-----------------------------------------------------------------------------
(***************************************************************************)
(* The rate limiter.                                                       *)
(***************************************************************************)
LimiterTyped == entry \in Entry \cup {None} /\ allowed \in [Latest -> Ages]

\* How many of the latest lookups passed in the window that is open.
Passed == IF entry.count <= MaxLookups THEN entry.count ELSE MaxLookups

\* Of the lookups before the open window, all have passed before it opened, and
\* all but max_attempts are a window old.
WindowInv ==
    /\ entry = None => \A n \in Latest : allowed[n] = Window
    /\ entry # None =>
          \A n \in Latest :
             /\ n > Passed =>
                   allowed[n] = Window \/ now + Window <= allowed[n] + entry.reset_at
             /\ n > Passed + MaxLookups => allowed[n] = Window

LimiterInv == LimiterTyped /\ WindowInv

\* check counts in the window that is open, or opens one.
LEMMA CheckEntry ==
    ASSUME now \in Times, entry \in Entry \cup {None}
    PROVE  LET live == entry # None /\ entry.reset_at > now
               f == check.entry
           IN  /\ f \in Entry /\ f # None
               /\ live => f.count = entry.count + 1 /\ f.reset_at = entry.reset_at
               /\ ~live => f.count = 1 /\ f.reset_at = now + Window
               /\ check.allowed <=> f.count <= MaxLookups
<1> DEFINE live == entry # None /\ entry.reset_at > now
           e == IF live THEN entry ELSE [count |-> 0, reset_at |-> now + Window]
           f == [e EXCEPT !.count = @ + 1]
<1>1. now + Window \in 0 .. MaxTime + Window
  BY DEF Times
<1>2. /\ e \in Entry
      /\ live => e.count = entry.count /\ e.reset_at = entry.reset_at
      /\ ~live => e.count = 0 /\ e.reset_at = now + Window
  BY <1>1 DEF Entry
<1>3. check.entry = f /\ (check.allowed <=> e.count + 1 <= MaxLookups)
  BY DEF check
<1> HIDE DEF e
<1>4. f \in Entry /\ f.count = e.count + 1 /\ f.reset_at = e.reset_at
  BY <1>2 DEF Entry
<1> HIDE DEF f
<1>5. f # None
  BY <1>4, NoneAssumption
<1> HIDE DEF live
<1>6. e.count \in Nat
  BY <1>2 DEF Entry
<1>7. /\ live => f.count = entry.count + 1 /\ f.reset_at = entry.reset_at
      /\ ~live => f.count = 1 /\ f.reset_at = now + Window
  BY <1>2, <1>4
<1> QED BY <1>3, <1>4, <1>5, <1>7 DEF live

\* A lookup that passes opens a window when the last one is over, and then all
\* of that one are a window old after max_attempts more.
LEMMA AllowedInv ==
    ASSUME now \in Times, LimiterInv, Allowed, now' = now
    PROVE  LimiterInv'
<1> DEFINE live == entry # None /\ entry.reset_at > now
           f == check.entry
<1>1. /\ f \in Entry /\ f # None /\ f.count <= MaxLookups /\ entry' = f
      /\ live => f.count = entry.count + 1 /\ f.reset_at = entry.reset_at
      /\ ~live => f.count = 1 /\ f.reset_at = now + Window
      /\ allowed' = [n \in Latest |-> IF n = 1 THEN 0 ELSE allowed[n - 1]]
  BY CheckEntry DEF LimiterInv, LimiterTyped, Allowed
<1> HIDE DEF f
<1>2. /\ f.count \in Nat /\ f.reset_at \in Nat /\ now \in Nat
      /\ allowed \in [Latest -> Ages]
      /\ entry # None => entry.count \in Nat /\ entry.reset_at \in Nat
  BY <1>1 DEF Entry, Times, LimiterInv, LimiterTyped
<1>3. \A n \in Latest : n # 1 => n - 1 \in Latest /\ n - 1 \in Nat
  BY DEF Latest
<1>4. LimiterTyped'
  <2>1. 0 \in Ages
    BY DEF Ages
  <2> QED BY <1>1, <1>2, <1>3, <2>1 DEF LimiterTyped
<1>5. Passed' = f.count
  BY <1>1 DEF Passed
<1>6. ASSUME NEW n \in Latest, n > f.count
      PROVE  /\ allowed'[n] = Window \/ now + Window <= allowed'[n] + f.reset_at
             /\ n > f.count + MaxLookups => allowed'[n] = Window
  <2>0. f.count >= 1
    BY <1>1, <1>2 DEF live
  <2>1. n # 1 /\ n \in Nat /\ n - 1 \in Latest /\ allowed'[n] = allowed[n - 1]
    BY <1>1, <1>2, <1>3, <1>6, <2>0 DEF Latest
  <2> PICK m \in Latest : m = n - 1 /\ m \in Nat
    BY <1>3, <2>1
  <2>2. allowed[m] \in Nat /\ allowed[m] <= Window
    BY <1>2 DEF Ages
  <2>3. CASE live
    <3>1. entry # None /\ Passed = entry.count
      BY <1>1, <1>2, <2>3 DEF Passed
    <3>2. m > Passed
      BY <1>1, <1>2, <1>6, <2>3, <3>1, <2>1
    <3>3. n > f.count + MaxLookups => m > Passed + MaxLookups
      BY <1>1, <1>2, <2>3, <3>1, <2>1
    <3>4. /\ allowed[m] = Window \/ now + Window <= allowed[m] + entry.reset_at
          /\ m > Passed + MaxLookups => allowed[m] = Window
      BY <3>1, <3>2 DEF LimiterInv, WindowInv
    <3> QED BY <1>1, <2>1, <2>3, <3>3, <3>4
  <2>4. CASE ~live
    <3>1. CASE entry = None
      BY <2>1, <3>1 DEF LimiterInv, WindowInv
    <3>2. CASE entry # None
      <4>1. entry.reset_at <= now
        BY <1>2, <2>4, <3>2
      <4>2. Passed \in Nat /\ Passed <= MaxLookups
        BY <1>2, <3>2 DEF Passed
      <4>3. f.count = 1 /\ f.reset_at = now + Window
        BY <1>1, <2>4
      <4>4. now + Window <= allowed'[n] + f.reset_at
        BY <1>2, <2>1, <2>2, <4>3
      <4>5. n > f.count + MaxLookups => m > Passed
        BY <4>2, <4>3, <2>1
      <4>6. m > Passed => allowed[m] = Window
        <5>1. m > Passed => allowed[m] = Window \/ now + Window <= allowed[m] + entry.reset_at
          BY <3>2 DEF LimiterInv, WindowInv
        <5> QED BY <1>2, <2>2, <4>1, <5>1, <3>2
      <4> QED BY <2>1, <4>4, <4>5, <4>6
    <3> QED BY <3>1, <3>2
  <2> QED BY <2>3, <2>4
<1>7. f.count + MaxLookups >= f.count
  BY <1>2
<1>8. WindowInv'
  <2> SUFFICES ASSUME NEW n \in Latest
               PROVE  /\ n > f.count =>
                            allowed'[n] = Window \/ now + Window <= allowed'[n] + f.reset_at
                      /\ n > f.count + MaxLookups => allowed'[n] = Window
    BY <1>1, <1>5 DEF WindowInv
  <2>1. n \in Nat /\ (n > f.count + MaxLookups => n > f.count)
    BY <1>2 DEF Latest
  <2> QED BY <1>6, <2>1
<1> QED BY <1>4, <1>8 DEF LimiterInv

\* A refusal happens only in an open window that has let max_attempts through.
LEMMA LimitedInv ==
    ASSUME now \in Times, LimiterInv, Limited, now' = now
    PROVE  LimiterInv'
<1> DEFINE live == entry # None /\ entry.reset_at > now
           f == check.entry
           g == [f EXCEPT !.count = MaxLookups + 1]
<1>1. /\ f \in Entry /\ ~(f.count <= MaxLookups) /\ entry' = g
      /\ live => f.count = entry.count + 1 /\ f.reset_at = entry.reset_at
      /\ ~live => f.count = 1
      /\ allowed' = allowed
  BY CheckEntry DEF LimiterInv, LimiterTyped, Limited
<1> HIDE DEF f
<1>2. g \in Entry /\ g.count = MaxLookups + 1 /\ g.reset_at = f.reset_at
  BY <1>1 DEF Entry
<1> HIDE DEF g
<1>3. live
  BY <1>1
<1>4. entry # None /\ entry.count \in Nat /\ Passed = MaxLookups /\ entry.reset_at = g.reset_at
  BY <1>1, <1>2, <1>3 DEF Entry, LimiterInv, LimiterTyped, Passed
<1>5. g # None /\ Passed' = MaxLookups
  BY <1>1, <1>2, NoneAssumption DEF Passed
<1>6. LimiterTyped'
  BY <1>1, <1>2 DEF LimiterInv, LimiterTyped
<1>7. WindowInv'
  BY <1>1, <1>4, <1>5 DEF LimiterInv, WindowInv
<1> QED BY <1>6, <1>7 DEF LimiterInv

\* Everything gets older together.
LEMMA TickInv ==
    ASSUME now \in Times, LimiterInv, Tick
    PROVE  LimiterInv'
<1>1. /\ now \in Nat /\ now' = now + 1 /\ entry' = entry
      /\ allowed' = [n \in Latest |-> IF allowed[n] < Window THEN allowed[n] + 1 ELSE Window]
  BY DEF Tick, Times
<1>2. \A n \in Latest : /\ allowed[n] \in Nat /\ allowed[n] <= Window
                        /\ allowed'[n] = IF allowed[n] < Window THEN allowed[n] + 1 ELSE Window
  BY <1>1 DEF LimiterInv, LimiterTyped, Ages
<1>3. LimiterTyped'
  BY <1>1, <1>2 DEF LimiterInv, LimiterTyped, Ages
<1>4. \A n \in Latest : allowed[n] = Window => allowed'[n] = Window
  BY <1>2
<1>5. Passed' = Passed
  BY <1>1 DEF Passed
<1>6. WindowInv'
  <2>1. CASE entry = None
    BY <1>1, <1>4, <2>1 DEF LimiterInv, WindowInv
  <2>2. CASE entry # None
    <3>1. entry.reset_at \in Nat
      BY <2>2 DEF LimiterInv, LimiterTyped, Entry
    <3>2. ASSUME NEW n \in Latest, allowed[n] = Window \/ now + Window <= allowed[n] + entry.reset_at
          PROVE  allowed'[n] = Window \/ now' + Window <= allowed'[n] + entry.reset_at
      BY <1>1, <1>2, <3>1, <3>2
    <3> QED BY <1>1, <1>4, <1>5, <2>2, <3>2 DEF LimiterInv, WindowInv
  <2> QED BY <2>1, <2>2
<1> QED BY <1>3, <1>6 DEF LimiterInv

LEMMA LimiterStep == IInv /\ LimiterInv /\ [Next]_vars => LimiterInv'
<1> SUFFICES ASSUME IInv, LimiterInv, [Next]_vars PROVE LimiterInv'
  OBVIOUS
<1>1. now \in Times
  BY DEF IInv, Typed
<1>2. CASE Tick
  BY <1>1, <1>2, TickInv
<1>3. CASE ~Tick
  <2>1. (Allowed \/ Limited \/ UNCHANGED limiterVars) /\ now' = now
    BY <1>3 DEF Next, Step, vars, limiterVars, create_session, remove_session,
       remove_user_sessions, cleanup_expired, Remove, get_user_sessions, Rotate,
       get_session_by_state, get_session, exchange_code, refresh_token, extend,
       Leave, decode_and_verify_jwt, JwksAnswered, fetch_jwks, update_session
  <2>2. CASE UNCHANGED limiterVars
    BY <2>1, <2>2 DEF limiterVars, LimiterInv, LimiterTyped, WindowInv, Passed
  <2> QED BY <1>1, <2>1, <2>2, AllowedInv, LimitedInv
<1> QED BY <1>2, <1>3

\* LimiterInv is an invariant of the library.
THEOREM LimiterInvariance == Spec => []LimiterInv
<1>1. Init => LimiterInv
  BY DEF Init, LimiterInv, LimiterTyped, WindowInv, Ages
<1> QED BY <1>1, LimiterStep, Invariance, PTL DEF Spec

\* The library is well typed, its limiter included.
THEOREM TypeCorrect == Spec => []TypeOK
<1>1. IInv /\ LimiterInv => TypeOK
  BY DEF IInv, LimiterInv, LimiterTyped, Typed, TypeOK, TaskRecord
<1> QED BY <1>1, Invariance, LimiterInvariance, PTL

\* The fixed windows of RateLimiter::check let through at most twice max_attempts
\* in any stretch of one window's length, for every limit and every window.
THEOREM RateLimit == Spec => []LookupsBounded
<1>1. LimiterInv => LookupsBounded
  <2> SUFFICES ASSUME LimiterInv PROVE LookupsBounded
    OBVIOUS
  <2>1. 2 * MaxLookups + 1 \in Latest
    BY DEF Latest
  <2>2. CASE entry = None
    BY <2>1, <2>2 DEF LimiterInv, WindowInv, LookupsBounded
  <2>3. CASE entry # None
    <3>1. Passed \in Nat /\ Passed <= MaxLookups
      BY <2>3 DEF LimiterInv, LimiterTyped, Entry, Passed
    <3>2. 2 * MaxLookups + 1 > Passed + MaxLookups
      BY <3>1
    <3> QED BY <2>1, <2>3, <3>2 DEF LimiterInv, WindowInv, LookupsBounded
  <2> QED BY <2>2, <2>3
<1> QED BY <1>1, LimiterInvariance, PTL
=============================================================================
