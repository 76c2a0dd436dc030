-------------------------- MODULE SessionRegistry ---------------------------
(***************************************************************************)
(* SessionManager of corevpn-core/src/session.rs.  It hands out copies:    *)
(* a worker changes its copy of a session and stores it with               *)
(* update_session, while the administrator, the clean-up and other workers *)
(* change the table.                                                       *)
(***************************************************************************)
EXTENDS Integers, FiniteSets

CONSTANTS Workers,       \* tasks that use the manager
          max_sessions,
          Lifetime,      \* default_lifetime
          MaxIds,        \* bound on the sessions created
          MaxTime,       \* bound on the clock
          None

ASSUME RegistryAssumption ==
    max_sessions \in Nat /\ Lifetime \in Nat /\ MaxIds \in Nat /\ MaxTime \in Nat

Ids == 1 .. MaxIds
SessionStates == {"Connecting", "Handshaking", "Authenticating", "Active", "Disconnecting", "Terminated"}
Session == [id : Ids, state : SessionStates, expires_at : 0 .. MaxTime + Lifetime]

VARIABLES now,
          sessions,   \* the table: the set of the sessions in it
          copies,     \* the copy each worker has, None if none
          created,    \* sessions created so far
          removed     \* history: the sessions that were taken out of the table

registryVars == <<now, sessions, copies, created, removed>>

RegistryTypeOK ==
    /\ now \in 0 .. MaxTime
    /\ sessions \subseteq Session
    /\ \A s, t \in sessions : s.id = t.id => s = t
    /\ copies \in [Workers -> Session \cup {None}]
    /\ created \in 0 .. MaxIds
    /\ removed \subseteq Ids

RegistryInit ==
    /\ now = 0
    /\ sessions = {}
    /\ copies = [w \in Workers |-> None]
    /\ created = 0
    /\ removed = {}

NewSession(id) ==
    [id |-> id, state |-> "Connecting", expires_at |-> now + Lifetime]

is_expired(s) == now > s.expires_at
is_active(s) == s.state = "Active" /\ ~is_expired(s)
active_sessions == {s \in sessions : is_active(s)}

\* What transition accepts.
ValidTransition(from, to) ==
    \/ <<from, to>> \in {<<"Connecting", "Handshaking">>, <<"Handshaking", "Authenticating">>,
                         <<"Authenticating", "Active">>, <<"Active", "Disconnecting">>}
    \/ to = "Terminated"

\* The table loses the sessions in S.
TakeOut(S) ==
    /\ sessions' = sessions \ S
    /\ removed' = removed \cup {s.id : s \in S}

-----------------------------------------------------------------------------
Expired == {s \in sessions : is_expired(s)}

\* Mutant of create_session: expired sessions are counted out, not taken out.
create_session_lazy(w) ==
    /\ copies[w] = None
    /\ created < MaxIds
    /\ Cardinality(sessions \ Expired) < max_sessions
    /\ sessions' = sessions \cup {NewSession(created + 1)}
    /\ copies' = [copies EXCEPT ![w] = NewSession(created + 1)]
    /\ created' = created + 1
    /\ UNCHANGED <<now, removed>>

\* At the limit, expired sessions make room.
create_session(w) ==
    /\ copies[w] = None
    /\ created < MaxIds
    /\ LET purged == IF Cardinality(sessions) >= max_sessions THEN Expired ELSE {}
           full   == Cardinality(sessions \ purged) >= max_sessions
       IN  /\ removed' = removed \cup {s.id : s \in purged}
           /\ sessions' = (sessions \ purged) \cup IF full THEN {} ELSE {NewSession(created + 1)}
           /\ copies' = IF full THEN copies ELSE [copies EXCEPT ![w] = NewSession(created + 1)]
           /\ created' = IF full THEN created ELSE created + 1
    /\ UNCHANGED now

get_session(w) ==
    /\ copies[w] = None
    /\ \E s \in sessions : copies' = [copies EXCEPT ![w] = s]
    /\ UNCHANGED <<now, sessions, created, removed>>

\* A worker changes its copy: another state or a new lifetime.
ChangeCopy(w) ==
    /\ copies[w] # None
    /\ \/ \E to \in SessionStates :
             /\ ValidTransition(copies[w].state, to)
             /\ copies' = [copies EXCEPT ![w].state = to]
       \/ copies' = [copies EXCEPT ![w].expires_at = now + Lifetime]
    /\ UNCHANGED <<now, sessions, created, removed>>

\* Mutant of update_session: an insert that does not look whether it is there.
update_session_upsert(w) ==
    /\ copies[w] # None
    /\ sessions' = {s \in sessions : s.id # copies[w].id} \cup {copies[w]}
    /\ copies' = [copies EXCEPT ![w] = None]
    /\ UNCHANGED <<now, created, removed>>

\* Stored only over the session that is there, which may be another than the
\* one that was copied; SessionNotFound otherwise.
update_session(w) ==
    /\ copies[w] # None
    /\ sessions' = IF \E s \in sessions : s.id = copies[w].id
                   THEN {s \in sessions : s.id # copies[w].id} \cup {copies[w]}
                   ELSE sessions
    /\ copies' = [copies EXCEPT ![w] = None]
    /\ UNCHANGED <<now, created, removed>>

remove_session(id) ==
    /\ TakeOut({s \in sessions : s.id = id})
    /\ UNCHANGED <<now, copies, created>>

cleanup_expired ==
    /\ TakeOut(Expired)
    /\ UNCHANGED <<now, copies, created>>

\* The sessions of a user, who is in the table as whatever copies with that
\* user_id were stored: any of them.
terminate_user_sessions(owned) ==
    /\ sessions' = {IF s \in owned THEN [s EXCEPT !.state = "Terminated"] ELSE s : s \in sessions}
    /\ UNCHANGED <<now, copies, created, removed>>

Tick ==
    /\ now < MaxTime
    /\ now' = now + 1
    /\ UNCHANGED <<sessions, copies, created, removed>>

RegistryNext ==
    \/ Tick
    \/ cleanup_expired
    \/ \E w \in Workers : create_session(w) \/ get_session(w) \/ ChangeCopy(w) \/ update_session(w)
    \/ \E id \in Ids : remove_session(id)
    \/ \E owned \in SUBSET sessions : terminate_user_sessions(owned)

-----------------------------------------------------------------------------
\* A session that was taken out, by an administrator, the clean-up or for want
\* of room, does not come back, although workers still hold copies of it and
\* store them (session.rs:232-243).
RemovedStaysRemoved == \A s \in sessions : s.id \notin removed

\* The limit holds, whoever creates sessions and whatever expires meanwhile.
CapacityHeld == Cardinality(sessions) <= max_sessions
=============================================================================
