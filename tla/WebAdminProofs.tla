--------------------------- MODULE WebAdminProofs ---------------------------
(***************************************************************************)
(* The session manager under workers and administrators, for every number  *)
(* of them, every limit and every lifetime.                                *)
(***************************************************************************)
EXTENDS WebAdmin, FiniteSetTheorems, TLAPS

\* Whatever exists of a session, in the table or in the hands of a worker, has
\* the number of one that was created.
Numbered ==
    /\ \A s \in sessions : s.id \in 1 .. created
    /\ \A w \in Workers : copies[w] # None => copies[w].id \in 1 .. created
    /\ removed \subseteq 1 .. created

Bounded == IsFiniteSet(sessions) /\ CapacityHeld

\* The store holds the token of the form that was shown last, or none.
LastForm == \A i \in SessionIds : tokens[i] # None => tokens[i].value = forms

RegistryInv == RegistryTypeOK /\ Numbered /\ RemovedStaysRemoved /\ Bounded

\* What a disconnect_all_sessions has dealt with is gone, and what it found is of
\* sessions that existed.
Swept ==
    \A t \in Tabs :
        /\ found[t] \subseteq 1 .. created
        /\ collected[t] \subseteq found[t]
        /\ \A s \in sessions : s.id \in found[t] => s.id \in collected[t]

IInv == TypeOK /\ RegistryInv /\ LastForm /\ Swept

USE RegistryAssumption, AdminAssumption

-----------------------------------------------------------------------------
(***************************************************************************)
(* The session manager.                                                    *)
(***************************************************************************)
\* One more element makes a set larger by one at most.
LEMMA AddBound ==
    ASSUME NEW S, NEW x, IsFiniteSet(S)
    PROVE  /\ IsFiniteSet(S \cup {x})
           /\ Cardinality(S \cup {x}) \in Nat
           /\ Cardinality(S \cup {x}) <= Cardinality(S) + 1
<1>1. /\ IsFiniteSet(S \cup {x})
      /\ Cardinality(S \cup {x}) = IF x \in S THEN Cardinality(S) ELSE Cardinality(S) + 1
  BY FS_AddElement
<1>2. Cardinality(S) \in Nat
  BY FS_CardinalityType
<1> QED BY <1>1, <1>2

\* Taking sessions out leaves fewer of them, and remembers which.
LEMMA TakeOutInv ==
    ASSUME RegistryInv, NEW S \in SUBSET sessions, TakeOut(S), UNCHANGED <<now, copies, created>>
    PROVE  RegistryInv'
<1>1. /\ sessions' = sessions \ S /\ removed' = removed \cup {s.id : s \in S}
      /\ sessions' \subseteq sessions
  BY DEF TakeOut
<1>2. {s.id : s \in S} \subseteq 1 .. created /\ {s.id : s \in S} \subseteq Ids
  BY DEF RegistryInv, RegistryTypeOK, Numbered, Session
<1>3. RegistryTypeOK'
  BY <1>1, <1>2 DEF RegistryInv, RegistryTypeOK
<1>4. Numbered'
  BY <1>1, <1>2 DEF RegistryInv, Numbered
<1>5. RemovedStaysRemoved'
  BY <1>1 DEF RegistryInv, RegistryTypeOK, RemovedStaysRemoved
<1>6. Bounded'
  <2>1. IsFiniteSet(sessions') /\ Cardinality(sessions') <= Cardinality(sessions)
    BY <1>1, FS_Subset DEF RegistryInv, Bounded
  <2>2. Cardinality(sessions) \in Nat /\ Cardinality(sessions') \in Nat
    BY <2>1, FS_CardinalityType DEF RegistryInv, Bounded
  <2> QED BY <2>1, <2>2 DEF RegistryInv, Bounded, CapacityHeld
<1> QED BY <1>3, <1>4, <1>5, <1>6 DEF RegistryInv

\* A new session has a number nobody had, and there is room for it.
LEMMA CreateInv ==
    ASSUME RegistryInv, NEW w \in Workers, create_session(w)
    PROVE  RegistryInv'
<1> PICK purged : purged = IF Cardinality(sessions) >= max_sessions THEN Expired ELSE {}
  OBVIOUS
<1> PICK rest : rest = sessions \ purged
  OBVIOUS
<1> PICK n : n = NewSession(created + 1)
  OBVIOUS
<1>1. /\ created < MaxIds /\ now' = now
      /\ removed' = removed \cup {s.id : s \in purged}
      /\ sessions' = rest \cup IF Cardinality(rest) >= max_sessions THEN {} ELSE {n}
      /\ copies' = IF Cardinality(rest) >= max_sessions THEN copies ELSE [copies EXCEPT ![w] = n]
      /\ created' = IF Cardinality(rest) >= max_sessions THEN created ELSE created + 1
  BY DEF create_session
<1>2. purged \subseteq sessions /\ rest \subseteq sessions
  BY DEF Expired
<1>3. /\ created \in 0 .. MaxIds /\ now \in 0 .. MaxTime /\ sessions \subseteq Session
      /\ copies \in [Workers -> Session \cup {None}] /\ removed \subseteq Ids
  BY DEF RegistryInv, RegistryTypeOK
<1>4. {s.id : s \in purged} \subseteq 1 .. created /\ {s.id : s \in purged} \subseteq Ids
  BY <1>2 DEF RegistryInv, RegistryTypeOK, Numbered, Session
<1>5. \A s \in rest : s.id \notin removed'
  BY <1>1, <1>2 DEF RegistryInv, RegistryTypeOK, RemovedStaysRemoved
<1>6. /\ IsFiniteSet(rest) /\ Cardinality(rest) \in Nat /\ Cardinality(sessions) \in Nat
      /\ Cardinality(rest) <= Cardinality(sessions)
  BY <1>2, FS_Subset, FS_CardinalityType DEF RegistryInv, Bounded
<1>7. CASE Cardinality(rest) >= max_sessions
  <2>1. sessions' = rest /\ copies' = copies /\ created' = created
    BY <1>1, <1>7
  <2>2. RegistryTypeOK'
    BY <1>1, <1>2, <1>3, <1>4, <2>1 DEF RegistryInv, RegistryTypeOK
  <2>3. Numbered'
    BY <1>1, <1>2, <1>4, <2>1 DEF RegistryInv, Numbered
  <2>4. RemovedStaysRemoved' /\ Bounded'
    BY <1>5, <1>6, <2>1 DEF RegistryInv, RemovedStaysRemoved, Bounded, CapacityHeld
  <2> QED BY <2>2, <2>3, <2>4 DEF RegistryInv
<1>8. CASE ~(Cardinality(rest) >= max_sessions)
  <2>1. /\ sessions' = rest \cup {n} /\ copies' = [copies EXCEPT ![w] = n]
        /\ created' = created + 1
    BY <1>1, <1>8
  <2>2. n.id = created + 1 /\ n \in Session
    BY <1>1, <1>3 DEF NewSession, Session, SessionStates, Ids
  <2>3. \A s \in rest : s.id \in 1 .. created /\ s.id # created + 1
    BY <1>2, <1>3 DEF RegistryInv, Numbered
  <2>4. RegistryTypeOK'
    <3>1. \A s, t \in sessions' : s.id = t.id => s = t
      BY <1>2, <2>1, <2>2, <2>3 DEF RegistryInv, RegistryTypeOK
    <3>2. sessions' \subseteq Session /\ copies' \in [Workers -> Session \cup {None}]
      BY <1>2, <1>3, <2>1, <2>2
    <3>3. created' \in 0 .. MaxIds /\ removed' \subseteq Ids /\ now' \in 0 .. MaxTime
      BY <1>1, <1>3, <1>4, <2>1
    <3> QED BY <3>1, <3>2, <3>3 DEF RegistryTypeOK
  <2>5. Numbered'
    <3>1. \A i \in 1 .. created : i \in 1 .. created'
      BY <1>3, <2>1
    <3>2. created + 1 \in 1 .. created'
      BY <1>3, <2>1
    <3>3. \A s \in sessions' : s.id \in 1 .. created'
      BY <2>1, <2>2, <2>3, <3>1, <3>2
    <3>4. \A v \in Workers : copies'[v] # None => copies'[v].id \in 1 .. created'
      BY <1>3, <2>1, <2>2, <3>1, <3>2 DEF RegistryInv, Numbered
    <3>5. removed' \subseteq 1 .. created'
      BY <1>1, <1>4, <3>1 DEF RegistryInv, Numbered
    <3> QED BY <3>3, <3>4, <3>5 DEF Numbered
  <2>6. RemovedStaysRemoved'
    <3>1. created + 1 \notin removed'
      BY <1>1, <1>3, <1>4 DEF RegistryInv, Numbered
    <3> QED BY <1>5, <2>1, <2>2, <3>1 DEF RemovedStaysRemoved
  <2>7. Bounded'
    <3>1. IsFiniteSet(rest \cup {n}) /\ Cardinality(rest \cup {n}) <= Cardinality(rest) + 1
          /\ Cardinality(rest \cup {n}) \in Nat
      BY <1>6, AddBound
    <3> QED BY <1>6, <1>8, <2>1, <3>1 DEF Bounded, CapacityHeld
  <2> QED BY <2>4, <2>5, <2>6, <2>7 DEF RegistryInv
<1> QED BY <1>7, <1>8

LEMMA GetInv ==
    ASSUME RegistryInv, NEW w \in Workers, get_session(w)
    PROVE  RegistryInv'
<1>1. PICK s \in sessions : copies' = [copies EXCEPT ![w] = s]
  BY DEF get_session
<1>2. UNCHANGED <<now, sessions, created, removed>>
  BY DEF get_session
<1>3. copies \in [Workers -> Session \cup {None}] /\ s \in Session /\ s.id \in 1 .. created
  BY DEF RegistryInv, RegistryTypeOK, Numbered
<1>4. RegistryTypeOK'
  BY <1>1, <1>2, <1>3 DEF RegistryInv, RegistryTypeOK
<1>5. Numbered'
  BY <1>1, <1>2, <1>3 DEF RegistryInv, Numbered
<1> QED BY <1>2, <1>4, <1>5 DEF RegistryInv, RemovedStaysRemoved, Bounded, CapacityHeld

\* A worker changes what its copy says, not which session it is of.
LEMMA ChangeInv ==
    ASSUME RegistryInv, NEW w \in Workers, ChangeCopy(w)
    PROVE  RegistryInv'
<1>1. UNCHANGED <<now, sessions, created, removed>>
  BY DEF ChangeCopy
<1>2. /\ copies \in [Workers -> Session \cup {None}] /\ copies[w] \in Session
      /\ copies[w].id \in 1 .. created /\ now + Lifetime \in 0 .. MaxTime + Lifetime
  BY DEF RegistryInv, RegistryTypeOK, Numbered, ChangeCopy
<1>3. \E c \in Session : c.id = copies[w].id /\ copies' = [copies EXCEPT ![w] = c]
  <2>1. ASSUME NEW to \in SessionStates, copies' = [copies EXCEPT ![w].state = to]
        PROVE  \E c \in Session : c.id = copies[w].id /\ copies' = [copies EXCEPT ![w] = c]
    <3> DEFINE c == [copies[w] EXCEPT !.state = to]
    <3>1. c \in Session /\ c.id = copies[w].id
      BY <1>2 DEF Session
    <3>2. copies' = [copies EXCEPT ![w] = c]
      BY <2>1
    <3> QED BY <3>1, <3>2
  <2>2. ASSUME copies' = [copies EXCEPT ![w].expires_at = now + Lifetime]
        PROVE  \E c \in Session : c.id = copies[w].id /\ copies' = [copies EXCEPT ![w] = c]
    <3> DEFINE c == [copies[w] EXCEPT !.expires_at = now + Lifetime]
    <3>1. c \in Session /\ c.id = copies[w].id
      BY <1>2 DEF Session
    <3>2. copies' = [copies EXCEPT ![w] = c]
      BY <2>2
    <3> QED BY <3>1, <3>2
  <2> QED BY <2>1, <2>2 DEF ChangeCopy
<1>4. RegistryTypeOK'
  BY <1>1, <1>2, <1>3 DEF RegistryInv, RegistryTypeOK
<1>5. Numbered'
  BY <1>1, <1>2, <1>3 DEF RegistryInv, Numbered
<1> QED BY <1>1, <1>4, <1>5 DEF RegistryInv, RemovedStaysRemoved, Bounded, CapacityHeld

\* A copy that is stored replaces the session with its number: the table does not
\* grow, and a session that is gone stays gone.
LEMMA UpdateInv ==
    ASSUME RegistryInv, NEW w \in Workers, update_session(w)
    PROVE  RegistryInv'
<1> PICK c : c = copies[w]
  OBVIOUS
<1>1. /\ copies' = [copies EXCEPT ![w] = None] /\ UNCHANGED <<now, created, removed>>
      /\ sessions' = IF \E s \in sessions : s.id = c.id
                     THEN {s \in sessions : s.id # c.id} \cup {c} ELSE sessions
  BY DEF update_session
<1>2. /\ c \in Session /\ c.id \in 1 .. created /\ sessions \subseteq Session
      /\ copies \in [Workers -> Session \cup {None}]
  BY DEF update_session, RegistryInv, RegistryTypeOK, Numbered
<1>3. Numbered'
  BY <1>1, <1>2 DEF RegistryInv, Numbered
<1>4. RegistryTypeOK'
  BY <1>1, <1>2 DEF RegistryInv, RegistryTypeOK
<1>5. RemovedStaysRemoved'
  BY <1>1 DEF RegistryInv, RemovedStaysRemoved
<1>6. Bounded'
  <2>1. CASE ~\E s \in sessions : s.id = c.id
    BY <1>1, <2>1 DEF RegistryInv, Bounded, CapacityHeld
  <2>2. CASE \E s \in sessions : s.id = c.id
    <3>1. PICK s \in sessions : s.id = c.id
      BY <2>2
    <3> DEFINE others == {o \in sessions : o.id # c.id}
    <3>2. others \subseteq sessions \ {s} /\ sessions' = others \cup {c}
      BY <1>1, <3>1
    <3> HIDE DEF others
    <3>3. /\ IsFiniteSet(sessions \ {s}) /\ Cardinality(sessions \ {s}) = Cardinality(sessions) - 1
          /\ Cardinality(sessions) \in Nat
      BY FS_RemoveElement, FS_CardinalityType DEF RegistryInv, Bounded
    <3>4. /\ IsFiniteSet(others) /\ Cardinality(others) <= Cardinality(sessions) - 1
          /\ Cardinality(others) \in Nat
      BY <3>2, <3>3, FS_Subset, FS_CardinalityType
    <3>5. /\ IsFiniteSet(others \cup {c}) /\ Cardinality(others \cup {c}) <= Cardinality(others) + 1
          /\ Cardinality(others \cup {c}) \in Nat
      BY <3>4, AddBound
    <3> QED BY <3>2, <3>3, <3>4, <3>5 DEF RegistryInv, Bounded, CapacityHeld
  <2> QED BY <2>1, <2>2
<1> QED BY <1>3, <1>4, <1>5, <1>6 DEF RegistryInv

LEMMA TerminateInv ==
    ASSUME RegistryInv, NEW owned, terminate_user_sessions(owned)
    PROVE  RegistryInv'
<1> DEFINE Ended(s) == IF s \in owned THEN [s EXCEPT !.state = "Terminated"] ELSE s
           f == [s \in sessions |-> Ended(s)]
<1>1. sessions' = {Ended(s) : s \in sessions} /\ UNCHANGED <<now, copies, created, removed>>
  BY DEF terminate_user_sessions
<1>2. \A s \in sessions : Ended(s) \in Session /\ Ended(s).id = s.id
  BY DEF RegistryInv, RegistryTypeOK, Session, SessionStates
<1> HIDE DEF Ended
<1>3. RegistryTypeOK'
  <2>1. \A s, t \in sessions : Ended(s).id = Ended(t).id => Ended(s) = Ended(t)
    BY <1>2 DEF RegistryInv, RegistryTypeOK
  <2> QED BY <1>1, <1>2, <2>1 DEF RegistryInv, RegistryTypeOK
<1>4. Numbered' /\ RemovedStaysRemoved'
  BY <1>1, <1>2 DEF RegistryInv, Numbered, RemovedStaysRemoved
<1>5. Bounded'
  <2>1. f \in Surjection(sessions, sessions')
    BY <1>1 DEF Surjection
  <2> HIDE DEF f
  <2>2. IsFiniteSet(sessions') /\ Cardinality(sessions') <= Cardinality(sessions)
    BY <2>1, FS_Surjection DEF RegistryInv, Bounded
  <2>3. Cardinality(sessions) \in Nat /\ Cardinality(sessions') \in Nat
    BY <2>2, FS_CardinalityType DEF RegistryInv, Bounded
  <2> QED BY <2>2, <2>3 DEF RegistryInv, Bounded, CapacityHeld
<1> QED BY <1>3, <1>4, <1>5 DEF RegistryInv

LEMMA RegistryNextInv ==
    ASSUME RegistryInv, RegistryNext
    PROVE  RegistryInv'
<1>1. CASE Tick
  <2>1. now' \in 0 .. MaxTime /\ UNCHANGED <<sessions, copies, created, removed>>
    BY <1>1 DEF Tick, RegistryInv, RegistryTypeOK
  <2> QED BY <2>1 DEF RegistryInv, RegistryTypeOK, Numbered, RemovedStaysRemoved, Bounded, CapacityHeld
<1>2. CASE cleanup_expired
  <2>1. Expired \in SUBSET sessions
    BY DEF Expired
  <2> QED BY <1>2, <2>1, TakeOutInv DEF cleanup_expired
<1>3. ASSUME NEW w \in Workers,
             create_session(w) \/ get_session(w) \/ ChangeCopy(w) \/ update_session(w)
      PROVE  RegistryInv'
  BY <1>3, CreateInv, GetInv, ChangeInv, UpdateInv
<1>4. ASSUME NEW id \in Ids, remove_session(id)
      PROVE  RegistryInv'
  BY <1>4, TakeOutInv DEF remove_session
<1>5. CASE \E owned \in SUBSET sessions : terminate_user_sessions(owned)
  BY <1>5, TerminateInv
<1> QED BY <1>1, <1>2, <1>3, <1>4, <1>5 DEF RegistryNext

-----------------------------------------------------------------------------
(***************************************************************************)
(* The administration pages.                                               *)
(***************************************************************************)
\* Dropping expired tokens keeps the last one or none.
LEMMA UnexpiredForm ==
    ASSUME IInv
    PROVE  /\ Unexpired \in [SessionIds -> Token \cup {None}]
           /\ \A i \in SessionIds : Unexpired[i] # None => Unexpired[i].value = forms
BY DEF IInv, TypeOK, LastForm, Unexpired

\* Requests that leave sessions and forms alone.
LEMMA QuietInv ==
    ASSUME IInv, tokens' = tokens \/ tokens' = Unexpired, RegistryInv',
           response' \in {0, 200, 303, 400, 401, 403, 500},
           collected' \in [Tabs -> SUBSET Ids], found' \in [Tabs -> SUBSET Ids], Swept',
           UNCHANGED <<admin_password, ca, forms, page>>
    PROVE  IInv'
<1>1. tokens' \in [SessionIds -> Token \cup {None}]
      /\ \A i \in SessionIds : tokens'[i] # None => tokens'[i].value = forms
  BY UnexpiredForm DEF IInv, TypeOK, LastForm
<1>2. LastForm'
  BY <1>1 DEF LastForm
<1>3. TypeOK'
  BY <1>1 DEF IInv, TypeOK, RegistryInv
<1> QED BY <1>2, <1>3 DEF IInv

\* A step that does not touch the session manager keeps its invariant.
LEMMA RegistryStutter ==
    ASSUME RegistryInv, UNCHANGED registryVars
    PROVE  RegistryInv'
BY DEF registryVars, RegistryInv, RegistryTypeOK, Numbered, RemovedStaysRemoved, Bounded, CapacityHeld

\* No step puts a session into the table but under the next number.
NoOldComesIn ==
    /\ created' = created \/ created' = created + 1
    /\ \A s \in sessions' : s.id = created + 1 \/ \E o \in sessions : o.id = s.id

LEMMA RegistryAddsNew ==
    ASSUME RegistryInv, RegistryNext
    PROVE  NoOldComesIn
<1>0. sessions \subseteq Session
  BY DEF RegistryInv, RegistryTypeOK
<1>1. CASE Tick \/ cleanup_expired
  BY <1>1 DEF Tick, cleanup_expired, TakeOut, NoOldComesIn
<1>2. ASSUME NEW w \in Workers, create_session(w)
      PROVE  NoOldComesIn
  <2>1. /\ sessions' \subseteq sessions \cup {NewSession(created + 1)}
        /\ created' = created \/ created' = created + 1
    BY <1>2 DEF create_session
  <2> QED BY <2>1 DEF NoOldComesIn, NewSession
<1>3. ASSUME NEW w \in Workers, get_session(w) \/ ChangeCopy(w)
      PROVE  NoOldComesIn
  BY <1>3 DEF get_session, ChangeCopy, NoOldComesIn
<1>4. ASSUME NEW w \in Workers, update_session(w)
      PROVE  NoOldComesIn
  BY <1>4 DEF update_session, NoOldComesIn
<1>5. ASSUME NEW id \in Ids, remove_session(id)
      PROVE  NoOldComesIn
  BY <1>5 DEF remove_session, TakeOut, NoOldComesIn
<1>6. ASSUME NEW owned, terminate_user_sessions(owned)
      PROVE  NoOldComesIn
  <2> DEFINE Ended(s) == IF s \in owned THEN [s EXCEPT !.state = "Terminated"] ELSE s
  <2>1. sessions' = {Ended(s) : s \in sessions} /\ created' = created
    BY <1>6 DEF terminate_user_sessions
  <2>2. \A s \in sessions : Ended(s).id = s.id
    BY <1>0 DEF Session
  <2> HIDE DEF Ended
  <2> QED BY <2>1, <2>2 DEF NoOldComesIn
<1> QED BY <1>1, <1>2, <1>3, <1>4, <1>5, <1>6 DEF RegistryNext

\* Whoever uses the session manager meanwhile does not undo what was swept.
LEMMA SweptKept ==
    ASSUME IInv, NoOldComesIn, UNCHANGED <<collected, found>>
    PROVE  Swept'
<1>1. created \in Nat /\ created' \in Nat /\ created' >= created
  BY DEF NoOldComesIn, IInv, RegistryInv, RegistryTypeOK
<1>2. ASSUME NEW t \in Tabs
      PROVE  /\ found'[t] \subseteq 1 .. created'
             /\ collected'[t] \subseteq found'[t]
             /\ \A s \in sessions' : s.id \in found'[t] => s.id \in collected'[t]
  <2>1. /\ found'[t] \subseteq 1 .. created /\ collected'[t] \subseteq found'[t]
        /\ \A s \in sessions : s.id \in found'[t] => s.id \in collected'[t]
    BY DEF IInv, Swept
  <2>2. created + 1 \notin found'[t]
    BY <1>1, <2>1
  <2> QED BY <1>1, <2>1, <2>2 DEF NoOldComesIn
<1> QED BY <1>2 DEF Swept

\* Neither does a step that leaves the table or takes sessions out of it.
LEMMA SweptFewer ==
    ASSUME IInv, sessions' \subseteq sessions, created' = created, UNCHANGED <<collected, found>>
    PROVE  Swept'
BY SweptKept DEF NoOldComesIn

\* The new token belongs to the form that is shown now, and to no other.
LEMMA ShowFormInv ==
    ASSUME IInv, NEW t \in Tabs, NEW cred, ShowForm(t, cred)
    PROVE  IInv'
<1> DEFINE tok == [value |-> forms + 1, expires_at |-> now + TokenLife]
<1>1. /\ forms \in 0 .. MaxForms /\ forms < MaxForms /\ now \in 0 .. MaxTime
      /\ page \in [Tabs -> 0 .. MaxForms]
  BY DEF IInv, TypeOK, RegistryTypeOK, ShowForm
<1>2. tok \in Token /\ tok.value = forms + 1
  BY <1>1 DEF Token
<1>3. tokens' = [Unexpired EXCEPT !["default"] = tok]
  BY DEF ShowForm, generate_token, get_session_id
<1> HIDE DEF tok
<1>4. /\ tokens' \in [SessionIds -> Token \cup {None}]
      /\ \A i \in SessionIds : tokens'[i] = tok
  BY <1>2, <1>3, UnexpiredForm DEF SessionIds
<1>5. page' \in [Tabs -> 0 .. MaxForms] /\ forms' = forms + 1 /\ forms' \in 0 .. MaxForms
  <2>1. tokens'["default"].value = forms + 1
    BY <1>2, <1>4 DEF SessionIds
  <2> QED BY <1>1, <2>1 DEF ShowForm, get_session_id
<1>6. UNCHANGED registryVars /\ UNCHANGED <<admin_password, ca, collected, found>> /\ response' = 200
  BY DEF ShowForm, Answer
<1>7. RegistryInv' /\ Swept'
  BY <1>6, RegistryStutter, SweptFewer DEF IInv, registryVars
<1>8. LastForm'
  BY <1>2, <1>4, <1>5 DEF LastForm
<1>9. TypeOK'
  BY <1>4, <1>5, <1>6, <1>7 DEF IInv, TypeOK, RegistryInv
<1> QED BY <1>7, <1>8, <1>9 DEF IInv

\* A request that answers and at most drops expired tokens.
LEMMA AnswerInv ==
    ASSUME IInv, UNCHANGED registryVars, tokens' = tokens \/ tokens' = Unexpired,
           response' \in {0, 200, 303, 400, 401, 403, 500},
           UNCHANGED <<admin_password, ca, forms, page, collected, found>>
    PROVE  IInv'
<1>1. RegistryInv' /\ Swept'
  BY RegistryStutter, SweptFewer DEF IInv, registryVars
<1>2. collected' \in [Tabs -> SUBSET Ids] /\ found' \in [Tabs -> SUBSET Ids]
  BY DEF IInv, TypeOK
<1> QED BY <1>1, <1>2, QuietInv

LEMMA VisitInv ==
    ASSUME IInv, NEW cred \in Credentials, Visit(cred)
    PROVE  IInv'
<1>1. CASE Unauthorized(cred) \/ dashboard(cred) \/ RevokeClient(cred)
  BY <1>1, AnswerInv DEF Unauthorized, dashboard, RevokeClient, Answer
<1>2. ASSUME NEW name, DownloadClient(cred, name)
      PROVE  IInv'
  <2>1. Generated(name) \in {200, 400, 500}
    BY DEF Generated
  <2> QED BY <1>2, <2>1, AnswerInv DEF DownloadClient, Answer
<1> QED BY <1>1, <1>2 DEF Visit, download_client_config, download_client_config_mobile

LEMMA RequestInv ==
    ASSUME IInv, NEW t \in Tabs, NEW cred \in Credentials, Request(t, cred)
    PROVE  IInv'
<1>0. /\ collected \in [Tabs -> SUBSET Ids] /\ found \in [Tabs -> SUBSET Ids]
      /\ RegistryInv /\ Swept
  BY DEF IInv, TypeOK
<1>1. CASE clients_list(t, cred) \/ new_client_form(t, cred) \/ quick_generate_form(t, cred)
           \/ sessions_list(t, cred) \/ settings_page(t, cred)
  BY <1>1, ShowFormInv DEF clients_list, new_client_form, quick_generate_form, sessions_list,
                           settings_page
<1>2. ASSUME NEW name, PostClient(t, cred, name)
      PROVE  IInv'
  <2>1. Generated(name) \in {200, 400, 500}
    BY DEF Generated
  <2> QED BY <1>2, <2>1, AnswerInv DEF PostClient, Answer
<1>3. ASSUME NEW id \in Ids, DisconnectSession(t, cred, id)
      PROVE  IInv'
  <2>1. CASE UNCHANGED registryVars
    BY <1>3, <2>1, AnswerInv DEF DisconnectSession, Answer
  <2>2. CASE remove_session(id)
    <3>1. RegistryInv'
      BY <1>0, <2>2, TakeOutInv DEF remove_session
    <3>2. sessions' \subseteq sessions /\ created' = created
      BY <2>2 DEF remove_session, TakeOut
    <3>3. UNCHANGED <<collected, found>>
      BY <1>3 DEF DisconnectSession
    <3>4. Swept'
      BY <3>2, <3>3, SweptFewer
    <3> QED BY <1>0, <1>3, <3>1, <3>3, <3>4, QuietInv DEF DisconnectSession, Answer
  <2> QED BY <1>3, <2>1, <2>2 DEF DisconnectSession
<1>4. CASE DisconnectAllCollect(t, cred)
  <2>1. PICK ids : ids = IF validate_token(page[t]) THEN {s.id : s \in active_sessions} ELSE {}
    OBVIOUS
  <2>2. ids \subseteq Ids /\ ids \subseteq 1 .. created
    BY <1>0, <2>1 DEF active_sessions, RegistryInv, RegistryTypeOK, Session, Numbered
  <2>3. /\ found' = [found EXCEPT ![t] = ids] /\ collected' = [collected EXCEPT ![t] = ids]
        /\ UNCHANGED registryVars
    BY <1>0, <1>4, <2>1 DEF DisconnectAllCollect
  <2>4. collected' \in [Tabs -> SUBSET Ids] /\ found' \in [Tabs -> SUBSET Ids]
    BY <1>0, <2>2, <2>3
  <2>5. Swept'
    BY <1>0, <2>2, <2>3 DEF Swept, registryVars
  <2>6. RegistryInv'
    BY <1>0, <2>3, RegistryStutter
  <2> QED BY <1>4, <2>4, <2>5, <2>6, QuietInv DEF DisconnectAllCollect, Answer
<1> QED BY <1>1, <1>2, <1>3, <1>4 DEF Request, create_client, quick_generate_download

\* One removal: the session is gone, and one less has its turn to come.
LEMMA RemoveAllInv ==
    ASSUME IInv, NEW t \in Tabs, NEW id \in Ids, DisconnectAllRemove(t, id)
    PROVE  /\ IInv'
           /\ \A s \in sessions' : s.id \in found[t] => s.id \in collected'[t]
<1>1. /\ sessions' = {s \in sessions : s.id # id} /\ created' = created
      /\ collected' = [collected EXCEPT ![t] = @ \ {id}]
      /\ found' = [found EXCEPT ![t] = IF collected'[t] = {} THEN {} ELSE @]
  BY DEF DisconnectAllRemove, remove_session, TakeOut
<1>2. collected \in [Tabs -> SUBSET Ids] /\ found \in [Tabs -> SUBSET Ids] /\ RegistryInv /\ Swept
  BY DEF IInv, TypeOK
<1>3. RegistryInv'
  BY <1>2, TakeOutInv DEF DisconnectAllRemove, remove_session
<1>4. collected' \in [Tabs -> SUBSET Ids] /\ found' \in [Tabs -> SUBSET Ids]
  BY <1>1, <1>2
<1>5. \A s \in sessions' : s.id \in found[t] => s.id \in collected'[t]
  BY <1>1, <1>2 DEF Swept
<1>6. Swept'
  <2>1. ASSUME NEW u \in Tabs, u # t
        PROVE  /\ found'[u] \subseteq 1 .. created' /\ collected'[u] \subseteq found'[u]
               /\ \A s \in sessions' : s.id \in found'[u] => s.id \in collected'[u]
    BY <1>1, <1>2, <2>1 DEF Swept
  <2>2. /\ found'[t] \subseteq 1 .. created' /\ collected'[t] \subseteq found'[t]
        /\ \A s \in sessions' : s.id \in found'[t] => s.id \in collected'[t]
    BY <1>1, <1>2, <1>5 DEF Swept
  <2> QED BY <2>1, <2>2 DEF Swept
<1>7. tokens' = tokens /\ response' = response /\ UNCHANGED <<admin_password, ca, forms, page>>
  BY DEF DisconnectAllRemove
<1>8. response' \in {0, 200, 303, 400, 401, 403, 500}
  BY <1>7 DEF IInv, TypeOK
<1> QED BY <1>3, <1>4, <1>5, <1>6, <1>7, <1>8, QuietInv

-----------------------------------------------------------------------------
LEMMA InitIInv == Init => IInv
<1> SUFFICES ASSUME Init PROVE IInv
  OBVIOUS
<1>1. RegistryInv
  <2>1. RegistryTypeOK /\ Numbered /\ RemovedStaysRemoved
    BY DEF Init, RegistryInit, RegistryTypeOK, Numbered, RemovedStaysRemoved
  <2>2. Bounded
    BY FS_EmptySet DEF Init, RegistryInit, Bounded, CapacityHeld
  <2> QED BY <2>1, <2>2 DEF RegistryInv
<1>2. TypeOK /\ LastForm /\ Swept
  BY <1>1 DEF Init, RegistryInit, RegistryInv, TypeOK, LastForm, Swept
<1> QED BY <1>1, <1>2 DEF IInv

LEMMA NextIInv == IInv /\ [Next]_vars => IInv'
<1> SUFFICES ASSUME IInv, [Next]_vars PROVE IInv'
  OBVIOUS
<1>1. CASE RegistryNext /\ UNCHANGED webVars
  <2>1. RegistryInv' /\ NoOldComesIn
    BY <1>1, RegistryNextInv, RegistryAddsNew DEF IInv
  <2>2. UNCHANGED <<admin_password, ca, tokens, forms, page, response, collected, found>>
    BY <1>1 DEF webVars
  <2>3. Swept'
    BY <2>1, <2>2, SweptKept
  <2> QED BY <2>1, <2>2, <2>3, QuietInv DEF IInv, TypeOK
<1>2. CASE \E cred \in Credentials : Visit(cred) \/ \E t \in Tabs : Request(t, cred)
  BY <1>2, VisitInv, RequestInv
<1>3. CASE \E t \in Tabs, id \in Ids : DisconnectAllRemove(t, id)
  BY <1>3, RemoveAllInv
<1>4. CASE UNCHANGED vars
  <2>1. UNCHANGED registryVars
        /\ UNCHANGED <<admin_password, ca, tokens, forms, page, response, collected, found>>
    BY <1>4 DEF vars, webVars
  <2>2. response' \in {0, 200, 303, 400, 401, 403, 500}
    BY <2>1 DEF IInv, TypeOK
  <2> QED BY <2>1, <2>2, AnswerInv
<1> QED BY <1>1, <1>2, <1>3, <1>4 DEF Next

\* The table, the copies, what was removed and the form tokens agree in every
\* state the server reaches.
THEOREM Invariance == Spec => []IInv
BY InitIInv, NextIInv, PTL DEF Spec

\* No copy a worker still holds brings back a session that was taken out.
THEOREM RemovalIsFinal == Spec => []RemovedStaysRemoved
<1>1. IInv => RemovedStaysRemoved
  BY DEF IInv, RegistryInv
<1> QED BY <1>1, Invariance, PTL

\* The table never holds more than max_sessions sessions.
THEOREM Capacity == Spec => []CapacityHeld
<1>1. IInv => CapacityHeld
  BY DEF IInv, RegistryInv, Bounded
<1> QED BY <1>1, Invariance, PTL

\* Only the form that was shown last can be sent.
THEOREM OneForm == Spec => []OneFormIsValid
<1>1. IInv => OneFormIsValid
  BY UnexpiredForm DEF OneFormIsValid, validate_token, get_session_id, SessionIds
<1> QED BY <1>1, Invariance, PTL

\* None of the sessions disconnect_all_sessions found active is left when it
\* answers, however the table changed while it removed one after the other.
THEOREM DisconnectAll == Spec => DisconnectedAreGone
<1>1. ASSUME IInv, [Next]_vars, NEW t \in Tabs, collected[t] # {}, collected'[t] = {}
      PROVE  \A s \in sessions' : s.id \notin found[t]
  <2>1. collected \in [Tabs -> SUBSET Ids]
    BY <1>1 DEF IInv, TypeOK
  <2>2. collected' # collected
    BY <1>1
  <2>3. \/ \E u \in Tabs, id \in Ids : DisconnectAllRemove(u, id)
        \/ \E u \in Tabs, cred \in Credentials : DisconnectAllCollect(u, cred)
    BY <1>1, <2>2 DEF Next, vars, webVars, Visit, Request, Unauthorized, dashboard, clients_list,
       new_client_form, quick_generate_form, sessions_list, settings_page, ShowForm,
       create_client, quick_generate_download, PostClient, download_client_config,
       download_client_config_mobile, DownloadClient, RevokeClient, DisconnectSession
  <2>4. ASSUME NEW u \in Tabs, NEW id \in Ids, DisconnectAllRemove(u, id)
        PROVE  \A s \in sessions' : s.id \notin found[t]
    <3>1. u = t
      BY <1>1, <2>1, <2>4 DEF DisconnectAllRemove
    <3> QED BY <1>1, <2>4, <3>1, RemoveAllInv
  <2>5. ASSUME NEW u \in Tabs, NEW cred \in Credentials, DisconnectAllCollect(u, cred)
        PROVE  FALSE
    <3>1. u # t
      BY <1>1, <2>5 DEF DisconnectAllCollect
    <3>2. collected'[t] = collected[t]
      BY <2>1, <2>5, <3>1 DEF DisconnectAllCollect
    <3> QED BY <1>1, <3>2
  <2> QED BY <2>3, <2>4, <2>5
<1>2. IInv /\ [Next]_vars =>
          [\A t \in Tabs :
              collected[t] # {} /\ collected'[t] = {} =>
                  \A s \in sessions' : s.id \notin found[t]]_vars
  BY <1>1
<1> QED BY <1>2, Invariance, PTL DEF Spec, DisconnectedAreGone
=============================================================================
