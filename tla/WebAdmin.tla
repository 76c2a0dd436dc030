------------------------------ MODULE WebAdmin ------------------------------
(***************************************************************************)
(* The administration pages of corevpn-server/src/webui: the password, the *)
(* form tokens, the handlers that issue client configurations, and those   *)
(* that act on a SessionRegistry.  Requests run concurrently; a handler    *)
(* does not wait inside, but takes the locks it needs one after the other. *)
(***************************************************************************)
EXTENDS SessionRegistry

CONSTANTS Tabs,        \* browser windows of administrators
          TokenLife,   \* 3600 s
          MaxForms     \* bound on the forms shown

ASSUME AdminAssumption == TokenLife \in Nat /\ MaxForms \in Nat

VARIABLES admin_password,  \* COREVPN_ADMIN_PASSWORD: "unset", "empty" or "set"
          ca,              \* the CA files: "unusable" if they cannot be read or loaded
          tokens,          \* CSRF_STORE: session identifiers and their token
          forms,           \* forms shown so far
          page,            \* the token in the form each tab shows, 0 for none
          response,        \* the status of the last answer
          collected,       \* disconnect_all: what a tab's request has still to remove
          found            \* history: all that the running disconnect_all of a tab collected

webVars == <<admin_password, ca, tokens, forms, page, response, collected, found>>
vars == <<registryVars, webVars>>

Credentials == {"none", "malformed", "wrong", "right"}
SessionIds == {"default"}
Token == [value : 1 .. MaxForms, expires_at : 0 .. MaxTime + TokenLife]

TypeOK ==
    /\ RegistryTypeOK
    /\ admin_password \in {"unset", "empty", "set"}
    /\ ca \in {"unusable", "good"}
    /\ tokens \in [SessionIds -> Token \cup {None}]
    /\ forms \in 0 .. MaxForms
    /\ page \in [Tabs -> 0 .. MaxForms]
    /\ response \in {0, 200, 303, 400, 401, 403, 500}
    /\ collected \in [Tabs -> SUBSET Ids]
    /\ found \in [Tabs -> SUBSET Ids]

Init ==
    /\ RegistryInit
    /\ admin_password \in {"unset", "empty", "set"}
    /\ ca \in {"unusable", "good"}
    /\ tokens = [i \in SessionIds |-> None]
    /\ forms = 0
    /\ page = [t \in Tabs |-> 0]
    /\ response = 0
    /\ collected = [t \in Tabs |-> {}]
    /\ found = [t \in Tabs |-> {}]

require_auth(cred) == admin_password = "set" /\ cred = "right"

Answer(status) == response' = status

Unauthorized(cred) ==
    /\ ~require_auth(cred)
    /\ Answer(401)
    /\ UNCHANGED <<registryVars, admin_password, ca, tokens, forms, page, collected, found>>

-----------------------------------------------------------------------------
(***************************************************************************)
(* CSRF_STORE.  Every request gets the session identifier "default".       *)
(***************************************************************************)
get_session_id == "default"

Unexpired == [i \in SessionIds |->
                 IF tokens[i] # None /\ tokens[i].expires_at > now THEN tokens[i] ELSE None]

\* Mutant of generate_token: a token that is still good is not replaced.
generate_token_once ==
    [Unexpired EXCEPT ![get_session_id] =
        IF @ = None THEN [value |-> forms + 1, expires_at |-> now + TokenLife] ELSE @]

\* The store after a new token was made for the session.
generate_token ==
    [Unexpired EXCEPT ![get_session_id] = [value |-> forms + 1, expires_at |-> now + TokenLife]]

validate_token(value) ==
    Unexpired[get_session_id] # None /\ Unexpired[get_session_id].value = value

\* A page with a form.
ShowForm(t, cred) ==
    /\ require_auth(cred)
    /\ forms < MaxForms
    /\ forms' = forms + 1
    /\ tokens' = generate_token
    /\ page' = [page EXCEPT ![t] = tokens'[get_session_id].value]
    /\ Answer(200)
    /\ UNCHANGED <<registryVars, admin_password, ca, collected, found>>

clients_list(t, cred) == ShowForm(t, cred)
new_client_form(t, cred) == ShowForm(t, cred)
quick_generate_form(t, cred) == ShowForm(t, cred)
sessions_list(t, cred) == ShowForm(t, cred)
settings_page(t, cred) == ShowForm(t, cred)

\* The overview has no form and makes no token.
dashboard(cred) ==
    /\ require_auth(cred)
    /\ Answer(200)
    /\ UNCHANGED <<registryVars, admin_password, ca, tokens, forms, page, collected, found>>

-----------------------------------------------------------------------------
(***************************************************************************)
(* Client configurations.                                                  *)
(***************************************************************************)
\* A client's name after it was sanitized: "bad" when nothing is left of it or too much.
Names == {"bad", "good"}

Generated(name) ==
    IF name # "good" THEN 400 ELSE IF ca # "good" THEN 500 ELSE 200

\* The token is looked at first.
PostClient(t, cred, name) ==
    /\ require_auth(cred)
    /\ tokens' = Unexpired
    /\ Answer(IF ~validate_token(page[t]) THEN 403 ELSE Generated(name))
    /\ UNCHANGED <<registryVars, admin_password, ca, forms, page, collected, found>>

create_client(t, cred, name) == PostClient(t, cred, name)
quick_generate_download(t, cred, name) == PostClient(t, cred, name)

\* A GET without a token.
DownloadClient(cred, name) ==
    /\ require_auth(cred)
    /\ Answer(Generated(name))
    /\ UNCHANGED <<registryVars, admin_password, ca, tokens, forms, page, collected, found>>

download_client_config(cred, name) == DownloadClient(cred, name)
download_client_config_mobile(cred, name) == DownloadClient(cred, name)

\* revoke_client validates its input and does nothing else.
RevokeClient(cred) ==
    /\ require_auth(cred)
    /\ tokens' = Unexpired
    /\ Answer(303)
    /\ UNCHANGED <<registryVars, admin_password, ca, forms, page, collected, found>>

-----------------------------------------------------------------------------
DisconnectSession(t, cred, id) ==
    /\ require_auth(cred)
    /\ tokens' = Unexpired
    /\ IF validate_token(page[t]) THEN remove_session(id) ELSE UNCHANGED registryVars
    /\ Answer(303)
    /\ UNCHANGED <<admin_password, ca, forms, page, collected, found>>

\* disconnect_all_sessions collects the active sessions under one lock ...
DisconnectAllCollect(t, cred) ==
    /\ require_auth(cred)
    /\ collected[t] = {}
    /\ tokens' = Unexpired
    /\ found' = [found EXCEPT ![t] =
           IF validate_token(page[t]) THEN {s.id : s \in active_sessions} ELSE {}]
    /\ collected' = [collected EXCEPT ![t] = found'[t]]
    /\ Answer(303)
    /\ UNCHANGED <<registryVars, admin_password, ca, forms, page>>

\* Mutant of DisconnectAllRemove: one that is not active any more is passed over.
DisconnectAllRemoveActive(t, id) ==
    /\ id \in collected[t]
    /\ IF \E s \in active_sessions : s.id = id THEN remove_session(id) ELSE UNCHANGED registryVars
    /\ collected' = [collected EXCEPT ![t] = @ \ {id}]
    /\ found' = [found EXCEPT ![t] = IF collected'[t] = {} THEN {} ELSE @]
    /\ UNCHANGED <<admin_password, ca, tokens, forms, page, response>>

\* ... and removes them one by one, each under the lock again and whatever it is
\* by then, while workers and other requests go on.
DisconnectAllRemove(t, id) ==
    /\ id \in collected[t]
    /\ remove_session(id)
    /\ collected' = [collected EXCEPT ![t] = @ \ {id}]
    /\ found' = [found EXCEPT ![t] = IF collected'[t] = {} THEN {} ELSE @]
    /\ UNCHANGED <<admin_password, ca, tokens, forms, page, response>>

\* Requests that no window's form is needed for.
Visit(cred) ==
    \/ Unauthorized(cred)
    \/ dashboard(cred)
    \/ \E name \in Names : download_client_config(cred, name) \/ download_client_config_mobile(cred, name)
    \/ RevokeClient(cred)

Request(t, cred) ==
    \/ clients_list(t, cred) \/ new_client_form(t, cred) \/ quick_generate_form(t, cred)
    \/ sessions_list(t, cred) \/ settings_page(t, cred)
    \/ \E name \in Names : create_client(t, cred, name) \/ quick_generate_download(t, cred, name)
    \/ \E id \in Ids : DisconnectSession(t, cred, id)
    \/ DisconnectAllCollect(t, cred)

Next ==
    \/ RegistryNext /\ UNCHANGED webVars
    \/ \E cred \in Credentials : Visit(cred) \/ \E t \in Tabs : Request(t, cred)
    \/ \E t \in Tabs, id \in Ids : DisconnectAllRemove(t, id)

Spec == Init /\ [][Next]_vars

-----------------------------------------------------------------------------
\* A form is good for one page view: as soon as any page with a form is shown,
\* the forms of all other windows are refused (csrf.rs, routes.rs:621-625).
OneFormIsValid ==
    \A t \in Tabs : page[t] # 0 /\ validate_token(page[t]) => page[t] = forms

\* When disconnect_all_sessions answers, none of the sessions it found active is in
\* the table: not those that left the state Active, expired or were stored again
\* by a worker while the others were removed one by one, nor those another window
\* was removing at the same time (routes.rs:551-562).
DisconnectedAreGone ==
    [][\A t \in Tabs :
          collected[t] # {} /\ collected'[t] = {} => \A s \in sessions' : s.id \notin found[t]]_vars
=============================================================================
