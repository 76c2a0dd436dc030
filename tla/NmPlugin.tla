------------------------------ MODULE NmPlugin ------------------------------
(***************************************************************************)
(* The NetworkManager plugin, corevpn-nm/src/plugin.rs.  D-Bus calls run   *)
(* concurrently; connect starts a task that listens to the events of a     *)
(* native client (ClientTask, which NativeClient implements) and turns     *)
(* them into signals.  The mutex around PluginInner is taken anew for      *)
(* every change, so calls and tasks interleave between the changes.        *)
(***************************************************************************)
EXTENDS Integers, FiniteSets, Sequences

CONSTANTS Callers,   \* D-Bus calls that may be under way at a time
          MaxTasks,  \* bound on the calls of connect
          None

ASSUME PluginAssumption == MaxTasks \in Nat /\ None \notin Nat

Tasks == 1 .. MaxTasks

VARIABLES state,            \* inner.state
          connection_task,  \* inner.connection_task
          calls,            \* where each call is
          spawned,          \* tasks created so far
          pc,               \* where each task is
          aborted,          \* tasks whose abort was requested
          client,           \* the stage of the task's client, see ClientTask
          event_rx,         \* events sent and not yet received
          result,           \* how the client ended: "ok" or "err"
          signals           \* history: what each task has signalled of its client

inner == <<state, connection_task>>
taskVars == <<pc, client, event_rx, result, signals>>
pluginVars == <<inner, calls, spawned, aborted, taskVars>>

Client(t) == INSTANCE ClientTask WITH stage <- client[t]

NmStates == {"INIT", "STARTING", "STARTED", "STOPPING", "STOPPED"}
Signals == {"Config", "Ip4Config", "STARTED"}
Events == {"PushReply", "PushReplyNoIfconfig", "Connected"}
Idle == [at |-> "idle"]

\* connection_settings, by what parse_nm_settings, the file system and
\* OvpnConfig::parse find under the key vpn.data.config or, without it,
\* vpn.data.config-file.
Settings == [config : {None, "empty", "missing", "invalid", "valid"},
             config_file : {None, "valid"}]

PluginTypeOK ==
    /\ state \in NmStates
    /\ connection_task \in Tasks \cup {None}
    /\ calls \in [Callers -> {Idle} \cup [at : {"connecting", "disconnecting"}]
                             \cup [at : {"spawned"}, task : Tasks]]
    /\ spawned \in 0 .. MaxTasks
    /\ pc \in [Tasks -> {"none", "recv", "started", "reporting", "failing", "gone"}]
    /\ aborted \subseteq Tasks
    /\ client \in [Tasks -> {"connecting", "configured", "unaddressed", "connected", "ended"}]
    /\ event_rx \in [Tasks -> Seq(Events)]
    /\ result \in [Tasks -> {"ok", "err"}]
    /\ signals \in [Tasks -> SUBSET Signals]

PluginInit ==
    /\ state = "INIT"
    /\ connection_task = None
    /\ calls = [c \in Callers |-> Idle]
    /\ spawned = 0
    /\ pc = [t \in Tasks |-> "none"]
    /\ aborted = {}
    /\ client = [t \in Tasks |-> "connecting"]
    /\ event_rx = [t \in Tasks |-> << >>]
    /\ result = [t \in Tasks |-> "ok"]
    /\ signals = [t \in Tasks |-> {}]

-----------------------------------------------------------------------------
(***************************************************************************)
(* connect and disconnect.                                                 *)
(***************************************************************************)
ConfigPath(s) == IF s.config = None THEN s.config_file ELSE s.config

\* The abort of the task that is stored, if any; it is forgotten with that.
AbortStored ==
    /\ aborted' = aborted \cup ({connection_task} \ {None})
    /\ connection_task' = None

\* InvalidArgs is returned before anything has changed.
Accepted(s) == ConfigPath(s) = "valid"

Connect(c, s) ==
    /\ calls[c] = Idle
    /\ Accepted(s)
    /\ spawned + Cardinality({d \in Callers : calls[d].at = "connecting"}) < MaxTasks
    /\ AbortStored
    /\ state' = "STARTING"
    /\ calls' = [calls EXCEPT ![c] = [at |-> "connecting"]]
    /\ UNCHANGED <<spawned, taskVars>>

\* STARTING was signalled; the task is spawned and may run at once.
ConnectSpawn(c) ==
    /\ calls[c].at = "connecting"
    /\ spawned' = spawned + 1
    /\ pc' = [pc EXCEPT ![spawned + 1] = "recv"]
    /\ calls' = [calls EXCEPT ![c] = [at |-> "spawned", task |-> spawned + 1]]
    /\ UNCHANGED <<inner, aborted, client, event_rx, result, signals>>

\* Its handle is stored, whatever has become of the task.
ConnectStore(c) ==
    /\ calls[c].at = "spawned"
    /\ connection_task' = calls[c].task
    /\ calls' = [calls EXCEPT ![c] = Idle]
    /\ UNCHANGED <<state, spawned, aborted, taskVars>>

Disconnect(c) ==
    /\ calls[c] = Idle
    /\ state' = "STOPPING"
    /\ calls' = [calls EXCEPT ![c] = [at |-> "disconnecting"]]
    /\ UNCHANGED <<connection_task, spawned, aborted, taskVars>>

\* STOPPING was signalled.
DisconnectAbort(c) ==
    /\ calls[c].at = "disconnecting"
    /\ AbortStored
    /\ state' = "STOPPED"
    /\ calls' = [calls EXCEPT ![c] = Idle]
    /\ UNCHANGED <<spawned, taskVars>>

-----------------------------------------------------------------------------
(***************************************************************************)
(* The task of connect.  A request to abort takes effect when the task     *)
(* waits next: a task that is running may still take some steps.           *)
(***************************************************************************)
Running(t) == pc[t] \notin {"none", "gone"}

Goto(t, p) == pc' = [pc EXCEPT ![t] = p]

Emit(t, sigs) == signals' = [signals EXCEPT ![t] = @ \cup sigs]

Die(t) ==
    /\ t \in aborted
    /\ Running(t)
    /\ Goto(t, "gone")
    /\ UNCHANGED <<inner, calls, spawned, aborted, client, event_rx, result, signals>>

\* The client runs in a task of its own, which nobody aborts.
ClientStep(t) ==
    /\ pc[t] # "none"
    /\ \E s \in {"configured", "unaddressed", "connected", "ended"} :
          /\ client' = [client EXCEPT ![t] = s]
          /\ event_rx' = [event_rx EXCEPT ![t] =
                 CASE s = "configured" -> Append(@, "PushReply")
                   [] s = "unaddressed" -> Append(@, "PushReplyNoIfconfig")
                   [] s = "connected" -> Append(@, "Connected")
                   [] OTHER -> @]
          /\ Client(t)!Next
          \* Only the data plane ends with Ok.
          /\ \E r \in IF client[t] = "connected" THEN {"ok", "err"} ELSE {"err"} :
                result' = [result EXCEPT ![t] = IF s = "ended" THEN r ELSE @]
    /\ UNCHANGED <<inner, calls, spawned, aborted, pc, signals>>

Received(t, e) ==
    /\ pc[t] = "recv"
    /\ event_rx[t] # << >>
    /\ Head(event_rx[t]) = e
    /\ event_rx' = [event_rx EXCEPT ![t] = Tail(@)]

\* Mutant of ReceivePushReply: the address is left to the Connected event.
ReceivePushReplyBriefly(t) ==
    /\ Received(t, "PushReply") \/ Received(t, "PushReplyNoIfconfig")
    /\ Emit(t, {"Config"})
    /\ UNCHANGED <<inner, calls, spawned, aborted, pc, client, result>>

ReceivePushReply(t) ==
    /\ \/ Received(t, "PushReply") /\ Emit(t, {"Config", "Ip4Config"})
       \/ Received(t, "PushReplyNoIfconfig") /\ Emit(t, {"Config"})
    /\ UNCHANGED <<inner, calls, spawned, aborted, pc, client, result>>

\* STARTED is signalled first, the state is set under the lock afterwards.
ReceiveConnected(t) ==
    /\ Received(t, "Connected")
    /\ Emit(t, {"STARTED"})
    /\ Goto(t, "started")
    /\ UNCHANGED <<inner, calls, spawned, aborted, client, result>>

SetStarted(t) ==
    /\ pc[t] = "started"
    /\ state' = "STARTED"
    /\ Goto(t, "recv")
    /\ UNCHANGED <<connection_task, calls, spawned, aborted, client, event_rx, result, signals>>

\* A signal cannot be emitted, perhaps after Config was: the task gives up, its
\* client goes on.
EmitFails(t) ==
    /\ \/ \E e \in Events : Received(t, e) /\ UNCHANGED signals
       \/ Received(t, "PushReply") /\ Emit(t, {"Config"})
    /\ Goto(t, "failing")
    /\ UNCHANGED <<inner, calls, spawned, aborted, client, result>>

\* The client has dropped its end of the channel and has been awaited.
ChannelClosed(t) ==
    /\ pc[t] = "recv"
    /\ client[t] = "ended" /\ event_rx[t] = << >>
    /\ state' = "STOPPED"
    /\ connection_task' = None
    /\ Goto(t, "reporting")
    /\ UNCHANGED <<calls, spawned, aborted, client, event_rx, result, signals>>

\* STOPPED is signalled.
ReportStopped(t) ==
    /\ pc[t] = "reporting"
    /\ Goto(t, IF result[t] = "ok" THEN "gone" ELSE "failing")
    /\ UNCHANGED <<inner, calls, spawned, aborted, client, event_rx, result, signals>>

\* Mutant of emit_failure_signals: it returns when there is no interface to
\* signal with.
emit_failure_signals_early(t) ==
    /\ pc[t] = "failing"
    /\ \/ state' = "STOPPED" /\ connection_task' = None
       \/ UNCHANGED inner
    /\ Goto(t, "gone")
    /\ UNCHANGED <<calls, spawned, aborted, client, event_rx, result, signals>>

\* Failure and STOPPED are signalled if the interface is there, and in any
\* case the plugin forgets the task that is stored by now.
emit_failure_signals(t) ==
    /\ pc[t] = "failing"
    /\ state' = "STOPPED"
    /\ connection_task' = None
    /\ Goto(t, "gone")
    /\ UNCHANGED <<calls, spawned, aborted, client, event_rx, result, signals>>

TaskStep(t) ==
    \/ ReceivePushReply(t) \/ ReceiveConnected(t) \/ SetStarted(t) \/ EmitFails(t)
    \/ ChannelClosed(t) \/ ReportStopped(t) \/ emit_failure_signals(t)

CallStep(c) == ConnectSpawn(c) \/ ConnectStore(c) \/ DisconnectAbort(c)

PluginNext ==
    \/ \E c \in Callers : (\E s \in Settings : Connect(c, s)) \/ Disconnect(c) \/ CallStep(c)
    \/ \E t \in Tasks : Die(t) \/ ClientStep(t) \/ TaskStep(t)

\* tokio runs what is ready; a client that is not connected settles, which is
\* NativeClient's Settles.  NetworkManager need not call anything.
PluginFairness ==
    /\ \A c \in Callers : WF_pluginVars(CallStep(c))
    /\ \A t \in Tasks : /\ WF_pluginVars(TaskStep(t))
                        /\ WF_pluginVars(ClientStep(t) /\ client[t] # "connected")
                        /\ WF_pluginVars(Die(t))

PluginSpec == PluginInit /\ [][PluginNext]_pluginVars

PluginFairSpec == PluginSpec /\ PluginFairness

-----------------------------------------------------------------------------
\* NetworkManager brings the interface up on STARTED, so whatever calls and
\* aborts interleave, a task signals it only after Config and Ip4Config, with
\* the address of its own client (plugin.rs:304-398).
StartedIsConfigured ==
    \A t \in Tasks : "STARTED" \in signals[t] => {"Config", "Ip4Config"} \subseteq signals[t]

\* The plugin does not stay in STARTING: every attempt is replaced, stopped,
\* started or cleaned up, also when its signals cannot be sent.
StartingSettles == state = "STARTING" ~> state # "STARTING"
=============================================================================
