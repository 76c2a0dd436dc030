--------------------------- MODULE ClientProofs ----------------------------
(***************************************************************************)
(* The native client and the NetworkManager plugin that runs it.  The      *)
(* first part is about a connection attempt, for every bound of its loops  *)
(* and every ping-restart: what its data plane starts from, and what its   *)
(* listener hears, which is ClientTask.  The second part is about the      *)
(* plugin, whose clients are ClientTasks, for every number of calls under  *)
(* way and of connection attempts.                                         *)
(***************************************************************************)
EXTENDS NativeClient, NmPlugin, SequenceTheorems, TLAPS

\* What of the server's TLS stream can still be read, and what was read, holds
\* no reply before the login the server asked for.
NoReplyYet ==
    oauth /\ ~loggedIn =>
        /\ written \in Seq(Messages \ Replies)
        /\ unread \in Seq(Messages \ Replies)
        /\ total_plaintext \in Seq(Messages \ Replies)

\* Past the key exchange there is a reply, the server's key material, and a login
\* where one was asked for.
Answered ==
    phase \in {"push", "tun", "dataPlane"} =>
        /\ push_reply # "none"
        /\ server_km
        /\ oauth => loggedIn

\* The keys are installed with the first event, the data plane has an address.
Ready ==
    /\ phase \in {"tun", "dataPlane"} => keys
    /\ phase = "dataPlane" => push_reply = "full"

\* The events that were sent tell the phase.
Heard ==
    /\ phase \in {"reset", "handshake", "keyExchange", "push"} => events = << >>
    /\ phase = "tun" => events = <<"PushReply">>
    /\ phase = "dataPlane" => events = <<"PushReply", "Connected">>

IInv == TypeOK /\ NoReplyYet /\ Answered /\ Ready /\ Heard

USE ClientAssumption

-----------------------------------------------------------------------------
\* The steps that leave everything but the phase, the loop counter, the silence
\* and the quiet alone.
LEMMA QuietIInv ==
    ASSUME IInv, UNCHANGED <<oauth, tlsVars, parsed, loggedIn, keys, events>>,
           phase' \in Phases, attempts' \in 0 .. MaxHandshake + MaxKm,
           quiet' \in BOOLEAN, silence' \in 0 .. PingRestart + 1,
           \/ phase' = phase
           \/ phase' \in {"closed", "failed"}
           \/ phase = "reset" /\ phase' = "handshake"
           \/ phase = "handshake" /\ phase' = "keyExchange"
    PROVE  IInv'
<1>1. TypeOK'
  BY DEF IInv, TypeOK, tlsVars, parsed
<1>2. NoReplyYet'
  BY DEF IInv, NoReplyYet, tlsVars, parsed
<1>3. Answered' /\ Ready' /\ Heard'
  BY DEF IInv, Answered, Ready, Heard, parsed
<1> QED BY <1>1, <1>2, <1>3 DEF IInv

LEMMA ReturnIInv ==
    ASSUME IInv, NEW p \in {"closed", "failed"}, Return(p)
    PROVE  IInv'
BY QuietIInv DEF Return, IInv, TypeOK, Phases, Receiving

LEMMA SetupIInv ==
    ASSUME IInv, HardResetAck \/ HandshakeContinues \/ HandshakeCompletes \/ NothingArrives
                 \/ DataPlaneReceives \/ PingTick \/ GoQuiet
    PROVE  IInv'
<1>0. /\ attempts \in 0 .. MaxHandshake + MaxKm /\ silence \in 0 .. PingRestart + 1
      /\ phase \in Phases /\ quiet \in BOOLEAN
  BY DEF IInv, TypeOK
<1>1. CASE HardResetAck
  BY <1>0, <1>1, QuietIInv DEF HardResetAck, Phases, Receiving
<1>2. CASE HandshakeContinues
  BY <1>0, <1>2, QuietIInv DEF HandshakeContinues
<1>3. CASE HandshakeCompletes
  BY <1>0, <1>3, QuietIInv DEF HandshakeCompletes, Phases, Receiving
<1>4. CASE NothingArrives
  BY <1>0, <1>4, QuietIInv DEF NothingArrives
<1>5. CASE DataPlaneReceives
  BY <1>0, <1>5, QuietIInv DEF DataPlaneReceives
<1>6. CASE PingTick
  BY <1>0, <1>6, QuietIInv DEF PingTick, Phases, Receiving
<1>7. CASE GoQuiet
  BY <1>0, <1>7, QuietIInv DEF GoQuiet
<1> QED BY <1>1, <1>2, <1>3, <1>4, <1>5, <1>6, <1>7

\* The server writes a reply only without OAuth, or after the login.
LEMMA ServerIInv ==
    ASSUME IInv, NEW reply \in Replies, ServerAnswers(reply) \/ UserLogsIn(reply)
    PROVE  IInv'
<1>0. reply \in Messages /\ written \in Seq(Messages) /\ arrived \in 0 .. Len(written)
  BY DEF Replies, Messages, IInv, TypeOK
<1>1. CASE ServerAnswers(reply)
  <2>1. /\ written' = IF oauth THEN <<"KM", "AUTH_PENDING", "WEB_AUTH">> ELSE <<"KM", reply>>
        /\ arrived = 0 /\ phase = "keyExchange"
        /\ UNCHANGED <<oauth, phase, attempts, arrived, unread, loggedIn, keys, events, quiet, silence>>
        /\ UNCHANGED <<total_plaintext, server_km, push_reply, shown>>
    BY <1>0, <1>1 DEF ServerAnswers, parsed, WaitsForReply
  <2>2. <<"KM", "AUTH_PENDING", "WEB_AUTH">> \in Seq(Messages \ Replies)
    BY DEF Messages, Replies
  <2>3. written' \in Seq(Messages) /\ Len(written') \in Nat
    <3>1. "KM" \in Messages /\ "AUTH_PENDING" \in Messages /\ "WEB_AUTH" \in Messages
      BY DEF Messages
    <3>2. <<"KM", reply>> \in Seq(Messages) /\ <<"KM", "AUTH_PENDING", "WEB_AUTH">> \in Seq(Messages)
      BY <1>0, <3>1
    <3>3. written' \in Seq(Messages)
      BY <2>1, <3>2
    <3> QED BY <3>3, LenProperties
  <2>4. TypeOK'
    BY <2>1, <2>3 DEF IInv, TypeOK
  <2>5. NoReplyYet'
    BY <2>1, <2>2 DEF IInv, NoReplyYet
  <2>6. Answered' /\ Ready' /\ Heard'
    BY <2>1 DEF IInv, Answered, Ready, Heard
  <2> QED BY <2>4, <2>5, <2>6 DEF IInv
<1>2. CASE UserLogsIn(reply)
  <2>1. /\ written' = Append(written, reply) /\ loggedIn' = TRUE /\ phase = "keyExchange"
        /\ UNCHANGED <<oauth, phase, attempts, arrived, unread, keys, events, quiet, silence>>
        /\ UNCHANGED <<total_plaintext, server_km, push_reply, shown>>
    BY <1>2 DEF UserLogsIn, parsed, WaitsForReply
  <2>2. written' \in Seq(Messages) /\ Len(written') = Len(written) + 1 /\ Len(written) \in Nat
    BY <1>0, <2>1
  <2>3. TypeOK'
    BY <1>0, <2>1, <2>2 DEF IInv, TypeOK
  <2>4. NoReplyYet' /\ Answered' /\ Ready' /\ Heard'
    BY <2>1 DEF IInv, NoReplyYet, Answered, Ready, Heard
  <2> QED BY <2>3, <2>4 DEF IInv
<1> QED BY <1>1, <1>2

\* A stretch of a sequence is a sequence over the same set.
LEMMA ArrivesIInv ==
    ASSUME IInv, TlsDataArrives
    PROVE  IInv'
<1>1. PICK n \in arrived + 1 .. Len(written) :
         unread' = SubSeq(written, arrived + 1, n) /\ arrived' = n
  BY DEF TlsDataArrives
<1>2. /\ written \in Seq(Messages) /\ arrived \in 0 .. Len(written) /\ Len(written) \in Nat
      /\ attempts \in 0 .. MaxHandshake + MaxKm /\ attempts < MaxKm /\ attempts' = attempts + 1
  BY DEF IInv, TypeOK, TlsDataArrives
<1>3. /\ UNCHANGED <<oauth, phase, written, loggedIn, keys, events, quiet, silence>>
      /\ UNCHANGED <<total_plaintext, server_km, push_reply, shown>>
  BY DEF TlsDataArrives, parsed
<1>4. \A S : written \in Seq(S) => unread' \in Seq(S)
  BY <1>1, <1>2, SubSeqProperties
<1>5. TypeOK'
  BY <1>1, <1>2, <1>3, <1>4 DEF IInv, TypeOK
<1>6. NoReplyYet'
  BY <1>3, <1>4 DEF IInv, NoReplyYet
<1>7. Answered' /\ Ready' /\ Heard'
  BY <1>3 DEF IInv, Answered, Ready, Heard
<1> QED BY <1>5, <1>6, <1>7 DEF IInv

\* A reply is recognised only where one was read.
LEMMA RecognisedReply ==
    ASSUME NEW S, NEW text \in Seq(S), Recognised(text) \in Replies
    PROVE  Recognised(text) \in S
<1>1. CASE text # << >> /\ Head(text) \in Replies
  <2>1. Head(text) \in S
    BY <1>1, HeadTailProperties
  <2> QED BY <1>1, <2>1 DEF Recognised
<1>2. CASE ~(text # << >> /\ Head(text) \in Replies)
  BY <1>2 DEF Recognised, Replies
<1> QED BY <1>1, <1>2

LEMMA ReadIInv ==
    ASSUME IInv, ReadPlaintext
    PROVE  IInv'
<1> PICK buf : buf = total_plaintext \o unread
  OBVIOUS
<1> PICK rest : rest = AfterKm(buf)
  OBVIOUS
<1> PICK found : found = IF server_km \/ StartsWithKm(buf) THEN Recognised(rest) ELSE "nothing"
  OBVIOUS
<1>1. /\ phase = "keyExchange" /\ attempts < MaxKm /\ attempts' = attempts + 1
      /\ unread' = << >>
      /\ server_km' = (server_km \/ StartsWithKm(buf))
      /\ total_plaintext' = IF found \in {"AUTH_PENDING", "WEB_AUTH"} THEN << >> ELSE rest
      /\ shown' = (shown \/ found = "WEB_AUTH")
      /\ push_reply' = CASE found = "PUSH_REPLY" -> "full"
                         [] found = "PUSH_REPLY_noIfconfig" -> "noIfconfig"
                         [] OTHER -> push_reply
      /\ phase' = CASE found = "PUSH_REPLY_bad" -> "failed"
                    [] found \in Replies \ {"PUSH_REPLY_bad"} -> "push"
                    [] OTHER -> phase
      /\ UNCHANGED <<oauth, written, arrived, loggedIn, keys, events, quiet, silence>>
  BY DEF ReadPlaintext, ParseMessages
<1>2. ASSUME NEW S, total_plaintext \in Seq(S), unread \in Seq(S)
      PROVE  rest \in Seq(S) /\ total_plaintext' \in Seq(S) /\ unread' \in Seq(S)
  <2>1. buf \in Seq(S)
    BY <1>2, ConcatProperties
  <2>2. buf # << >> => Tail(buf) \in Seq(S)
    BY <2>1, HeadTailProperties
  <2>3. rest \in Seq(S)
    BY <2>1, <2>2 DEF AfterKm, StartsWithKm
  <2>4. << >> \in Seq(S)
    BY EmptySeq
  <2> QED BY <1>1, <2>3, <2>4
<1>3. /\ push_reply' \in {"none", "full", "noIfconfig"} /\ phase' \in {"failed", "push", "keyExchange"}
      /\ phase' = "push" => found \in Replies /\ push_reply' # "none"
  BY <1>1 DEF Replies, IInv, TypeOK
<1>4. TypeOK'
  <2>1. total_plaintext' \in Seq(Messages) /\ unread' \in Seq(Messages)
    BY <1>2 DEF IInv, TypeOK
  <2>2. attempts' \in 0 .. MaxHandshake + MaxKm
    BY <1>1 DEF IInv, TypeOK
  <2>3. server_km' \in BOOLEAN /\ shown' \in BOOLEAN
    BY <1>1 DEF IInv, TypeOK
  <2> QED BY <1>1, <1>3, <2>1, <2>2, <2>3 DEF IInv, TypeOK, Phases, Receiving
<1>5. NoReplyYet'
  BY <1>1, <1>2 DEF IInv, NoReplyYet
<1>6. Answered'
  <2>1. CASE phase' # "push"
    BY <1>3, <2>1 DEF Answered
  <2>2. CASE phase' = "push"
    <3>1. (server_km \/ StartsWithKm(buf)) /\ Recognised(rest) \in Replies
      BY <1>3, <2>2 DEF Replies
    <3>2. oauth => loggedIn
      <4> SUFFICES ASSUME oauth, ~loggedIn PROVE FALSE
        OBVIOUS
      <4>1. rest \in Seq(Messages \ Replies)
        BY <1>2 DEF IInv, NoReplyYet
      <4> QED BY <3>1, <4>1, RecognisedReply
    <3>3. server_km'
      BY <1>1, <3>1
    <3> QED BY <1>1, <1>3, <3>2, <3>3 DEF Answered
  <2> QED BY <2>1, <2>2
<1>7. Ready' /\ Heard'
  BY <1>1, <1>3 DEF IInv, Ready, Heard
<1> QED BY <1>4, <1>5, <1>6, <1>7 DEF IInv

LEMMA ReportIInv ==
    ASSUME IInv, ReportConfiguration
    PROVE  IInv'
<1>1. /\ phase = "push" /\ phase' = "tun" /\ keys' = server_km /\ events' = Append(events, "PushReply")
      /\ UNCHANGED <<oauth, attempts, written, arrived, unread, loggedIn, quiet, silence>>
      /\ UNCHANGED <<total_plaintext, server_km, push_reply, shown>>
  BY DEF ReportConfiguration, tlsVars, parsed
<1>2. events' = <<"PushReply">>
  BY <1>1 DEF IInv, Heard
<1>3. TypeOK'
  <2>1. events' \in Seq({"PushReply", "Connected"})
    BY <1>2
  <2> QED BY <1>1, <2>1 DEF IInv, TypeOK, Phases, Receiving
<1>4. NoReplyYet'
  BY <1>1 DEF IInv, NoReplyYet
<1>5. Answered' /\ Ready' /\ Heard'
  BY <1>1, <1>2 DEF IInv, Answered, Ready, Heard
<1> QED BY <1>3, <1>4, <1>5 DEF IInv

LEMMA TunUpIInv ==
    ASSUME IInv, TunUp
    PROVE  IInv'
<1>1. /\ phase = "tun" /\ phase' = "dataPlane" /\ push_reply = "full" /\ silence' = 0
      /\ events' = Append(events, "Connected")
      /\ UNCHANGED <<oauth, attempts, written, arrived, unread, loggedIn, keys, quiet>>
      /\ UNCHANGED <<total_plaintext, server_km, push_reply, shown>>
  BY DEF TunUp, tlsVars, parsed
<1>2. events' = <<"PushReply", "Connected">>
  <2>1. events = <<"PushReply">>
    BY <1>1 DEF IInv, Heard
  <2>2. /\ events' \in Seq({"PushReply", "Connected"}) /\ Len(events') = 2
        /\ events'[1] = "PushReply" /\ events'[2] = "Connected"
    BY <1>1, <2>1
  <2>3. /\ <<"PushReply", "Connected">> \in Seq({"PushReply", "Connected"})
        /\ Len(<<"PushReply", "Connected">>) = 2
    OBVIOUS
  <2>4. \A i \in 1 .. 2 : events'[i] = <<"PushReply", "Connected">>[i]
    BY <2>2
  <2> QED BY <2>2, <2>3, <2>4, SeqEqual
<1>3. TypeOK'
  <2>1. events' \in Seq({"PushReply", "Connected"})
    BY <1>2
  <2> QED BY <1>1, <2>1 DEF IInv, TypeOK, Phases, Receiving
<1>4. NoReplyYet'
  BY <1>1 DEF IInv, NoReplyYet
<1>5. Answered' /\ Ready' /\ Heard'
  BY <1>1, <1>2 DEF IInv, Answered, Ready, Heard
<1> QED BY <1>3, <1>4, <1>5 DEF IInv

-----------------------------------------------------------------------------
\* The steps of the client by what they do: it returns, it reads, it tells its
\* listener something, or nothing the listener or the invariant can see.
Ends == Return("failed") \/ Return("closed")
Proceeds == HardResetAck \/ HandshakeContinues \/ HandshakeCompletes \/ NothingArrives
            \/ DataPlaneReceives \/ PingTick \/ GoQuiet

LEMMA StepKinds ==
    ASSUME Next
    PROVE  \/ Ends \/ Proceeds \/ TlsDataArrives \/ ReadPlaintext \/ ReportConfiguration \/ TunUp
           \/ \E reply \in Replies : ServerAnswers(reply) \/ UserLogsIn(reply)
<1>1. Timeout \/ ReceiveBad \/ SetupFails \/ TooManyHandshakes \/ TooManyKm \/ TunFails => Return("failed")
  BY DEF Timeout, ReceiveBad, SetupFails, TooManyHandshakes, TooManyKm, TunFails
<1>2. DataPlaneEnds => Return("closed")
  BY DEF DataPlaneEnds
<1> QED BY <1>1, <1>2 DEF Next, KeyExchange, Environment, Ends, Proceeds

LEMMA InitIInv == Init => IInv
<1> SUFFICES ASSUME Init PROVE IInv
  OBVIOUS
<1>1. << >> \in Seq(Messages) /\ << >> \in Seq(Messages \ Replies)
      /\ << >> \in Seq({"PushReply", "Connected"}) /\ Len(<< >>) = 0
  BY EmptySeq
<1>2. TypeOK
  <2>1. 0 \in 0 .. MaxHandshake + MaxKm /\ 0 \in 0 .. PingRestart + 1 /\ 0 \in 0 .. 0
    OBVIOUS
  <2>2. arrived \in 0 .. Len(written) /\ attempts \in 0 .. MaxHandshake + MaxKm
        /\ silence \in 0 .. PingRestart + 1
    BY <1>1, <2>1 DEF Init
  <2> QED BY <1>1, <2>2 DEF Init, TypeOK, Phases, Receiving
<1>3. NoReplyYet /\ Answered /\ Ready /\ Heard
  BY <1>1 DEF Init, NoReplyYet, Answered, Ready, Heard
<1> QED BY <1>2, <1>3 DEF IInv

LEMMA NextIInv == IInv /\ [Next]_vars => IInv'
<1> SUFFICES ASSUME IInv, [Next]_vars PROVE IInv'
  OBVIOUS
<1>1. CASE Ends
  BY <1>1, ReturnIInv DEF Ends
<1>2. CASE Proceeds
  BY <1>2, SetupIInv DEF Proceeds
<1>3. CASE TlsDataArrives
  BY <1>3, ArrivesIInv
<1>4. CASE ReadPlaintext
  BY <1>4, ReadIInv
<1>5. CASE ReportConfiguration
  BY <1>5, ReportIInv
<1>6. CASE TunUp
  BY <1>6, TunUpIInv
<1>7. CASE \E reply \in Replies : ServerAnswers(reply) \/ UserLogsIn(reply)
  BY <1>7, ServerIInv
<1>8. CASE UNCHANGED vars
  BY <1>8, QuietIInv DEF vars, IInv, TypeOK
<1> QED BY <1>1, <1>2, <1>3, <1>4, <1>5, <1>6, <1>7, <1>8, StepKinds

\* The phase, the events, the reply and the login agree in every state of an
\* attempt.
THEOREM Invariance == Spec => []IInv
BY InitIInv, NextIInv, PTL DEF Spec

\* The data plane has keys, an address from the server, and the login.
THEOREM DataPlaneReady == Spec => []DataPlaneIsReady
<1>1. IInv => DataPlaneIsReady
  BY DEF IInv, Ready, Answered, DataPlaneIsReady
<1> QED BY <1>1, Invariance, PTL

-----------------------------------------------------------------------------
(***************************************************************************)
(* The refinement.                                                         *)
(***************************************************************************)
\* What the listener has heard, by phase.
StagePhase ==
    /\ phase \in {"reset", "handshake", "keyExchange", "push"} => Stage = "connecting"
    /\ phase = "tun" => Stage = IF push_reply = "full" THEN "configured" ELSE "unaddressed"
    /\ phase = "dataPlane" => Stage = "connected"
    /\ phase \in {"closed", "failed"} => Stage = "ended"

LEMMA StageByPhase == IInv => StagePhase
<1> SUFFICES ASSUME IInv PROVE StagePhase
  OBVIOUS
<1>1. <<"PushReply">>[Len(<<"PushReply">>)] = "PushReply" /\ <<"PushReply">> # << >>
  OBVIOUS
<1>2. /\ <<"PushReply", "Connected">>[Len(<<"PushReply", "Connected">>)] = "Connected"
      /\ <<"PushReply", "Connected">> # << >>
  OBVIOUS
<1>3. phase \in {"reset", "handshake", "keyExchange", "push"} => Stage = "connecting"
  BY DEF IInv, Heard, Stage
<1>4. phase = "tun" => Stage = IF push_reply = "full" THEN "configured" ELSE "unaddressed"
  BY <1>1 DEF IInv, Heard, Stage
<1>5. phase = "dataPlane" => Stage = "connected"
  BY <1>2 DEF IInv, Heard, Stage
<1> QED BY <1>3, <1>4, <1>5 DEF Stage, StagePhase

\* Every step of an attempt is a step of ClientTask or changes nothing for its
\* listener.
LEMMA StepRefines ==
    ASSUME IInv, IInv', [Next]_vars
    PROVE  [Task!Next]_Stage
<1>0. phase \in Phases /\ phase' \in Phases
  BY DEF IInv, TypeOK
<1>s. StagePhase
  BY StageByPhase
<1>t. StagePhase'
  BY StageByPhase, PTL
<1>1. ASSUME phase' \in {"closed", "failed"}
      PROVE  [Task!Next]_Stage
  BY <1>1, <1>t DEF StagePhase, Task!Next, Task!End
<1>2. ASSUME phase' = phase, UNCHANGED push_reply
      PROVE  [Task!Next]_Stage
  BY <1>0, <1>2, <1>s, <1>t DEF StagePhase, Phases, Receiving
<1>3. ASSUME phase \in {"reset", "handshake", "keyExchange"},
             phase' \in {"reset", "handshake", "keyExchange", "push"}
      PROVE  [Task!Next]_Stage
  BY <1>3, <1>s, <1>t DEF StagePhase
<1>4. CASE Ends
  BY <1>1, <1>4 DEF Ends, Return
<1>5. CASE Proceeds
  BY <1>1, <1>2, <1>3, <1>5 DEF Proceeds, HardResetAck, HandshakeContinues, HandshakeCompletes,
        NothingArrives, DataPlaneReceives, PingTick, GoQuiet, parsed
<1>6. CASE TlsDataArrives
  BY <1>2, <1>6 DEF TlsDataArrives, parsed
<1>7. CASE ReadPlaintext
  BY <1>1, <1>3, <1>7 DEF ReadPlaintext, ParseMessages
<1>8. CASE ReportConfiguration
  <2>1. phase = "push" /\ phase' = "tun"
    BY <1>8 DEF ReportConfiguration
  <2> QED BY <2>1, <1>s, <1>t DEF StagePhase, Task!Next, Task!Configure
<1>9. CASE TunUp
  <2>1. phase = "tun" /\ phase' = "dataPlane" /\ push_reply = "full"
    BY <1>9 DEF TunUp
  <2> QED BY <2>1, <1>s, <1>t DEF StagePhase, Task!Next, Task!Connect
<1>10. CASE \E reply \in Replies : ServerAnswers(reply) \/ UserLogsIn(reply)
  BY <1>2, <1>10 DEF ServerAnswers, UserLogsIn, parsed
<1>11. CASE UNCHANGED vars
  BY <1>2, <1>11 DEF vars, parsed
<1> QED BY <1>4, <1>5, <1>6, <1>7, <1>8, <1>9, <1>10, <1>11, StepKinds

\* connect_with_info implements ClientTask, on which the NetworkManager plugin
\* relies.
THEOREM TaskImplemented == Spec => TaskSpec
<1>1. Init => Task!Init
  BY DEF Init, Task!Init, Stage
<1>2. IInv /\ IInv' /\ [Next]_vars => [Task!Next]_Stage
  BY StepRefines
<1> QED BY <1>1, <1>2, Invariance, PTL DEF Spec, TaskSpec, Task!Spec

-----------------------------------------------------------------------------
(***************************************************************************)
(* The plugin.                                                             *)
(***************************************************************************)
Configuration == {"Config", "Ip4Config"}

\* The events a task has yet to receive from its client: what is left of the
\* order ClientTask promises.
Backlogs == { << >>, <<"PushReply">>, <<"PushReplyNoIfconfig">>, <<"Connected">>,
              <<"PushReply", "Connected">> }

\* A task that still listens has signalled the configuration, unless its event is
\* still to come; and "Connected" comes only after it.
Listens(t) ==
    /\ event_rx[t] \in Backlogs
    /\ client[t] = "connecting" => event_rx[t] = << >>
    /\ client[t] = "configured" =>
          \/ event_rx[t] = <<"PushReply">>
          \/ event_rx[t] = << >> /\ Configuration \subseteq signals[t]
    /\ event_rx[t] = <<"Connected">> => Configuration \subseteq signals[t]

\* Where the tasks can be.
Shape ==
    /\ spawned \in Nat
    /\ pc \in [Tasks -> {"none", "recv", "started", "reporting", "failing", "gone"}]
    /\ client \in [Tasks -> {"connecting", "configured", "unaddressed", "connected", "ended"}]
    /\ event_rx \in [Tasks -> Seq(Events)]
    /\ signals \in [Tasks -> SUBSET Signals]
    /\ \A t \in Tasks : t > spawned => pc[t] = "none"

PluginInv ==
    /\ Shape
    /\ \A t \in Tasks : pc[t] \notin {"failing", "gone"} => Listens(t)
    /\ StartedIsConfigured

USE PluginAssumption

-----------------------------------------------------------------------------
\* The sequences of events in question.
LEMMA Backlog ==
    /\ Append(<< >>, "PushReply") = <<"PushReply">>
    /\ Append(<< >>, "PushReplyNoIfconfig") = <<"PushReplyNoIfconfig">>
    /\ Append(<< >>, "Connected") = <<"Connected">>
    /\ Append(<<"PushReply">>, "Connected") = <<"PushReply", "Connected">>
    /\ Head(<<"PushReply">>) = "PushReply" /\ Tail(<<"PushReply">>) = << >>
    /\ Head(<<"PushReplyNoIfconfig">>) = "PushReplyNoIfconfig" /\ Tail(<<"PushReplyNoIfconfig">>) = << >>
    /\ Head(<<"Connected">>) = "Connected" /\ Tail(<<"Connected">>) = << >>
    /\ Head(<<"PushReply", "Connected">>) = "PushReply"
    /\ Tail(<<"PushReply", "Connected">>) = <<"Connected">>
    /\ <<"PushReply">> # << >> /\ <<"PushReplyNoIfconfig">> # << >> /\ <<"Connected">> # << >>
    /\ <<"PushReply", "Connected">> # << >>
    /\ <<"PushReply">> # <<"Connected">> /\ <<"PushReplyNoIfconfig">> # <<"Connected">>
    /\ <<"PushReply", "Connected">> # <<"Connected">>
<1>1. Append(<< >>, "PushReply") = <<"PushReply">>
  OBVIOUS
<1>2. Append(<< >>, "PushReplyNoIfconfig") = <<"PushReplyNoIfconfig">>
  OBVIOUS
<1>3. Append(<< >>, "Connected") = <<"Connected">>
  OBVIOUS
<1>4. Append(<<"PushReply">>, "Connected") = <<"PushReply", "Connected">>
  <2> DEFINE s == Append(<<"PushReply">>, "Connected")
             u == <<"PushReply", "Connected">>
  <2>1. /\ s \in Seq({"PushReply", "Connected"}) /\ Len(s) = 2
        /\ s[1] = "PushReply" /\ s[2] = "Connected"
    OBVIOUS
  <2>2. u \in Seq({"PushReply", "Connected"}) /\ Len(u) = 2 /\ u[1] = "PushReply" /\ u[2] = "Connected"
    OBVIOUS
  <2>3. \A i \in 1 .. 2 : s[i] = u[i]
    BY <2>1, <2>2
  <2> HIDE DEF s, u
  <2>4. s = u
    BY <2>1, <2>2, <2>3, SeqEqual
  <2> QED BY <2>4 DEF s, u
<1>5. /\ Head(<<"PushReply">>) = "PushReply" /\ Tail(<<"PushReply">>) = << >>
      /\ Head(<<"PushReplyNoIfconfig">>) = "PushReplyNoIfconfig" /\ Tail(<<"PushReplyNoIfconfig">>) = << >>
      /\ Head(<<"Connected">>) = "Connected" /\ Tail(<<"Connected">>) = << >>
      /\ Head(<<"PushReply", "Connected">>) = "PushReply"
  OBVIOUS
<1>6. Tail(<<"PushReply", "Connected">>) = <<"Connected">>
  <2> DEFINE s == Tail(<<"PushReply", "Connected">>)
             u == <<"Connected">>
  <2>1. s \in Seq({"PushReply", "Connected"}) /\ Len(s) = 1 /\ s[1] = "Connected"
    OBVIOUS
  <2>2. u \in Seq({"PushReply", "Connected"}) /\ Len(u) = 1 /\ u[1] = "Connected"
    OBVIOUS
  <2>3. \A i \in 1 .. 1 : s[i] = u[i]
    BY <2>1, <2>2
  <2> HIDE DEF s, u
  <2>4. s = u
    BY <2>1, <2>2, <2>3, SeqEqual
  <2> QED BY <2>4 DEF s, u
<1>7. /\ <<"PushReply">> # << >> /\ <<"PushReplyNoIfconfig">> # << >> /\ <<"Connected">> # << >>
      /\ <<"PushReply", "Connected">> # << >>
      /\ <<"PushReply">> # <<"Connected">> /\ <<"PushReplyNoIfconfig">> # <<"Connected">>
      /\ <<"PushReply", "Connected">> # <<"Connected">>
  OBVIOUS
<1> QED BY <1>1, <1>2, <1>3, <1>4, <1>5, <1>6, <1>7

\* Steps that neither send, receive nor signal, and revive no task.
LEMMA PluginQuietInv ==
    ASSUME PluginInv, UNCHANGED <<client, event_rx, signals>>, Shape',
           \A t \in Tasks : pc'[t] \notin {"failing", "gone"} => pc[t] \notin {"failing", "gone"}
    PROVE  PluginInv'
<1>1. \A t \in Tasks : pc'[t] \notin {"failing", "gone"} => Listens(t)'
  BY DEF PluginInv, Listens
<1>2. StartedIsConfigured'
  BY DEF PluginInv, StartedIsConfigured
<1> QED BY <1>1, <1>2 DEF PluginInv

\* A task moves on.
LEMMA GotoInv ==
    ASSUME PluginInv, NEW t \in Tasks, pc[t] # "none",
           NEW p \in {"recv", "started", "reporting", "failing", "gone"},
           p \in {"failing", "gone"} \/ pc[t] \notin {"failing", "gone"},
           Goto(t, p), UNCHANGED <<spawned, client, event_rx, signals>>
    PROVE  PluginInv'
<1>1. Shape'
  BY DEF PluginInv, Shape, Goto
<1> QED BY <1>1, PluginQuietInv DEF PluginInv, Shape, Goto

LEMMA CallInv ==
    ASSUME PluginInv, NEW c \in Callers,
           (\E s \in Settings : Connect(c, s)) \/ Disconnect(c) \/ CallStep(c)
    PROVE  PluginInv'
<1>1. CASE ConnectSpawn(c)
  <2>1. /\ spawned' = spawned + 1 /\ pc' = [pc EXCEPT ![spawned + 1] = "recv"]
        /\ UNCHANGED <<client, event_rx, signals>>
    BY <1>1 DEF ConnectSpawn
  <2>2. /\ spawned \in Nat /\ \A t \in Tasks : t \in Nat /\ (t > spawned => pc[t] = "none")
        /\ pc \in [Tasks -> {"none", "recv", "started", "reporting", "failing", "gone"}]
    BY DEF PluginInv, Shape, Tasks
  <2>3. \A t \in Tasks : pc'[t] = IF t = spawned + 1 THEN "recv" ELSE pc[t]
    BY <2>1, <2>2
  <2>4. Shape'
    <3>1. pc' \in [Tasks -> {"none", "recv", "started", "reporting", "failing", "gone"}]
      BY <2>1, <2>2
    <3>2. \A t \in Tasks : t > spawned' => pc'[t] = "none"
      BY <2>1, <2>2, <2>3
    <3> QED BY <2>1, <2>2, <3>1, <3>2 DEF PluginInv, Shape
  <2>5. \A t \in Tasks : pc'[t] \notin {"failing", "gone"} => pc[t] \notin {"failing", "gone"}
    BY <2>2, <2>3
  <2> QED BY <2>1, <2>4, <2>5, PluginQuietInv
<1>2. CASE (\E s \in Settings : Connect(c, s)) \/ Disconnect(c) \/ ConnectStore(c) \/ DisconnectAbort(c)
  <2>1. UNCHANGED <<spawned, pc, client, event_rx, signals>>
    BY <1>2 DEF Connect, Disconnect, ConnectStore, DisconnectAbort, taskVars
  <2>2. Shape'
    BY <2>1 DEF PluginInv, Shape
  <2> QED BY <2>1, <2>2, PluginQuietInv
<1> QED BY <1>1, <1>2 DEF CallStep

\* The client sends its events in the order ClientTask allows.
LEMMA ClientInv ==
    ASSUME PluginInv, NEW t \in Tasks, ClientStep(t)
    PROVE  PluginInv'
<1>1. PICK s \in {"configured", "unaddressed", "connected", "ended"} :
         /\ client' = [client EXCEPT ![t] = s]
         /\ event_rx' = [event_rx EXCEPT ![t] =
                CASE s = "configured" -> Append(event_rx[t], "PushReply")
                  [] s = "unaddressed" -> Append(event_rx[t], "PushReplyNoIfconfig")
                  [] s = "connected" -> Append(event_rx[t], "Connected")
                  [] OTHER -> event_rx[t]]
         /\ Client(t)!Next
  BY DEF ClientStep
<1>2. /\ client \in [Tasks -> {"connecting", "configured", "unaddressed", "connected", "ended"}]
      /\ event_rx \in [Tasks -> Seq(Events)] /\ event_rx[t] \in Seq(Events)
  BY DEF PluginInv, Shape
<1>3. client'[t] = s /\ \A u \in Tasks \ {t} : client'[u] = client[u] /\ event_rx'[u] = event_rx[u]
  BY <1>1, <1>2
<1>4. \/ client[t] = "connecting" /\ s \in {"configured", "unaddressed"}
      \/ client[t] = "configured" /\ s = "connected"
      \/ s = "ended"
  BY <1>1, <1>3 DEF Client!Next, Client!Configure, Client!Connect, Client!End
<1>5. UNCHANGED <<spawned, pc, signals>>
  BY DEF ClientStep
<1>6. event_rx'[t] = CASE s = "configured" -> Append(event_rx[t], "PushReply")
                       [] s = "unaddressed" -> Append(event_rx[t], "PushReplyNoIfconfig")
                       [] s = "connected" -> Append(event_rx[t], "Connected")
                       [] OTHER -> event_rx[t]
  BY <1>1, <1>2
<1>7. Shape'
  <2>1. event_rx'[t] \in Seq(Events)
    <3>1. \A e \in Events : Append(event_rx[t], e) \in Seq(Events)
      BY <1>2, AppendProperties
    <3> QED BY <1>2, <1>6, <3>1 DEF Events
  <2>2. event_rx' \in [Tasks -> Seq(Events)]
    BY <1>1, <1>2, <1>6, <2>1
  <2>3. client' \in [Tasks -> {"connecting", "configured", "unaddressed", "connected", "ended"}]
    BY <1>1, <1>2
  <2> QED BY <1>5, <2>2, <2>3 DEF PluginInv, Shape
<1>8. ASSUME NEW u \in Tasks, pc'[u] \notin {"failing", "gone"}
      PROVE  Listens(u)'
  <2>1. Listens(u)
    BY <1>5, <1>8 DEF PluginInv
  <2>2. CASE u # t
    BY <1>3, <1>5, <2>1, <2>2 DEF Listens
  <2>3. CASE u = t
    <3>1. CASE client[t] = "connecting" /\ s = "configured"
      <4>1. event_rx[t] = << >>
        BY <2>1, <2>3, <3>1 DEF Listens
      <4>2. event_rx'[t] = <<"PushReply">>
        BY <1>6, <3>1, <4>1, Backlog
      <4> QED BY <1>3, <2>3, <3>1, <4>2, Backlog DEF Listens, Backlogs
    <3>2. CASE client[t] = "connecting" /\ s = "unaddressed"
      <4>1. event_rx[t] = << >>
        BY <2>1, <2>3, <3>2 DEF Listens
      <4>2. event_rx'[t] = <<"PushReplyNoIfconfig">>
        BY <1>6, <3>2, <4>1, Backlog
      <4> QED BY <1>3, <2>3, <3>2, <4>2, Backlog DEF Listens, Backlogs
    <3>3. CASE client[t] = "configured" /\ s = "connected"
      <4>1. event_rx'[t] = Append(event_rx[t], "Connected")
        BY <1>6, <3>3
      <4>2. \/ event_rx[t] = <<"PushReply">>
            \/ event_rx[t] = << >> /\ Configuration \subseteq signals[t]
        BY <2>1, <2>3, <3>3 DEF Listens
      <4>3. CASE event_rx[t] = <<"PushReply">>
        <5>1. event_rx'[t] = <<"PushReply", "Connected">>
          BY <4>1, <4>3, Backlog
        <5> QED BY <1>3, <2>3, <3>3, <5>1, Backlog DEF Listens, Backlogs
      <4>4. CASE event_rx[t] = << >> /\ Configuration \subseteq signals[t]
        <5>1. event_rx'[t] = <<"Connected">>
          BY <4>1, <4>4, Backlog
        <5> QED BY <1>3, <1>5, <2>3, <3>3, <4>4, <5>1, Backlog DEF Listens, Backlogs
      <4> QED BY <4>2, <4>3, <4>4
    <3>4. CASE s = "ended"
      <4>1. event_rx'[t] = event_rx[t]
        BY <1>6, <3>4
      <4> QED BY <1>3, <1>5, <2>1, <2>3, <3>4, <4>1 DEF Listens
    <3> QED BY <1>4, <3>1, <3>2, <3>3, <3>4
  <2> QED BY <2>2, <2>3
<1>9. StartedIsConfigured'
  BY <1>5 DEF PluginInv, StartedIsConfigured
<1> QED BY <1>7, <1>8, <1>9 DEF PluginInv

\* What a task signals leaves the others alone.
LEMMA EmitInv ==
    ASSUME PluginInv, NEW t \in Tasks, NEW e \in Events, Received(t, e), NEW sigs \in SUBSET Signals,
           NEW p \in {"recv", "started", "failing"},
           signals' = [signals EXCEPT ![t] = signals[t] \cup sigs],
           pc' = [pc EXCEPT ![t] = p], UNCHANGED <<spawned, client>>,
           p # "failing" => (e = "PushReply" => sigs = Configuration) /\ (e = "PushReplyNoIfconfig" => "STARTED" \notin sigs),
           e # "Connected" => "STARTED" \notin sigs
    PROVE  PluginInv'
<1>1. /\ pc[t] = "recv" /\ event_rx[t] # << >> /\ Head(event_rx[t]) = e
      /\ event_rx' = [event_rx EXCEPT ![t] = Tail(event_rx[t])]
  BY DEF Received
<1>2. Shape /\ Listens(t)
  BY <1>1 DEF PluginInv
<1>3. /\ event_rx'[t] = Tail(event_rx[t]) /\ signals'[t] = signals[t] \cup sigs /\ pc'[t] = p
      /\ \A u \in Tasks \ {t} : event_rx'[u] = event_rx[u] /\ signals'[u] = signals[u] /\ pc'[u] = pc[u]
  BY <1>1, <1>2 DEF Shape
<1>4. Shape'
  <2>1. Tail(event_rx[t]) \in Seq(Events)
    BY <1>1, <1>2, HeadTailProperties DEF Shape
  <2>2. event_rx' \in [Tasks -> Seq(Events)]
    BY <1>1, <1>2, <2>1 DEF Shape
  <2>3. /\ signals' \in [Tasks -> SUBSET Signals]
        /\ pc' \in [Tasks -> {"none", "recv", "started", "reporting", "failing", "gone"}]
    BY <1>2 DEF Shape
  <2>4. \A u \in Tasks : u > spawned' => pc'[u] = "none"
    BY <1>1, <1>2, <1>3 DEF Shape
  <2> QED BY <1>2, <2>2, <2>3, <2>4 DEF Shape
<1>5. \/ event_rx[t] = <<"PushReply">> /\ e = "PushReply" /\ event_rx'[t] = << >>
      \/ event_rx[t] = <<"PushReplyNoIfconfig">> /\ e = "PushReplyNoIfconfig" /\ event_rx'[t] = << >>
      \/ event_rx[t] = <<"Connected">> /\ e = "Connected" /\ event_rx'[t] = << >>
      \/ event_rx[t] = <<"PushReply", "Connected">> /\ e = "PushReply" /\ event_rx'[t] = <<"Connected">>
  BY <1>1, <1>2, <1>3, Backlog DEF Listens, Backlogs
<1>6. ASSUME NEW u \in Tasks, pc'[u] \notin {"failing", "gone"}
      PROVE  Listens(u)'
  <2>1. CASE u # t
    BY <1>3, <1>6, <2>1 DEF PluginInv, Listens
  <2>2. CASE u = t
    <3>1. event_rx'[t] \in Backlogs
      BY <1>5 DEF Backlogs
    <3>2. client[t] # "connecting"
      BY <1>1, <1>2 DEF Listens
    <3>3. client[t] = "configured" => event_rx'[t] = << >> /\ Configuration \subseteq signals'[t]
      BY <1>2, <1>3, <1>5, <1>6, <2>2, Backlog DEF Listens
    <3>4. event_rx'[t] = <<"Connected">> => Configuration \subseteq signals'[t]
      BY <1>3, <1>5, <1>6, <2>2, Backlog
    <3> QED BY <2>2, <3>1, <3>2, <3>3, <3>4 DEF Listens
  <2> QED BY <2>1, <2>2
<1>7. StartedIsConfigured'
  <2>1. "STARTED" \in signals'[t] => Configuration \subseteq signals'[t]
    <3>1. CASE "STARTED" \in signals[t]
      BY <1>3, <3>1 DEF PluginInv, StartedIsConfigured, Configuration
    <3>2. CASE "STARTED" \in sigs
      BY <1>2, <1>3, <1>5, <3>2 DEF Listens
    <3> QED BY <1>3, <3>1, <3>2
  <2> QED BY <1>3, <2>1 DEF PluginInv, StartedIsConfigured, Configuration
<1> QED BY <1>4, <1>6, <1>7 DEF PluginInv

LEMMA TaskInv ==
    ASSUME PluginInv, NEW t \in Tasks, TaskStep(t)
    PROVE  PluginInv'
<1>0. /\ pc \in [Tasks -> {"none", "recv", "started", "reporting", "failing", "gone"}]
      /\ signals \in [Tasks -> SUBSET Signals]
  BY DEF PluginInv, Shape
<1>1. CASE ReceivePushReply(t)
  <2>1. pc[t] = "recv" /\ pc' = [pc EXCEPT ![t] = "recv"] /\ UNCHANGED <<spawned, client>>
    BY <1>0, <1>1 DEF ReceivePushReply, Received
  <2>2. CASE Received(t, "PushReply") /\ Emit(t, {"Config", "Ip4Config"})
    BY <2>1, <2>2, EmitInv DEF Emit, Events, Signals, Configuration
  <2>3. CASE Received(t, "PushReplyNoIfconfig") /\ Emit(t, {"Config"})
    BY <2>1, <2>3, EmitInv DEF Emit, Events, Signals
  <2> QED BY <1>1, <2>2, <2>3 DEF ReceivePushReply
<1>2. CASE ReceiveConnected(t)
  BY <1>2, EmitInv DEF ReceiveConnected, Emit, Goto, Events, Signals
<1>3. CASE EmitFails(t)
  <2>1. pc' = [pc EXCEPT ![t] = "failing"] /\ UNCHANGED <<spawned, client>>
    BY <1>3 DEF EmitFails, Goto
  <2>2. ASSUME NEW e \in Events, Received(t, e), UNCHANGED signals
        PROVE  PluginInv'
    <3>1. signals' = [signals EXCEPT ![t] = signals[t] \cup {}]
      BY <1>0, <2>2
    <3> QED BY <2>1, <2>2, <3>1, EmitInv
  <2>3. CASE Received(t, "PushReply") /\ Emit(t, {"Config"})
    BY <2>1, <2>3, EmitInv DEF Emit, Events, Signals
  <2> QED BY <1>3, <2>2, <2>3 DEF EmitFails
<1>4. CASE SetStarted(t) \/ ChannelClosed(t)
  BY <1>4, GotoInv DEF SetStarted, ChannelClosed
<1>5. CASE ReportStopped(t)
  <2> DEFINE p == IF result[t] = "ok" THEN "gone" ELSE "failing"
  <2>1. p \in {"failing", "gone"} /\ Goto(t, p) /\ pc[t] # "none"
        /\ UNCHANGED <<spawned, client, event_rx, signals>>
    BY <1>5 DEF ReportStopped
  <2> HIDE DEF p
  <2> QED BY <2>1, GotoInv
<1>6. CASE emit_failure_signals(t)
  BY <1>6, GotoInv DEF emit_failure_signals
<1> QED BY <1>1, <1>2, <1>3, <1>4, <1>5, <1>6 DEF TaskStep

LEMMA PluginInitInv == PluginInit => PluginInv
<1> SUFFICES ASSUME PluginInit PROVE PluginInv
  OBVIOUS
<1>1. Shape
  <2>1. << >> \in Seq(Events)
    BY EmptySeq
  <2> QED BY <2>1 DEF PluginInit, Shape
<1>2. \A t \in Tasks : Listens(t)
  BY Backlog DEF PluginInit, Listens, Backlogs
<1>3. StartedIsConfigured
  BY DEF PluginInit, StartedIsConfigured
<1> QED BY <1>1, <1>2, <1>3 DEF PluginInv

LEMMA PluginNextInv == PluginInv /\ [PluginNext]_pluginVars => PluginInv'
<1> SUFFICES ASSUME PluginInv, [PluginNext]_pluginVars PROVE PluginInv'
  OBVIOUS
<1>1. ASSUME NEW c \in Callers, (\E s \in Settings : Connect(c, s)) \/ Disconnect(c) \/ CallStep(c)
      PROVE  PluginInv'
  BY <1>1, CallInv
<1>2. ASSUME NEW t \in Tasks, Die(t) \/ ClientStep(t) \/ TaskStep(t)
      PROVE  PluginInv'
  <2>1. CASE Die(t)
    BY <2>1, GotoInv DEF Die, Running
  <2> QED BY <1>2, <2>1, ClientInv, TaskInv
<1>3. CASE UNCHANGED pluginVars
  <2>1. UNCHANGED <<spawned, pc, client, event_rx, signals>>
    BY <1>3 DEF pluginVars, taskVars
  <2>2. Shape'
    BY <2>1 DEF PluginInv, Shape
  <2> QED BY <2>1, <2>2, PluginQuietInv
<1> QED BY <1>1, <1>2, <1>3 DEF PluginNext

\* The tasks, their clients, the events between them and the signals agree in
\* every state the plugin reaches.
THEOREM PluginInvariance == PluginSpec => []PluginInv
BY PluginInitInv, PluginNextInv, PTL DEF PluginSpec

\* STARTED follows Config and Ip4Config of the same client, for any number of
\* calls and attempts.
THEOREM StartedConfigured == PluginSpec => []StartedIsConfigured
<1>1. PluginInv => StartedIsConfigured
  BY DEF PluginInv
<1> QED BY <1>1, PluginInvariance, PTL
=============================================================================
