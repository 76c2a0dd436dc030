----------------------------- MODULE ClientTask -----------------------------
(***************************************************************************)
(* What a connection attempt of the native client promises to those who    *)
(* listen to its events, the NetworkManager plugin among them: first the   *)
(* network configuration, with or without an address, then, only if it had *)
(* one, the news that the tunnel is up, each once, and an end that may     *)
(* come at any time and is final.                                          *)
(***************************************************************************)
VARIABLE stage

Stages == {"connecting", "configured", "unaddressed", "connected", "ended"}

Init == stage = "connecting"

\* ConnectionEvent::PushReply is sent.
Configure == stage = "connecting" /\ stage' \in {"configured", "unaddressed"}

\* ConnectionEvent::Connected is sent.
Connect == stage = "configured" /\ stage' = "connected"

\* connect_with_info returns, with or without an error.
End == stage # "ended" /\ stage' = "ended"

Next == Configure \/ Connect \/ End

Spec == Init /\ [][Next]_stage
=============================================================================
