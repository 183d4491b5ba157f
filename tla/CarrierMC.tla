------------------------------ MODULE CarrierMC ------------------------------
(***************************************************************************)
(* The pumps of one exchange in the modes with a single request, and the   *)
(* client that splits an upload into requests, one at a time: "part" says  *)
(* which of them runs.                                                     *)
(***************************************************************************)
EXTENDS Carrier

CONSTANTS
  ClientModes, PathPrefixes, Placements, SeqPlacements, Pins, Host, Sid, Chunks, Pipe, None,  \* CarrierClient
  store                                                                      \* a segment of a path

VARIABLES part, cfg, unsent, upPipe, closed, upTask, seq, post, taken, seen, lost, dial

Cc == INSTANCE CarrierClient WITH Modes <- ClientModes, pipe <- upPipe, task <- upTask

MCMaxWrites == [c |-> 1, s |-> 2]

\* with and without a last slash
MCPrefixes == {<<"/">>, <<"/", store>>, <<"/", store, "/">>}
MCHost == [name |-> "edge", port |-> None]
MCPins == {None, [name |-> "edge", port |-> 443]}
MCChunks == <<"a", "b", "c">>

-----------------------------------------------------------------------------
clientVars == <<cfg, unsent, upPipe, closed, upTask, seq, post, taken, seen, lost, dial>>

PartsInit ==
  /\ part \in {"exchange", "client"}
  /\ mode \in (IF part = "exchange" THEN Modes ELSE {"h1"})
  /\ asks \in (IF part = "exchange" THEN {"tunnel", "other"} ELSE {"tunnel"})
  /\ decoy \in (IF part = "exchange" THEN BOOLEAN ELSE {FALSE})
  /\ cfg \in [mode : IF part = "client" THEN ClientModes ELSE {"stream-up"},
              prefix : IF part = "client" THEN PathPrefixes ELSE {<<"/">>},
              sid : IF part = "client" THEN Placements ELSE {"path"},
              seq : IF part = "client" THEN SeqPlacements ELSE {"header"},
              pin : IF part = "client" THEN Pins ELSE {None}]
  \* nothing else depends on the pin
  /\ cfg.pin # None => cfg.sid = "path" /\ cfg.seq = "header"
  /\ Init /\ Cc!Init

PartsNext ==
  \/ part = "exchange" /\ Next /\ UNCHANGED <<part, clientVars>>
  \/ part = "client" /\ Cc!Next /\ UNCHANGED <<part, vars>>
  \* the writes of an exchange are bounded, so it may stop
  \/ part = "exchange" /\ UNCHANGED <<part, vars, clientVars>>

\* The client has no liveness property here, and no fairness.
PartsSpec == PartsInit /\ [][PartsNext]_<<part, vars, clientVars>> /\ Fairness

-----------------------------------------------------------------------------
(* The property of the client, stated and explained in CarrierClient *)

\* What the server has is what the user wrote.
UploadComplete == part = "client" => Cc!UploadComplete
=============================================================================
