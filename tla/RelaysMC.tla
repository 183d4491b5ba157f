------------------------------- MODULE RelaysMC -------------------------------
(***************************************************************************)
(* What the bytes of a session go through on the server, one at a time:    *)
(* the padding of a Vision stream, the splice that takes it off, the relay *)
(* that does not splice, and the adapter in front of the target that cuts  *)
(* the first record.  "part" says which of them runs.                      *)
(***************************************************************************)
EXTENDS FragmentWriter, VisionSplice

CONSTANTS
  PlainUp, PlainDown, MaxEmpty, Cap,                                     \* PlainRelay
  Uuid, Streams, MaxPad, Seed, BufSize, PadFrames, Base, ReadMax         \* Padding

VARIABLES
  part,
  echo, wrapped, records, units, empties, clientFin, loop, tunnelDone, targetDone,
  tin, tinFin, got, owing, answers, targetFin, tout, back, backFin,
  codec, plain, todo, src, frames, size, framing, tunnel, sent, dec, un, vun, unpadded, vout, ended

Pr == INSTANCE PlainRelay WITH MaxUp <- PlainUp, MaxDown <- PlainDown, wire <- records, csent <- units,
                               cfin <- clientFin, pc <- loop, tsent <- answers, tfin <- targetFin
Pd == INSTANCE Padding WITH wire <- tunnel, out <- unpadded

-----------------------------------------------------------------------------
MCUuid == <<7, 8>>
MCSeed == <<3, 3, 3, 2>>
\* streams that start like the id, hold bytes that look like headers, and have empty reads
MCStreams == {<<>>, <<<<9>>>>, <<<<7>>, <<1, 0>>, <<2>>>>, <<<<7, 9, 1>>, <<0, 0, 0>>, <<5, 6>>>>,
              <<<<>>, <<3, 0>>, <<0, 0, 0>>>>}

plainVars == <<echo, wrapped, records, units, empties, clientFin, loop, tunnelDone, targetDone,
               tin, tinFin, got, owing, answers, targetFin, tout, back, backFin>>
paddingVars == <<codec, plain, todo, src, frames, size, framing, tunnel, sent, dec, un, vun,
                 unpadded, vout, ended>>

PartsInit ==
  /\ part \in {"fragment", "splice", "plain", "padding"}
  /\ first \in (IF part = "fragment" THEN Firsts ELSE {"other"})
  /\ len \in (IF part = "fragment" THEN HeaderLen..MaxRecord ELSE {HeaderLen})
  /\ echo \in (IF part = "plain" THEN BOOLEAN ELSE {FALSE})
  /\ wrapped \in (IF part = "plain" THEN BOOLEAN ELSE {FALSE})
  /\ units \in (IF part = "plain" THEN {0, 1} ELSE {0})
  /\ todo \in (IF part = "padding" THEN Streams ELSE {<<>>})
  /\ codec \in (IF part = "padding" THEN {"donut", "xray"} ELSE {"donut"})
  /\ FragmentInit /\ SpliceInit /\ Pr!Init /\ Pd!Init

PartsNext ==
  \/ part = "fragment" /\ FragmentNext /\ UNCHANGED <<part, spliceVars, plainVars, paddingVars>>
  \/ part = "splice" /\ SpliceNext /\ UNCHANGED <<part, fragmentVars, plainVars, paddingVars>>
  \/ part = "plain" /\ Pr!Next /\ UNCHANGED <<part, fragmentVars, spliceVars, paddingVars>>
  \/ part = "padding" /\ Pd!Next /\ UNCHANGED <<part, fragmentVars, spliceVars, plainVars>>
  \* the peers of the other three may fall silent
  \/ part # "padding" /\ UNCHANGED <<part, fragmentVars, spliceVars, plainVars, paddingVars>>

\* The fairness of each relay, while it runs.
PartsSpec ==
  /\ PartsInit /\ [][PartsNext]_<<part, fragmentVars, spliceVars, plainVars, paddingVars>>
  /\ WF_spliceVars(part = "splice" /\ Relay)
  /\ SF_plainVars(part = "plain" /\ (Pr!UplinkRecord \/ Pr!UplinkEof))
  /\ SF_plainVars(part = "plain" /\ (Pr!Downlink \/ Pr!DownlinkEof))
  /\ WF_plainVars(part = "plain" /\ Pr!WriteTarget) /\ WF_plainVars(part = "plain" /\ Pr!Ends)
  /\ WF_plainVars(part = "plain" /\ Pr!Idle) /\ WF_plainVars(part = "plain" /\ Pr!TargetReads)
  /\ WF_plainVars(part = "plain" /\ echo /\ Pr!TargetWrites)

-----------------------------------------------------------------------------
(* The properties of the relay without a splice, stated and explained in   *)
(* PlainRelay                                                              *)

\* What is sent arrives, in both directions, and an end only behind it.
Relayed == Pr!Relayed

(* of both relays *)

\* A silent relay is ended, also when it waits in a write to the target; only a write the client
\* does not take holds it.
SilenceReaped ==
  []((part = "splice" /\ Reapable) \/ (part = "plain" /\ Pr!Reapable)) /\ []<>(~Unread /\ ~Pr!Unread)
    => <>(Over \/ Pr!Over)

(* and of the padding, in Padding *)

\* What comes out is what went in, and both sides go raw together.
ContentExact == part = "padding" => Pd!ContentExact
=============================================================================
