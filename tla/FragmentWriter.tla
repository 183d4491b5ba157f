---------------------------- MODULE FragmentWriter ----------------------------
(***************************************************************************)
(* The egress adapter that splits the first ClientHello into smaller TLS   *)
(* records (FragmentWriter of crates/donut-server/src/fragment.rs).  Bytes *)
(* of the caller's stream are counted, wherever they are: accepted from    *)
(* the caller, in acc, in out, or written to the inner socket.  The record *)
(* headers the split adds are not counted.                                 *)
(***************************************************************************)
EXTENDS Integers

CONSTANTS
    HeaderLen,   \* length of a record header (5 in the code)
    MaxRecord,   \* bound on the length of the first record, header included
    Lo, Hi,      \* FragmentParams::len
    MaxBytes,    \* bound on the bytes the caller writes
    MaxWrite     \* bound on the bytes of one write

ASSUME FragmentAssumption ==
    /\ HeaderLen \in Nat \ {0} /\ MaxRecord \in Nat
    /\ Lo \in Nat /\ Hi \in Nat /\ MaxBytes \in Nat /\ MaxWrite \in Nat

VARIABLES
    first, len,  \* what the stream starts with, and the length its header gives
    accepted,    \* bytes the caller was told are written
    acc,         \* bytes of the first record held back
    out,         \* bytes ready for the inner socket
    wrote,       \* bytes written to the inner socket
    done,        \* the first record is handled
    off,         \* how far the record is split; 0 when no split is under way
    sizes,       \* the payload sizes of the records it was split into
    early,       \* a flush came before the first record was complete
    closed       \* poll_shutdown has returned Ok

fragmentVars == <<first, len, accepted, acc, out, wrote, done, off, sizes, early, closed>>
stream == <<first, len>>

\* A ClientHello, another handshake record, or no handshake record.
Firsts == {"hello", "handshake", "other"}

FragmentInit ==
    /\ first \in Firsts /\ len \in HeaderLen..MaxRecord
    /\ accepted = 0 /\ acc = 0 /\ out = 0 /\ wrote = 0
    /\ done = FALSE /\ off = 0 /\ sizes = {} /\ early = FALSE /\ closed = FALSE

Ready == off = 0 /\ ~closed

\* drain: the inner socket takes k of the n bytes of out.
Drain(n, k) == out' = n - k /\ wrote' = wrote + k

-----------------------------------------------------------------------------
\* The first record is complete once the header tells its length.
Complete(n) == n >= HeaderLen /\ n >= len
\* An empty record has no message.
IsHello == first = "hello" /\ len > HeaderLen

\* Output of an earlier write comes first; Pending when the socket does not take
\* all of it, or then takes nothing of the caller's bytes.
WritePending ==
    /\ Ready /\ out > 0
    /\ \E k \in 0..out : Drain(out, k)
    /\ UNCHANGED <<stream, accepted, acc, done, off, sizes, early, closed>>

\* Past the first record: the socket takes what it can.
WriteThrough ==
    /\ Ready /\ done
    /\ \E m \in 1..MaxWrite :
          /\ accepted + m <= MaxBytes
          /\ accepted' = accepted + m
          /\ out' = 0 /\ wrote' = wrote + out + m
    /\ UNCHANGED <<stream, acc, done, off, sizes, early, closed>>

Held(m) == acc + m

\* The first bytes: hold them while they may be an incomplete handshake record,
\* otherwise pass them on or start to split.
WriteFirst ==
    /\ Ready /\ ~done
    /\ \E m \in 1..MaxWrite :
          /\ accepted + m <= MaxBytes
          /\ accepted' = accepted + m
          /\ LET n == Held(m) IN
             \/ /\ first # "other" /\ ~Complete(n)
                /\ acc' = n
                /\ UNCHANGED <<out, wrote, done, off>>
             \/ /\ first = "other" \/ (Complete(n) /\ ~IsHello)
                /\ acc' = 0 /\ done' = TRUE
                /\ \E k \in 0..n : Drain(n, k)
                /\ UNCHANGED off
             \/ /\ IsHello /\ Complete(n)
                /\ acc' = n /\ off' = HeaderLen
                /\ UNCHANGED <<out, wrote, done>>
    /\ UNCHANGED <<stream, sizes, early, closed>>

Picks == IF Lo >= Hi THEN {Lo} ELSE Lo..Hi
\* Faulty variant: the whole rest in one record.
ChunkRest(p, rest) == rest
\* pick(len).clamp(1, rest)
Chunk(p, rest) == IF p < 1 THEN 1 ELSE IF p > rest THEN rest ELSE p

\* One record of the split.
Split ==
    /\ 0 < off /\ off < len
    /\ \E p \in Picks :
          /\ sizes' = sizes \cup {Chunk(p, len - off)}
          /\ off' = off + Chunk(p, len - off)
    /\ UNCHANGED <<stream, accepted, acc, out, wrote, done, early, closed>>

\* The split is complete: the records and what followed them go out.
SplitDone ==
    /\ off >= len /\ off > 0
    /\ off' = 0 /\ done' = TRUE /\ acc' = 0
    /\ \E k \in 0..acc : Drain(acc, k)
    /\ UNCHANGED <<stream, accepted, sizes, early, closed>>

\* std::mem::take leaves nothing.
Kept == 0

\* What is held replaces out.
Flushed == IF ~done /\ acc > 0 THEN acc ELSE out

\* poll_flush: an incomplete first record is not held back.
Flush ==
    /\ Ready
    /\ \E k \in 0..Flushed : Drain(Flushed, k)
    /\ acc' = IF done THEN acc ELSE Kept
    /\ done' = (done \/ acc > 0)
    /\ early' = (early \/ (~done /\ acc > 0))
    /\ UNCHANGED <<stream, accepted, off, sizes, closed>>

\* poll_shutdown drains out, and out only.
Shutdown ==
    /\ Ready
    /\ wrote' = wrote + out /\ out' = 0
    /\ closed' = TRUE
    /\ UNCHANGED <<stream, accepted, acc, done, off, sizes, early>>

FragmentNext ==
    \/ WritePending \/ WriteThrough \/ WriteFirst
    \/ Split \/ SplitDone \/ Flush \/ Shutdown

FragmentSpec == FragmentInit /\ [][FragmentNext]_fragmentVars

-----------------------------------------------------------------------------
FragmentTypeOK ==
    /\ first \in Firsts /\ len \in HeaderLen..MaxRecord
    /\ accepted \in 0..MaxBytes
    /\ acc \in Nat /\ out \in Nat /\ wrote \in Nat
    /\ done \in BOOLEAN /\ early \in BOOLEAN /\ closed \in BOOLEAN
    /\ off = 0 \/ off \in HeaderLen..len
    /\ sizes \subseteq 1..len

(***************************************************************************)
(* No byte is lost, doubled or overtaken: what the caller was told is      *)
(* written is in the socket, in out or in acc, and never in acc behind or  *)
(* before bytes elsewhere (poll_write, poll_flush, drain).                        *)
(***************************************************************************)
Conserved ==
    /\ accepted = wrote + out + acc
    /\ done => acc = 0
    /\ ~done => wrote = 0 /\ out = 0

(***************************************************************************)
(* A complete first record is never held back: what waits in acc between   *)
(* two calls is a handshake record that is not complete.                   *)
(***************************************************************************)
HeldIsIncomplete == off = 0 /\ acc > 0 => first # "other" /\ (acc < HeaderLen \/ acc < len)

(***************************************************************************)
(* A ClientHello that was not flushed before it was complete leaves in     *)
(* records of the configured size: once any of its bytes may be on the     *)
(* wire it has been split, and no record of the split is empty or larger   *)
(* than the largest size allowed (fragment_clienthello_to_vec).            *)
(***************************************************************************)
Largest == IF Lo >= Hi THEN Lo ELSE Hi
HelloSplit ==
    /\ IsHello /\ done /\ ~early => sizes # {}
    /\ \A s \in sizes : 1 <= s /\ (s <= Largest \/ s = 1)

=============================================================================
