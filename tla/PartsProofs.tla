----------------------------- MODULE PartsProofs -----------------------------
(***************************************************************************)
(* Two small parts that keep state between calls: the ticketers of the TLS *)
(* server, for every number of threads, every lifetime, both               *)
(* implementations and no bound, and the writer that cuts a ClientHello    *)
(* into several records, for every record length, write size and choice of *)
(* fragment sizes.                                                         *)
(***************************************************************************)
EXTENDS Ticketer, FragmentWriter, TLAPS

-----------------------------------------------------------------------------
(***************************************************************************)
(* The ticketers keep a ticket openable for a lifetime.                    *)
(*                                                                         *)
(* A ticket sealed at a time "at" is in one of three ages.  Its key is     *)
(* current, and the switch is due no earlier than "at"; or its key is      *)
(* previous, and the next switch is due more than a lifetime after "at";   *)
(* or more than a lifetime has passed.  Each switch moves it one age on.   *)
(* The first needs that a call that seals does so with a switch time not   *)
(* before its own clock reading, also when it waited for the generator.    *)
(***************************************************************************)

\* the age of a ticket
Aged(ticket) ==
  \/ ticket.key = current /\ switchAt >= ticket.at
  \/ ticket.key = previous /\ switchAt > ticket.at + Lifetime
  \/ clock > ticket.at + Lifetime

\* A call past its own switch has its clock reading covered by the switch time.
Covered(t) ==
  pc[t] = "use" \/ (kind = "Switcher" /\ pc[t] = "gen") => now[t] <= switchAt

\* The inductive invariant: types, clock readings in the past, every ticket of some age, every
\* call past its switch covered, every refusal justified.
TicketInv ==
  /\ TypeOK
  /\ \A t \in Threads : now[t] <= clock
  /\ \A ticket \in tickets : Aged(ticket)
  /\ \A t \in Threads : Covered(t)
  /\ \A t \in Threads : arg[t] # None => arg[t] \in tickets
  /\ RefusedOnlyWhenOld

\* TicketSwitcher::new and TicketRotator::new establish the invariant.
LEMMA TicketStart == Init => TicketInv
  BY LifetimeAssumption, NoneAssumption
  DEF Init, TicketInv, TypeOK, Aged, Covered, RefusedOnlyWhenOld, Ticket

\* A switch moves each ticket one age on: what Demote does to the keys keeps every ticket aged.
LEMMA DemoteAges ==
  ASSUME TicketInv, NEW t \in Threads, NEW key \in Nat, now[t] > switchAt, Demote(t, key), clock' = clock,
         NEW ticket \in tickets
  PROVE  Aged(ticket)' /\ switchAt' > switchAt + Lifetime
<1>1. /\ now[t] \in Nat /\ now[t] <= clock /\ switchAt \in Nat /\ clock \in Nat
      /\ ticket.at \in Nat /\ Lifetime \in Nat
  BY LifetimeAssumption, Zenon DEF TicketInv, TypeOK, Ticket
<1>2. switchAt' > switchAt + Lifetime
  BY <1>1 DEF Demote
<1>3. CASE ticket.key = current /\ switchAt >= ticket.at
  BY <1>1, <1>2, <1>3 DEF Aged, Demote
<1>4. CASE ticket.key = previous /\ switchAt > ticket.at + Lifetime
  BY <1>1, <1>2, <1>4 DEF Aged
<1>5. CASE clock > ticket.at + Lifetime
  BY <1>2, <1>5, Zenon DEF Aged
<1> QED
  BY <1>2, <1>3, <1>4, <1>5, Zenon DEF TicketInv, Aged

\* How the keys may move in a step: they stay, or a thread whose switch is due demotes the current one.
Moves(t) == \/ UNCHANGED <<current, previous, switchAt>>
            \/ now[t] > switchAt /\ \E key \in Nat : Demote(t, key)

\* A call that uses the keys after such a move, with its clock reading covered, keeps the invariant:
\* the ticket it seals is of the first age, and a ticket it refuses is of the third.
LEMMA UsesKeeps ==
  ASSUME TicketInv, NEW t \in Threads, Moves(t), Uses(t), now[t] <= switchAt',
         TypeOK', UNCHANGED <<kind, clock, now, arg>>
  PROVE  TicketInv'
<1>1. \A ticket \in tickets : Aged(ticket)'
  <2>1. CASE UNCHANGED <<current, previous, switchAt>>
    BY <2>1, Zenon DEF TicketInv, Aged
  <2>2. CASE now[t] > switchAt /\ \E key \in Nat : Demote(t, key)
    BY <2>2, DemoteAges, Zenon
  <2> QED
    BY <2>1, <2>2, Zenon DEF Moves
<1>2. switchAt \in Nat /\ switchAt' \in Nat /\ now[t] \in Nat /\ Lifetime \in Nat
  BY LifetimeAssumption, Zenon DEF TicketInv, TypeOK
<1>3. switchAt' >= switchAt
  BY <1>2 DEF Moves, Demote
<1>4. \A ticket \in tickets' : Aged(ticket)'
  <2>1. CASE arg[t] = None
    <3>1. tickets' = tickets \cup {[key |-> current', at |-> now[t]]}
      BY <2>1, Zenon DEF Uses
    <3> QED
      BY <1>1, <3>1 DEF Aged
  <2>2. CASE arg[t] # None
    BY <1>1, <2>2, Zenon DEF Uses
  <2> QED
    BY <2>1, <2>2, Zenon
<1>5. tickets \subseteq tickets'
  BY Zenon DEF Uses
<1>6. \A u \in Threads : arg'[u] # None => arg'[u] \in tickets'
  BY <1>5, Zenon DEF TicketInv
<1>7. \A u \in Threads : Covered(u)'
  <2> TAKE u \in Threads
  <2>1. CASE u = t
    BY <2>1, Zenon DEF Uses, Covered, TicketInv, TypeOK
  <2>2. CASE u # t
    <3>1. pc'[u] = pc[u]
      BY <2>2, Zenon DEF Uses, TicketInv, TypeOK
    <3>2. now[u] \in Nat /\ now'[u] = now[u] /\ kind' = kind
      BY Zenon DEF TicketInv, TypeOK
    <3> QED
      BY <1>2, <1>3, <3>1, <3>2 DEF Covered, TicketInv
  <2> QED
    BY <2>1, <2>2, Zenon
<1>8. RefusedOnlyWhenOld'
  <2> SUFFICES ASSUME NEW u \in Threads, reply'[u] = "refused"
               PROVE  arg'[u] # None /\ clock' > arg'[u].at + Lifetime
    BY Zenon DEF RefusedOnlyWhenOld
  <2>1. CASE u # t
    BY <2>1 DEF Uses, TicketInv, TypeOK, RefusedOnlyWhenOld
  <2>2. CASE u = t
    <3>1. arg[t] # None /\ arg[t].key \notin {current', previous'}
      BY <2>2 DEF Uses, TicketInv, TypeOK
    <3>2. Aged(arg[t])'
      BY <1>1, <3>1, Zenon DEF TicketInv
    <3> QED
      BY <2>2, <3>1, <3>2, Zenon DEF Aged
  <2> QED
    BY <2>1, <2>2, Zenon
<1>9. \A u \in Threads : now'[u] <= clock'
  BY Zenon DEF TicketInv
<1> QED
  BY <1>4, <1>6, <1>7, <1>8, <1>9, Zenon DEF TicketInv

\* The steps that use the keys.
LEMMA UsingSteps ==
  ASSUME TicketInv, NEW t \in Threads,
         FastPath(t) \/ ReadAgain(t) \/ PlaceNext(t) \/ Recover(t)
  PROVE  TicketInv'
<1> USE DEF TicketInv
<1>1. /\ now[t] \in Nat /\ switchAt \in Nat /\ made \in Nat /\ Lifetime \in Nat /\ clock \in Nat
      /\ current \in Nat
  BY LifetimeAssumption, Zenon DEF TypeOK
<1>2. ASSUME current' \in Nat, switchAt' \in Nat, previous' \in Nat \cup {None}, made' \in Nat,
             next' \in Nat \cup {None}, Uses(t), UNCHANGED <<kind, clock, now, arg>>
      PROVE  TypeOK'
  <2>1. tickets' \subseteq Ticket
    BY <1>1, <1>2 DEF Uses, Ticket, TypeOK
  <2>2. /\ reply' \in [Threads -> {None, "sealed", "opened", "refused", "failed"}]
        /\ pc' \in [Threads -> {"idle", "roll", "gen", "recover", "use"}]
    BY <1>2, Zenon DEF Uses, TypeOK
  <2> QED
    BY <1>2, <2>1, <2>2, Zenon DEF TypeOK
<1>3. CASE FastPath(t) \/ ReadAgain(t)
  <2>1. now[t] <= switchAt /\ Uses(t) /\ UNCHANGED <<kind, clock, current, previous, next, switchAt, made, now, arg>>
    BY <1>3, Zenon DEF FastPath, ReadAgain, Covered, keys
  <2>2. TypeOK'
    BY <1>2, <2>1, Zenon DEF TypeOK
  <2> QED
    BY <2>1, <2>2, UsesKeeps, Zenon DEF Moves
<1>4. CASE PlaceNext(t)
  <2>1. now[t] <= switchAt /\ Uses(t) /\ UNCHANGED <<kind, clock, current, previous, switchAt, now, arg>>
    BY <1>4, Zenon DEF PlaceNext, Covered
  <2>2. TypeOK'
    BY <1>1, <1>2, <1>4, <2>1 DEF TypeOK, PlaceNext
  <2> QED
    BY <2>1, <2>2, UsesKeeps, Zenon DEF Moves
<1>5. CASE Recover(t)
  <2>1. Uses(t) /\ UNCHANGED <<kind, clock, now, arg>> /\ Moves(t) /\ now[t] <= switchAt'
    BY <1>1, <1>5 DEF Recover, Moves, Demote
  <2>2. TypeOK'
    BY <1>1, <1>2, <1>5, <2>1 DEF TypeOK, Recover, Demote
  <2> QED
    BY <2>1, <2>2, UsesKeeps, Zenon
<1> QED
  BY <1>3, <1>4, <1>5, Zenon

\* The steps between: a call begins or fails, a switch is made or found due.
LEMMA OtherSteps ==
  ASSUME TicketInv, NEW t \in Threads,
         \/ \E ticket \in tickets \cup {None} : Call(t, ticket)
         \/ Switch(t) \/ RotationDue(t) \/ Rotate(t) \/ GeneratorFails(t)
  PROVE  TicketInv'
<1> USE DEF TicketInv
<1>1. /\ now[t] \in Nat /\ switchAt \in Nat /\ made \in Nat /\ Lifetime \in Nat /\ clock \in Nat
      /\ current \in Nat
  BY LifetimeAssumption, Zenon DEF TypeOK
<1>2. ASSUME NEW ticket \in tickets \cup {None}, Call(t, ticket)
      PROVE  TicketInv'
  <2>1. TypeOK'
    BY <1>1, <1>2, Zenon DEF Call, TypeOK, keys
  <2>2. \A u \in Threads : now'[u] <= clock' /\ Covered(u)' /\ (arg'[u] # None => arg'[u] \in tickets')
    BY <1>1, <1>2 DEF Call, TypeOK, Covered, keys
  <2>3. RefusedOnlyWhenOld'
    BY <1>2, NoneAssumption, Zenon DEF Call, TypeOK, RefusedOnlyWhenOld, keys
  <2> QED
    BY <1>2, <2>1, <2>2, <2>3, Zenon DEF Call, Aged, keys
<1>3. CASE RotationDue(t) \/ GeneratorFails(t)
  <2>1. TypeOK'
    BY <1>3, Zenon DEF RotationDue, GeneratorFails, TypeOK, keys
  <2>2. \A u \in Threads : Covered(u)'
    BY <1>3, Zenon DEF RotationDue, GeneratorFails, TypeOK, Covered, keys
  <2>3. RefusedOnlyWhenOld'
    BY <1>3, Zenon DEF RotationDue, GeneratorFails, TypeOK, RefusedOnlyWhenOld, keys
  <2> QED
    BY <1>3, <2>1, <2>2, <2>3, Zenon DEF RotationDue, GeneratorFails, Aged, keys
<1>4. CASE Switch(t) \/ Rotate(t)
  <2>1. /\ UNCHANGED <<kind, clock, now, arg, reply, tickets>> /\ Moves(t)
        /\ TypeOK' /\ switchAt' >= switchAt
    <3>1. CASE Switch(t)
      <4>1. CASE next # None /\ Demote(t, next)
        BY <1>1, <3>1, <4>1 DEF Switch, Moves, TypeOK, Demote, keys
      <4>2. CASE UNCHANGED keys
        BY <1>1, <3>1, <4>2 DEF Switch, Moves, TypeOK, keys
      <4> QED
        BY <3>1, <4>1, <4>2, Zenon DEF Switch
    <3>2. CASE Rotate(t)
      <4>1. CASE now[t] > switchAt /\ Demote(t, made + 1)
        BY <1>1, <3>2, <4>1 DEF Rotate, Moves, TypeOK, Demote
      <4>2. CASE UNCHANGED <<current, previous, switchAt>>
        BY <1>1, <3>2, <4>2 DEF Rotate, Moves, TypeOK
      <4> QED
        BY <3>2, <4>1, <4>2, Zenon DEF Rotate
    <3> QED
      BY <1>4, <3>1, <3>2, Zenon
  <2>2. \A ticket \in tickets : Aged(ticket)'
    <3>1. CASE UNCHANGED <<current, previous, switchAt>>
      BY <2>1, <3>1, Zenon DEF Aged
    <3>2. CASE now[t] > switchAt /\ \E key \in Nat : Demote(t, key)
      BY <2>1, <3>2, DemoteAges, Zenon
    <3> QED
      BY <2>1, <3>1, <3>2, Zenon DEF Moves
  <2>3. \A u \in Threads : Covered(u)'
    <3> TAKE u \in Threads
    <3>1. CASE u # t
      <4>1. pc'[u] = pc[u] /\ now[u] \in Nat /\ switchAt' \in Nat
        BY <1>4, <2>1, <3>1, Zenon DEF Switch, Rotate, TypeOK
      <4> QED
        BY <1>1, <2>1, <4>1 DEF Covered
    <3>2. CASE u = t
      <4>1. kind' = kind /\ now' = now
        BY <2>1, Zenon
      <4>2. pc'[t] = "recover" \/ now[t] <= switchAt'
        <5>1. /\ pc \in [Threads -> {"idle", "roll", "gen", "recover", "use"}] /\ now[t] \in Nat
              /\ switchAt \in Nat /\ Lifetime \in Nat
          BY <1>1, Zenon DEF TypeOK
        <5>2. CASE Switch(t)
          BY <5>1, <5>2 DEF Switch, Demote, keys
        <5>3. CASE Rotate(t)
          BY <5>1, <5>3 DEF Rotate, Demote
        <5> QED
          BY <1>4, <5>2, <5>3, Zenon
      <4> QED
        BY <3>2, <4>1, <4>2, Zenon DEF Covered
    <3> QED
      BY <3>1, <3>2, Zenon
  <2>4. RefusedOnlyWhenOld'
    BY <2>1, Zenon DEF RefusedOnlyWhenOld
  <2> QED
    BY <2>1, <2>2, <2>3, <2>4, Zenon
<1> QED
  BY <1>2, <1>3, <1>4, Zenon

\* The clock moving on keeps the invariant.
LEMMA TickKeeps == TicketInv /\ Tick => TicketInv'
<1> SUFFICES ASSUME TicketInv, Tick PROVE TicketInv'
  BY Zenon
<1> USE DEF TicketInv
<1>1. /\ clock \in Nat /\ clock' \in Nat /\ clock' > clock
      /\ UNCHANGED <<kind, current, previous, next, switchAt, made, pc, now, arg, reply, tickets>>
  BY DEF Tick, TypeOK, keys
<1>2. TypeOK'
  BY <1>1, Zenon DEF TypeOK
<1>3. \A u \in Threads : now'[u] <= clock' /\ Covered(u)'
  BY <1>1 DEF TypeOK, Covered
<1>4. \A ticket \in tickets' : Aged(ticket)'
  <2> SUFFICES ASSUME NEW ticket \in tickets PROVE Aged(ticket)'
    BY <1>1, Zenon
  <2>1. ticket.at \in Nat /\ Lifetime \in Nat /\ Aged(ticket)
    BY LifetimeAssumption, Zenon DEF TypeOK, Ticket
  <2> QED
    BY <1>1, <2>1 DEF Aged
<1>5. RefusedOnlyWhenOld'
  <2> SUFFICES ASSUME NEW u \in Threads, reply[u] = "refused"
               PROVE  arg[u] # None /\ clock' > arg[u].at + Lifetime
    BY <1>1, Zenon DEF RefusedOnlyWhenOld
  <2>1. arg[u] # None /\ clock > arg[u].at + Lifetime
    BY Zenon DEF RefusedOnlyWhenOld
  <2>2. arg[u].at \in Nat /\ Lifetime \in Nat
    BY <2>1, LifetimeAssumption, Zenon DEF TypeOK, Ticket
  <2> QED
    BY <1>1, <2>1, <2>2
<1> QED
  BY <1>1, <1>2, <1>3, <1>4, <1>5, Zenon

\* TicketInv is inductive: one step per kind of action.
LEMMA TicketStep == TicketInv /\ [Next]_vars => TicketInv'
<1> SUFFICES ASSUME TicketInv, [Next]_vars PROVE TicketInv'
  BY Zenon
<1>1. CASE UNCHANGED vars
  BY <1>1, Zenon DEF vars, TicketInv, TypeOK, Aged, Covered, RefusedOnlyWhenOld
<1>2. CASE Tick
  BY <1>2, TickKeeps, Zenon
<1>3. ASSUME NEW t \in Threads,
             FastPath(t) \/ ReadAgain(t) \/ PlaceNext(t) \/ Recover(t)
      PROVE  TicketInv'
  BY <1>3, UsingSteps, Zenon
<1>4. ASSUME NEW t \in Threads,
             \/ \E ticket \in tickets \cup {None} : Call(t, ticket)
             \/ Switch(t) \/ RotationDue(t) \/ Rotate(t) \/ GeneratorFails(t)
      PROVE  TicketInv'
  BY <1>4, OtherSteps, Zenon
<1> QED
  BY <1>1, <1>2, <1>3, <1>4, Zenon DEF Next

\* Every reachable state of the ticketer satisfies the invariant.
THEOREM TicketHolds == Spec => []TicketInv
  BY TicketStart, TicketStep, PTL DEF Spec

\* A sealed ticket stays openable for a lifetime, for every number of threads and both ticketers.
THEOREM TicketLastsAlways == Spec => []TicketLasts
<1>1. TicketInv => TicketLasts
  <2> SUFFICES ASSUME TicketInv, NEW ticket \in tickets, clock <= ticket.at + Lifetime
               PROVE  Opens(ticket)
    BY Zenon DEF TicketLasts
  <2>1. ticket.at \in Nat /\ Lifetime \in Nat /\ clock \in Nat /\ Aged(ticket)
    BY LifetimeAssumption, Zenon DEF TicketInv, TypeOK, Ticket
  <2> QED
    BY <2>1 DEF Aged, Opens
<1> QED
  BY <1>1, TicketHolds, PTL

\* A decrypt refuses only a ticket older than a lifetime.
THEOREM RefusedOnlyWhenOldAlways == Spec => []RefusedOnlyWhenOld
<1>1. TicketInv => RefusedOnlyWhenOld
  BY Zenon DEF TicketInv
<1> QED
  BY <1>1, TicketHolds, PTL

\* Switches are more than a lifetime apart: the threads that find one due make it once.
THEOREM RollsAreSpaced == Spec => RollsSpaced
<1>1. TicketInv /\ [Next]_vars => [current' # current => switchAt' > switchAt + Lifetime]_vars
  <2> SUFFICES ASSUME TicketInv, Next, current' # current
               PROVE  switchAt' > switchAt + Lifetime
    BY Zenon DEF vars
  <2>1. switchAt \in Nat /\ Lifetime \in Nat /\ now \in [Threads -> Nat]
    BY LifetimeAssumption, Zenon DEF TicketInv, TypeOK
  <2>2. PICK t \in Threads : now[t] > switchAt /\ switchAt' = now[t] + Lifetime
    BY Zenon DEF Next, Call, FastPath, Switch, RotationDue, ReadAgain, GeneratorFails, PlaceNext,
       Recover,
           Rotate, Tick, Demote, keys
  <2> QED
    BY <2>1, <2>2
<1> QED
  BY <1>1, TicketHolds, PTL DEF Spec, RollsSpaced

-----------------------------------------------------------------------------
(* The writer that cuts the first record *)

(***************************************************************************)
(* While a split is under way the whole ClientHello is in acc and nothing  *)
(* has gone out; each step of the split has left a record behind.          *)
(***************************************************************************)
SplitInv ==
    off > 0 => /\ IsHello /\ ~done /\ acc >= len
               /\ off > HeaderLen => sizes # {}

FragmentInv == FragmentTypeOK /\ Conserved /\ HeldIsIncomplete /\ HelloSplit /\ SplitInv

\* A fragment is never empty, never longer than the rest of the record, and
\* no longer than the largest size that may be picked unless it is one byte.
LEMMA ChunkFits ==
    ASSUME NEW p \in Picks, NEW rest \in Nat \ {0}
    PROVE  /\ Chunk(p, rest) \in 1..rest
           /\ Chunk(p, rest) <= Largest \/ Chunk(p, rest) = 1
BY FragmentAssumption DEF Picks, Chunk, Largest

\* The adapter starts with nothing accepted and nothing held.
LEMMA FragmentStart == FragmentInit => FragmentInv
<1> SUFFICES ASSUME FragmentInit PROVE FragmentInv
  BY Zenon
<1> USE FragmentAssumption DEF FragmentInit
<1>1. FragmentTypeOK
  <2>1. sizes \subseteq 1..len
    BY Zenon
  <2>2. accepted \in 0..MaxBytes /\ acc \in Nat /\ out \in Nat /\ wrote \in Nat
    OBVIOUS
  <2> QED
    BY <2>1, <2>2, Zenon DEF FragmentTypeOK
<1>2. Conserved /\ HeldIsIncomplete /\ SplitInv
  BY DEF Conserved, HeldIsIncomplete, SplitInv
<1>3. HelloSplit
  BY Zenon DEF HelloSplit
<1> QED
  BY <1>1, <1>2, <1>3, Zenon DEF FragmentInv

\* Every call of the adapter, and every step of the split, preserves FragmentInv.
LEMMA FragmentStep == FragmentInv /\ [FragmentNext]_fragmentVars => FragmentInv'
<1> SUFFICES ASSUME FragmentInv, [FragmentNext]_fragmentVars PROVE FragmentInv'
  OBVIOUS
<1> USE FragmentAssumption DEF FragmentInv, stream, Ready
<1>1. CASE WritePending
  <2>1. PICK k \in 0..out : Drain(out, k)
    BY <1>1, Zenon DEF WritePending
  <2> QED
    BY <1>1, <2>1 DEF WritePending, Drain, FragmentTypeOK, Conserved, HeldIsIncomplete, HelloSplit,
       SplitInv, IsHello
<1>2. CASE WriteThrough
  <2>1. PICK m \in 1..MaxWrite : /\ accepted + m <= MaxBytes /\ accepted' = accepted + m
                                 /\ out' = 0 /\ wrote' = wrote + out + m
    BY <1>2, Zenon DEF WriteThrough
  <2> QED
    BY <1>2, <2>1 DEF WriteThrough, FragmentTypeOK, Conserved, HeldIsIncomplete, HelloSplit,
       SplitInv, IsHello
<1>3. CASE WriteFirst
  <2> DEFINE n(m) == acc + m
  <2>1. PICK m \in 1..MaxWrite :
           /\ accepted + m <= MaxBytes /\ accepted' = accepted + m
           /\ \/ /\ first # "other" /\ ~Complete(n(m)) /\ acc' = n(m)
                 /\ UNCHANGED <<out, wrote, done, off>>
              \/ /\ first = "other" \/ (Complete(n(m)) /\ ~IsHello)
                 /\ acc' = 0 /\ done' = TRUE
                 /\ \E k \in 0..n(m) : Drain(n(m), k)
                 /\ UNCHANGED off
              \/ /\ IsHello /\ Complete(n(m)) /\ acc' = n(m) /\ off' = HeaderLen
                 /\ UNCHANGED <<out, wrote, done>>
    BY <1>3, Zenon DEF WriteFirst, Held
  <2>a. ~done /\ off = 0 /\ UNCHANGED <<first, len, sizes, early, closed>>
    BY <1>3, Zenon DEF WriteFirst, Ready, stream
  <2>b. /\ first \in Firsts /\ len \in HeaderLen..MaxRecord /\ accepted \in 0..MaxBytes
        /\ acc \in Nat /\ out \in Nat /\ wrote \in Nat /\ sizes \subseteq 1..len
        /\ early \in BOOLEAN /\ closed \in BOOLEAN /\ HeaderLen \in Nat
    BY FragmentAssumption, Zenon DEF FragmentTypeOK
  <2>c. HelloSplit' = (IsHello /\ done' /\ ~early => sizes # {}) /\ IsHello' = IsHello
    BY <2>a, Zenon DEF HelloSplit, IsHello
  <2>2. CASE first # "other" /\ ~Complete(n(m)) /\ acc' = n(m) /\ UNCHANGED <<out, wrote, done, off>>
    <3>1. FragmentTypeOK' /\ Conserved'
      BY <2>1, <2>2, <2>a, <2>b DEF FragmentTypeOK, Conserved
    <3>2. HeldIsIncomplete' /\ SplitInv'
      BY <2>1, <2>2, <2>a, <2>b DEF HeldIsIncomplete, SplitInv, Complete
    <3> QED
      BY <2>2, <2>a, <2>c, <3>1, <3>2, Zenon
  <2>3. CASE /\ first = "other" \/ (Complete(n(m)) /\ ~IsHello)
             /\ acc' = 0 /\ done' = TRUE
             /\ \E k \in 0..n(m) : Drain(n(m), k)
             /\ UNCHANGED off
    <3>1. PICK k \in 0..n(m) : Drain(n(m), k)
      BY <2>3, Zenon
    <3>2. FragmentTypeOK' /\ Conserved'
      BY <2>1, <2>3, <2>a, <2>b, <3>1 DEF FragmentTypeOK, Conserved, Drain
    <3>3. HeldIsIncomplete' /\ SplitInv' /\ ~IsHello
      BY <2>1, <2>3, <2>a, <2>b, Zenon DEF HeldIsIncomplete, SplitInv, IsHello
    <3> QED
      BY <2>c, <3>2, <3>3, Zenon
  <2>4. CASE IsHello /\ Complete(n(m)) /\ acc' = n(m) /\ off' = HeaderLen /\ UNCHANGED <<out, wrote, done>>
    <3>1. FragmentTypeOK' /\ Conserved'
      BY <2>1, <2>4, <2>a, <2>b DEF FragmentTypeOK, Conserved
    <3>2. HeldIsIncomplete' /\ SplitInv'
      BY <2>1, <2>4, <2>a, <2>b, <2>c, FragmentAssumption DEF HeldIsIncomplete, SplitInv, Complete
    <3> QED
      BY <2>4, <2>a, <2>c, <3>1, <3>2, Zenon
  <2> QED
    BY <2>1, <2>2, <2>3, <2>4, Zenon
<1>4. CASE Split
  <2> DEFINE c(p) == Chunk(p, len - off)
  <2>1. PICK p \in Picks : sizes' = sizes \cup {c(p)} /\ off' = off + c(p)
    BY <1>4, Zenon DEF Split
  <2>2. len - off \in Nat \ {0} /\ off \in HeaderLen..len
    BY <1>4 DEF Split, FragmentTypeOK
  <2>3. c(p) \in 1..(len - off) /\ (c(p) <= Largest \/ c(p) = 1)
    BY <2>2, ChunkFits, Zenon
  <2> HIDE DEF c
  <2>4. FragmentTypeOK'
    <3>1. sizes' \subseteq 1..len
      <4>1. c(p) \in 1..len
        BY <2>2, <2>3 DEF FragmentTypeOK
      <4> QED
        BY <2>1, <4>1, Zenon DEF FragmentTypeOK
    <3>2. off' \in HeaderLen..len
      BY <2>1, <2>2, <2>3 DEF FragmentTypeOK
    <3> QED
      BY <1>4, <3>1, <3>2, Zenon DEF Split, FragmentTypeOK
  <2>7. SplitInv'
    BY <1>4, <2>1, <2>2, <2>3, Zenon DEF Split, SplitInv, IsHello
  <2>5. Conserved' /\ HeldIsIncomplete'
    BY <1>4, <2>1, <2>2, <2>3 DEF Split, FragmentTypeOK, Conserved, HeldIsIncomplete
  <2>6. HelloSplit'
    BY <1>4, <2>1, <2>2, <2>3 DEF Split, FragmentTypeOK, HelloSplit, IsHello, Largest
  <2> QED
    BY <2>4, <2>5, <2>6, <2>7, Zenon
<1>5. CASE SplitDone
  <2>1. PICK k \in 0..acc : Drain(acc, k)
    BY <1>5, Zenon DEF SplitDone
  <2> QED
    BY <1>5, <2>1 DEF SplitDone, Drain, FragmentTypeOK, Conserved, HeldIsIncomplete, HelloSplit,
       SplitInv, IsHello
<1>6. CASE Flush
  <2>0. Flushed = out + acc
    <3>1. CASE done
      BY <3>1 DEF Flushed, FragmentTypeOK, Conserved
    <3>2. CASE ~done
      BY <3>2 DEF Flushed, FragmentTypeOK, Conserved
    <3> QED
      BY <3>1, <3>2, Zenon
  <2>1. PICK k \in 0..(out + acc) : Drain(out + acc, k)
    <3>1. \E k \in 0..Flushed : Drain(Flushed, k)
      BY <1>6, Zenon DEF Flush
    <3> QED
      BY <2>0, <3>1, Zenon
  <2>2. /\ acc' = 0 /\ off' = off /\ off = 0 /\ sizes' = sizes /\ UNCHANGED stream
        /\ accepted' = accepted /\ closed' = closed
        /\ out' = (out + acc) - k /\ wrote' = wrote + k
    <3>1. off = 0 /\ UNCHANGED <<stream, accepted, off, sizes, closed>>
      BY <1>6, Zenon DEF Flush
    <3>0. acc' = Kept
      <4>1. acc' = IF done THEN acc ELSE Kept
        BY <1>6, Zenon DEF Flush
      <4> QED
        BY <4>1, Zenon DEF Conserved, Kept
    <3>2. out' = (out + acc) - k /\ wrote' = wrote + k
      BY <2>1, Zenon DEF Drain
    <3> QED
      BY <3>0, <3>1, <3>2, Zenon DEF Kept
  <2>3. CASE acc > 0
    <3>1. done' = TRUE /\ early' = TRUE
      <4>1. ~done
        BY <2>3 DEF Conserved
      <4>2. done' = (done \/ acc > 0) /\ early' = (early \/ (~done /\ acc > 0))
        BY <1>6, Zenon DEF Flush
      <4> QED
        BY <2>3, <4>1, <4>2, Zenon
    <3>2. FragmentTypeOK'
      BY <2>1, <2>2, <3>1 DEF FragmentTypeOK
    <3>3. Conserved'
      BY <2>1, <2>2, <2>3, <3>1 DEF FragmentTypeOK, Conserved
    <3>4. HeldIsIncomplete' /\ HelloSplit' /\ SplitInv'
      BY <2>2, <3>1 DEF HeldIsIncomplete, HelloSplit, SplitInv, Largest
    <3> QED
      BY <3>2, <3>3, <3>4, Zenon
  <2>4. CASE acc = 0
    <3>1. done' = done /\ early' = early
      <4>1. ~(acc > 0)
        BY <2>4
      <4>2. done' = (done \/ acc > 0) /\ early' = (early \/ (~done /\ acc > 0))
        BY <1>6, Zenon DEF Flush
      <4> QED
        BY <4>1, <4>2, Zenon DEF FragmentTypeOK
    <3> QED
      BY <2>1, <2>2, <2>4, <3>1 DEF FragmentTypeOK, Conserved, HeldIsIncomplete, HelloSplit,
         SplitInv, IsHello
  <2> QED
    BY <2>3, <2>4 DEF FragmentTypeOK
<1>7. CASE Shutdown
  BY <1>7 DEF Shutdown, FragmentTypeOK, Conserved, HeldIsIncomplete, HelloSplit, SplitInv, IsHello
<1>8. CASE UNCHANGED fragmentVars
  BY <1>8, Zenon DEF fragmentVars, FragmentTypeOK, Conserved, HeldIsIncomplete, HelloSplit,
     SplitInv, IsHello
<1> QED
  BY <1>1, <1>2, <1>3, <1>4, <1>5, <1>6, <1>7, <1>8, Zenon DEF FragmentNext

\* The inductive invariant holds of every behaviour.
LEMMA FragmentHolds == FragmentSpec => []FragmentInv
BY FragmentStart, FragmentStep, PTL DEF FragmentSpec

(***************************************************************************)
(* No byte the caller was told is written is lost, doubled or overtaken,   *)
(* by any sequence of poll_write, poll_flush and poll_shutdown.            *)
(***************************************************************************)
THEOREM BytesConserved == FragmentSpec => []Conserved
<1>1. FragmentInv => Conserved
  BY Zenon DEF FragmentInv
<1> QED
  BY <1>1, FragmentHolds, PTL

(***************************************************************************)
(* The adapter never holds back a complete first record.                   *)
(***************************************************************************)
THEOREM NothingCompleteHeld == FragmentSpec => []HeldIsIncomplete
<1>1. FragmentInv => HeldIsIncomplete
  BY Zenon DEF FragmentInv
<1> QED
  BY <1>1, FragmentHolds, PTL

(***************************************************************************)
(* A ClientHello that is not flushed early leaves split into records of    *)
(* the configured sizes, none of them empty.                               *)
(***************************************************************************)
THEOREM HelloLeavesSplit == FragmentSpec => []HelloSplit
<1>1. FragmentInv => HelloSplit
  BY Zenon DEF FragmentInv
<1> QED
  BY <1>1, FragmentHolds, PTL

=============================================================================
