------------------------------- MODULE Ticketer -------------------------------
(***************************************************************************)
(* ticketer.rs of donut-tls: the keys the server seals its session tickets *)
(* with.  Connections on any thread call encrypt and decrypt; a call reads *)
(* the clock, takes the lock, rolls the keys over when the period of the   *)
(* current one has passed, and generates the next key with the lock        *)
(* released.  TicketSwitcher prepares a key ahead and recovers when the    *)
(* generator had failed; TicketRotator makes one when it is due and looks  *)
(* again under the write lock.                                             *)
(*                                                                         *)
(* A key is the number of its generation; a ticket is the key that sealed  *)
(* it and the time its call began.  The clock never steps back.            *)
(***************************************************************************)
EXTENDS Integers

CONSTANTS
  Threads,    \* the threads that call the ticketer
  Lifetime,   \* seconds a key seals tickets
  Kinds,      \* the implementations: "Switcher", "Rotator"
  MaxClock,   \* bound on the clock
  MaxKeys,    \* bound on the keys generated
  None        \* no key, no ticket

ASSUME LifetimeAssumption == Lifetime \in Nat
ASSUME NoneAssumption == None \notin {"sealed", "opened", "refused", "failed"}

VARIABLES
  kind,      \* which ProducesTickets this is
  clock,     \* UnixTime::now, in seconds
  current, previous, next,  \* the sub-ticketers
  switchAt,  \* next_switch_time
  made,      \* keys generated so far
  pc,        \* where each thread is: "idle", "roll", "gen", "recover", "use"
  now,       \* the time each thread's call began
  arg,       \* the ticket each thread's call decrypts, None for encrypt
  reply,     \* what each thread's last call returned
  tickets    \* the tickets sealed so far

vars == <<kind, clock, current, previous, next, switchAt, made, pc, now, arg, reply, tickets>>
keys == <<current, previous, next, switchAt>>

\* TicketSwitcher::new, TicketRotator::new
Init ==
  /\ kind \in Kinds
  /\ clock = 0 /\ switchAt = Lifetime
  /\ current = 1 /\ previous = None
  /\ next = IF kind = "Switcher" THEN 2 ELSE None
  /\ made = IF kind = "Switcher" THEN 2 ELSE 1
  /\ pc = [t \in Threads |-> "idle"] /\ now = [t \in Threads |-> 0]
  /\ arg = [t \in Threads |-> None] /\ reply = [t \in Threads |-> None]
  /\ tickets = {}

Opens(ticket) == ticket.key \in {current, previous}

\* encrypt and decrypt begin: the clock is read before the lock is taken
Call(t, ticket) ==
  /\ pc[t] = "idle"
  /\ pc' = [pc EXCEPT ![t] = "roll"] /\ now' = [now EXCEPT ![t] = clock]
  /\ arg' = [arg EXCEPT ![t] = ticket] /\ reply' = [reply EXCEPT ![t] = None]
  /\ UNCHANGED <<kind, clock, keys, made, tickets>>

\* what the call does with the guard maybe_roll returned: the keys are those after the roll
Uses(t) ==
  /\ pc' = [pc EXCEPT ![t] = "idle"]
  /\ reply' = [reply EXCEPT ![t] = IF arg[t] = None THEN "sealed"
                                   ELSE IF arg[t].key \in {current', previous'} THEN "opened"
                                   ELSE "refused"]
  /\ tickets' = IF arg[t] = None THEN tickets \cup {[key |-> current', at |-> now[t]]} ELSE tickets

\* no switch is due: the call goes on under the lock it holds
FastPath(t) ==
  /\ pc[t] = "roll" /\ now[t] <= switchAt
  /\ UNCHANGED <<kind, clock, keys, made, now, arg>>
  /\ Uses(t)

Demote(t, key) ==
  /\ previous' = current /\ current' = key
  /\ switchAt' = now[t] + Lifetime

-----------------------------------------------------------------------------
(* TicketSwitcher *)

\* the prepared key takes over, and the lock is released to make the one after it
Switch(t) ==
  /\ kind = "Switcher" /\ pc[t] = "roll" /\ now[t] > switchAt
  /\ \/ next # None /\ Demote(t, next) /\ next' = None /\ pc' = [pc EXCEPT ![t] = "gen"]
     \/ next = None /\ pc' = [pc EXCEPT ![t] = "recover"] /\ UNCHANGED keys
  /\ UNCHANGED <<kind, clock, made, now, arg, reply, tickets>>

\* the usual end: the new key is put in place, whatever the time is by now
PlaceNext(t) ==
  /\ kind = "Switcher" /\ pc[t] = "gen"
  /\ made' = made + 1 /\ next' = made + 1
  /\ UNCHANGED <<kind, clock, current, previous, switchAt, now, arg>>
  /\ Uses(t)

\* recovery makes two keys, and looks again whether the switch still is due
Recover(t) ==
  /\ kind = "Switcher" /\ pc[t] = "recover"
  /\ made' = made + 2 /\ next' = made + 1
  /\ \/ now[t] > switchAt /\ Demote(t, made + 2)
     \/ now[t] <= switchAt /\ UNCHANGED <<current, previous, switchAt>>
  /\ UNCHANGED <<kind, clock, now, arg>>
  /\ Uses(t)

-----------------------------------------------------------------------------
(* TicketRotator *)

RotationDue(t) ==
  /\ kind = "Rotator" /\ pc[t] = "roll" /\ now[t] > switchAt
  /\ pc' = [pc EXCEPT ![t] = "gen"]
  /\ UNCHANGED <<kind, clock, keys, made, now, arg, reply, tickets>>

\* Faulty variant: another thread may have rotated, and nobody looks
RotateUnchecked(t) ==
  /\ kind = "Rotator" /\ pc[t] = "gen"
  /\ made' = made + 1
  /\ Demote(t, made + 1)
  /\ pc' = [pc EXCEPT ![t] = "use"]
  /\ UNCHANGED <<kind, clock, next, now, arg, reply, tickets>>

\* under the write lock: another thread may have been first; then read again
Rotate(t) ==
  /\ kind = "Rotator" /\ pc[t] = "gen"
  /\ made' = made + 1
  /\ \/ now[t] > switchAt /\ Demote(t, made + 1)
     \/ now[t] <= switchAt /\ UNCHANGED <<current, previous, switchAt>>
  /\ pc' = [pc EXCEPT ![t] = "use"]
  /\ UNCHANGED <<kind, clock, next, now, arg, reply, tickets>>

ReadAgain(t) ==
  /\ pc[t] = "use"
  /\ UNCHANGED <<kind, clock, keys, made, now, arg>>
  /\ Uses(t)

-----------------------------------------------------------------------------
\* the generator fails (GetRandomFailed): encrypt seals nothing, decrypt opens nothing
GeneratorFails(t) ==
  /\ pc[t] \in {"gen", "recover"}
  /\ pc' = [pc EXCEPT ![t] = "idle"] /\ reply' = [reply EXCEPT ![t] = "failed"]
  /\ UNCHANGED <<kind, clock, keys, made, now, arg, tickets>>

Tick ==
  /\ clock < MaxClock /\ clock' = clock + 1
  /\ UNCHANGED <<kind, keys, made, pc, now, arg, reply, tickets>>

Next ==
  \/ \E t \in Threads :
       \/ Call(t, None)
       \/ \E ticket \in tickets : Call(t, ticket)
       \/ FastPath(t) \/ Switch(t) \/ RotationDue(t) \/ ReadAgain(t) \/ GeneratorFails(t)
       \/ made + 2 <= MaxKeys /\ (PlaceNext(t) \/ Recover(t) \/ Rotate(t))
  \/ Tick

Spec == Init /\ [][Next]_vars

-----------------------------------------------------------------------------
Ticket == [key : Nat, at : Nat]

\* Types: keys are generations, times are seconds.
TypeOK ==
  /\ kind \in Kinds /\ clock \in Nat /\ switchAt \in Nat /\ made \in Nat
  /\ current \in Nat /\ previous \in Nat \cup {None} /\ next \in Nat \cup {None}
  /\ pc \in [Threads -> {"idle", "roll", "gen", "recover", "use"}]
  /\ now \in [Threads -> Nat]
  /\ arg \in [Threads -> Ticket \cup {None}]
  /\ reply \in [Threads -> {None, "sealed", "opened", "refused", "failed"}]
  /\ tickets \subseteq Ticket

\* A ticket can be opened for at least one lifetime after the call that sealed it began: however
\* the calls of other threads interleave with the switch, however late they run, and whatever
\* the generator fails at, its key is still the current or the previous one.
TicketLasts == \A ticket \in tickets : clock <= ticket.at + Lifetime => Opens(ticket)

\* The key is not switched twice in quick succession ("this might result in very rapid switching
\* of ticketers"): each switch is due more than a lifetime later than the one before, so the
\* threads that found the same switch due make it once between them.
RollsSpaced == [][current' # current => switchAt' > switchAt + Lifetime]_vars

\* A decrypt refuses a ticket of this ticketer only when the ticket is older than a lifetime.
RefusedOnlyWhenOld ==
  \A t \in Threads : reply[t] = "refused" => arg[t] # None /\ clock > arg[t].at + Lifetime
=============================================================================
