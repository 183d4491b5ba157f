----------------------------- MODULE SessionStore -----------------------------
(***************************************************************************)
(* Where donut-tls keeps sessions between connections, and when one may be *)
(* used again: limited_cache.rs, the two memory caches of client/handy.rs  *)
(* and server/handy.rs, and the ages and lifetimes of msgs/persist.rs.     *)
(*                                                                         *)
(* A server keeps a session for every ticket it issues; the ticket reaches *)
(* the client after a while; the client offers one when it connects, and   *)
(* the offer reaches the server after a while, or twice.  All operations   *)
(* on a cache run under its mutex.                                         *)
(***************************************************************************)
EXTENDS Integers, Sequences, FiniteSets, SequencesExt, Functions

CONSTANTS
  Servers,      \* the server names the client connects to
  ClientSize,   \* capacity of the client's cache
  ServerSize,   \* capacity of a server's cache
  PerServer,    \* MAX_TLS13_TICKETS_PER_SERVER
  Tickets,      \* the tickets in the order they are issued: the server, the lifetime it announces in
                \* seconds (0 is no limit), the offset its age is hidden with, and the certificate
                \* verifier and client credentials of the connection it is issued on
  MaxLifetime,  \* MAX_TICKET_LIFETIME
  Skew,         \* MAX_FRESHNESS_SKEW_MS, in seconds
  Ms,           \* the 1000 of a second
  U32,          \* 2^32
  Configs,      \* the pairs of certificate verifier and client credentials
  MaxClock,     \* bound on the clock
  None          \* no value

VARIABLES
  clock,     \* seconds
  issued,    \* number of tickets issued
  cache,     \* ClientSessionMemoryCache: LimitedCache of ServerData by name
  sessions,  \* ServerSessionMemoryCache: LimitedCache of ServerSessionValue by id
  post,      \* tickets on their way to the client
  hellos,    \* offers on their way to the server; one that arrived may arrive again
  fresh,     \* the offers taken as fresh, in order
  arrived,   \* history: the tickets the client received, in order
  taken      \* history: the tickets it took out of its cache

vars == <<clock, issued, cache, sessions, post, hellos, fresh, arrived, taken>>

-----------------------------------------------------------------------------
(* LimitedCache *)

EmptyCache == [map |-> <<>>, oldest |-> <<>>]

\* what an insertion of a new key does once the key is in: at capacity, the oldest goes
Trim(c, size) ==
  IF Len(c.oldest) = size
  THEN [map |-> Restrict(c.map, DOMAIN c.map \ {Head(c.oldest)}), oldest |-> Tail(c.oldest)]
  ELSE c

\* get_or_insert_default_and_edit, with edit as the value it leaves
GetOrInsertAndEdit(c, k, size, edited) ==
  IF k \in DOMAIN c.map THEN [c EXCEPT !.map[k] = edited]
  ELSE Trim([map |-> [x \in DOMAIN c.map \cup {k} |-> IF x = k THEN edited ELSE c.map[x]],
             oldest |-> Append(c.oldest, k)], size)

\* insert: an entry that is there is not freshened
Insert(c, k, size, v) == GetOrInsertAndEdit(c, k, size, v)

Get(c, k, default) == IF k \in DOMAIN c.map THEN c.map[k] ELSE default

RemoveKey(c, k) ==
  [map |-> Restrict(c.map, DOMAIN c.map \ {k}),
   oldest |-> SelectSeq(c.oldest, LAMBDA x : x # k)]

-----------------------------------------------------------------------------
(* persist.rs *)

\* Retrieved::has_expired
HasExpired(ticket) == ticket.lifetime # 0 /\ ticket.epoch + ticket.lifetime < clock

\* ClientSessionCommon::compatible_config: the very objects the session was made under
CompatibleConfig(ticket, config) == ticket.config = config

\* Retrieved::obfuscated_ticket_age
ObfuscatedAge(ticket) == ((clock - ticket.epoch) * Ms + ticket.ageAdd) % U32

\* ServerSessionValue::set_freshness
SetFreshness(session, age) ==
  LET client == (age - session.ageAdd) % U32
      elapsed == (clock - session.created) * Ms
      server == IF elapsed >= U32 THEN U32 - 1 ELSE elapsed
  IN  (IF server > client THEN server - client ELSE client - server) <= Skew * Ms

-----------------------------------------------------------------------------
(* ClientSessionMemoryCache *)

\* the tickets of TLS 1.3, oldest first
ServerData == [tls13 |-> <<>>]

EditClient(name, edited) == cache' = GetOrInsertAndEdit(cache, name, ClientSize, edited)

\* Faulty variant: a full queue of tickets drops the new one
PushTicketKeepsOld(q, ticket) == IF Len(q) = PerServer THEN q ELSE Append(q, ticket)

\* insert_tls13_ticket: of a full queue the oldest goes
PushTicket(q, ticket) == Append(IF Len(q) = PerServer THEN Tail(q) ELSE q, ticket)

\* a NewSessionTicket arrives
ClientReceives ==
  \E m \in post :
    LET data == Get(cache, m.name, ServerData)
        lifetime == IF m.lifetime > MaxLifetime THEN MaxLifetime ELSE m.lifetime
        ticket == [m EXCEPT !.lifetime = lifetime] @@ [epoch |-> clock]
    IN  /\ EditClient(m.name, [data EXCEPT !.tls13 = PushTicket(@, ticket)])
        /\ post' = post \ {m} /\ arrived' = Append(arrived, m)
        /\ UNCHANGED <<clock, issued, sessions, hellos, fresh, taken>>

\* set_kx_hint at the end of every handshake, set_tls12_session: the entry is made if it is not there
\* (the group and the TLS 1.2 session it holds are not told apart here)
EditEntry(name) ==
  /\ EditClient(name, Get(cache, name, ServerData))
  /\ UNCHANGED <<clock, issued, sessions, post, hellos, fresh, arrived, taken>>

\* take_tls13_ticket: the newest one goes, whether it can be used or not
TakeTls13Ticket(name) ==
  IF Get(cache, name, ServerData).tls13 = <<>> THEN cache
  ELSE [cache EXCEPT !.map[name].tls13 = Front(@)]

Usable(found, config) == found # None /\ CompatibleConfig(found, config) /\ ~HasExpired(found)

\* ClientSessionValue::retrieve, and the hello that offers what it found (only without
\* a ticket a TLS 1.2 session is looked up; it is copied, and its use is not followed here)
ClientOffers(name, config) ==
  LET data == Get(cache, name, ServerData)
      found == IF data.tls13 # <<>> THEN Last(data.tls13) ELSE None
  IN  /\ cache' = TakeTls13Ticket(name)
      /\ hellos' = IF Usable(found, config)
                   THEN hellos \cup {[ticket |-> found, age |-> ObfuscatedAge(found),
                                      to |-> name, config |-> config, sent |-> clock]}
                   ELSE hellos
      /\ taken' = taken \cup (IF found # None THEN {found.id} ELSE {})
      /\ UNCHANGED <<clock, issued, sessions, post, fresh, arrived>>

-----------------------------------------------------------------------------
(* ServerSessionMemoryCache *)

\* ServerSessionValue::new and put: a session is kept, and its id sent as the ticket
ServerIssues ==
  LET ticket == Tickets[issued'] IN
  /\ issued < Len(Tickets) /\ issued' = issued + 1
  /\ sessions' = Insert(sessions, issued', ServerSize,
                        [created |-> clock, ageAdd |-> ticket.ageAdd])
  /\ post' = post \cup {ticket @@ [id |-> issued']}
  /\ UNCHANGED <<clock, cache, hellos, fresh, arrived, taken>>

\* Faulty variant: the session stays in the cache
ServerTakesLeft(id) == sessions

\* take
ServerTakes(id) == IF id \in DOMAIN sessions.map THEN RemoveKey(sessions, id) ELSE sessions

\* an offer arrives, for the first time or again: the session is taken, and its freshness decides
\* whether the early data with it is accepted
ServerReceives(hello) ==
  LET id == hello.ticket.id
      session == Get(sessions, id, None)
  IN  /\ sessions' = ServerTakes(id)
      /\ fresh' = IF session # None /\ SetFreshness(session, hello.age)
                  THEN Append(fresh, [hello |-> hello, session |-> session, at |-> clock]) ELSE fresh
      /\ UNCHANGED <<clock, issued, cache, post, hellos, arrived, taken>>

Tick ==
  /\ clock < MaxClock /\ clock' = clock + 1
  /\ UNCHANGED <<issued, cache, sessions, post, hellos, fresh, arrived, taken>>

Init ==
  /\ clock = 0 /\ issued = 0 /\ post = {} /\ hellos = {} /\ fresh = <<>>
  /\ cache = EmptyCache /\ sessions = EmptyCache
  /\ arrived = <<>> /\ taken = {}

Next ==
  \/ \E name \in Servers :
       \/ EditEntry(name)
       \/ \E config \in Configs : ClientOffers(name, config)
  \/ ServerIssues
  \/ ClientReceives
  \/ \E hello \in hellos : ServerReceives(hello)
  \/ Tick

Spec == Init /\ [][Next]_vars

-----------------------------------------------------------------------------
\* A cache's map and its queue of the oldest name the same keys, each once, and fewer than the
\* capacity: a key missing from the queue would never be evicted, a stale one would evict too early.
Sound(c, size) ==
  /\ DOMAIN c.map = ToSet(c.oldest)
  /\ Len(c.oldest) = Cardinality(DOMAIN c.map)
  /\ Len(c.oldest) < size

\* A hello is fresh exactly when the time it and its ticket spent between the two sides is within
\* the allowed skew, whatever the offset the age is hidden with, as long as the age fits 32 bits.
FreshIsPrompt ==
  /\ \A i \in DOMAIN fresh :
       LET h == fresh[i].hello  transit == (fresh[i].at - h.sent) + (h.ticket.epoch - fresh[i].session.created)
       IN  (h.sent - h.ticket.epoch) * Ms < U32 => transit <= Skew
  /\ \A h \in hellos : LET session == Get(sessions, h.ticket.id, None) IN
       /\ session # None
       /\ (clock - h.sent) + (h.ticket.epoch - session.created) <= Skew
       /\ (clock - session.created) * Ms < U32
       => SetFreshness(session, h.age)

\* Early data is accepted at most once for a ticket, also when the hello is delivered again, and
\* only promptly (ServerSessionMemoryCache::take, set_freshness).
ReplayRefused ==
  /\ \A i, j \in DOMAIN fresh : fresh[i].hello.ticket.id = fresh[j].hello.ticket.id => i = j
  /\ FreshIsPrompt

\* The tickets a client keeps for a server are worth offering.  Each goes into one hello only,
\* whatever its connections interleave with, so two connections cannot be linked by the ticket they
\* share; what is offered was received from that server, under the verifier and the credentials in
\* use now, and its lifetime has not run out; and a newer ticket is never given up while an older
\* one is kept: what arrived after it is in the cache too, or was taken (ClientSessionMemoryCache).
TicketsWorthOffering ==
  /\ Sound(cache, ClientSize) /\ Sound(sessions, ServerSize)
  /\ \A g, h \in hellos : g.ticket.id = h.ticket.id => g = h
  /\ \A h \in hellos : /\ \E a \in DOMAIN arrived : arrived[a].id = h.ticket.id /\ arrived[a].name = h.to
                       /\ h.ticket.config = h.config
                       /\ h.ticket.lifetime # 0 => h.sent <= h.ticket.epoch + h.ticket.lifetime
  /\ \A name \in DOMAIN cache.map : LET q == cache.map[name].tls13 IN
       /\ Len(q) <= PerServer
       /\ \A i \in DOMAIN q, a, b \in DOMAIN arrived :
            /\ arrived[a].id = q[i].id /\ a < b /\ arrived[b].name = name
            => arrived[b].id \in taken \cup {q[j].id : j \in DOMAIN q}
=============================================================================
