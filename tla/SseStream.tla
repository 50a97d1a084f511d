------------------------------ MODULE SseStream ------------------------------
(***************************************************************************)
(* The event stream of the backend: routers/stream.py, lib/sse_buffer.py.  *)
(* Every connection has a Redis subscription of its own.  It names each    *)
(* event it sends by the time in ms at which it does so, since events have *)
(* no id of their own, and puts it into the replay buffer that it shares   *)
(* with the other connections of its worker.  A client that comes back     *)
(* sends the last name it saw.                                             *)
(***************************************************************************)
EXTENDS Naturals, Sequences, FiniteSets

CONSTANTS
    Clients,        \* browsers
    Conns,          \* connections, each one request at a time
    Workers,        \* worker processes of the API
    Messages,       \* what may be published
    Filter,         \* the query parameters of each client
    Window,         \* window_seconds of the buffer, in the unit of the clock
    MaxEvents,      \* bound on the events published
    MaxTime,        \* bound on the clock
    None            \* no connection, no event yet

Kinds == {"alert.opened", "alert.updated", "alert.state_changed",
          "auto_fix.dispatched", "device.health_changed", "edge.heartbeat"}

\* The kinds whose payload has a property_id, and those with a severity.
NamesProperty == {"alert.opened", "edge.heartbeat"}
HasSeverity == {"alert.opened"}

\* {} stands for an absent parameter; least = 4 for an absent min_severity.
ASSUME MessagesAssumption ==
    \A m \in Messages : m.kind \in Kinds /\ m.severity \in 1..4
ASSUME FilterAssumption ==
    \A c \in Clients : Filter[c].kinds \subseteq Kinds /\ Filter[c].least \in 1..4
ASSUME BoundAssumption == {Window, MaxEvents, MaxTime} \subseteq Nat

ASSUME NoneAssumption ==
    None \notin Conns \cup Clients \cup Workers \cup [id : Nat, event : Nat]

VARIABLES
    published,  \* the events published on Redis, in order
    now,        \* the clock of the host, in ms
    buffer,     \* the replay buffer of each worker
    phase,      \* of each connection: closed, opened (and no buffer read yet)
                \* or streaming
    client,     \* whose connection it is
    worker,     \* which worker serves it
    since,      \* history: what had been published when it was subscribed
    next,       \* the event that Redis will give it next, 0 before Redis knows it
    replay,     \* what it has still to replay
    listening,  \* the connection that each client listens on
    last,       \* the entry that each client received last: its id is what
                \* the client will send as Last-Event-ID
    got         \* history: events that each client has received

connVars == <<phase, client, worker, since, next, replay>>
clientVars == <<listening, last, got>>
vars == <<published, now, buffer, connVars, clientVars>>

Events == 1..Len(published)
Entry == [id : 0..MaxTime, event : Events]

-----------------------------------------------------------------------------
(* Channels, filter and buffer.                                            *)

\* The channels that a client subscribes to carry this event.
Hears(c, m) == Filter[c].properties = {} \/ m.property \in Filter[c].properties

\* _passes_filter.  An event without the field fails the first test and passes
\* the last.
Passes(c, m) ==
    /\ Filter[c].properties # {} =>
            m.kind \in NamesProperty /\ m.property \in Filter[c].properties
    /\ Filter[c].kinds # {} => m.kind \in Filter[c].kinds
    /\ m.kind \in HasSeverity => m.severity <= Filter[c].least

Sends(c, n) == Hears(c, published[n]) /\ Passes(c, published[n])

\* Mutant of EventsSince: searches from the end.
EventsSinceLast(buf, id) ==
    LET upTo == {i \in 1..Len(buf) : \E j \in i..Len(buf) : buf[j].id = id}
    IN  SubSeq(buf, Cardinality(upTo) + 1, Len(buf))

\* SseReplayBuffer.events_since: what follows the first entry of that id, and
\* nothing if there is none.
EventsSince(buf, id) ==
    LET before == {i \in 1..Len(buf) : \A j \in 1..i : buf[j].id # id}
    IN  SubSeq(buf, Cardinality(before) + 2, Len(buf))

\* Mutant of Add: nothing is ever dropped.
AddUntrimmed(buf, e) == Append(buf, e)

\* SseReplayBuffer.add.  The old entries are the first ones.
Add(buf, e) ==
    LET old == {i \in 1..Len(buf) : buf[i].id + Window < now}
    IN  Append(SubSeq(buf, Cardinality(old) + 1, Len(buf)), e)

-----------------------------------------------------------------------------
(* The server.                                                             *)

\* A client connects: the SUBSCRIBE is sent, its effect is not waited for.
Open(c, k, w) ==
    /\ listening[c] = None /\ phase[k] = "closed"
    /\ listening' = [listening EXCEPT ![c] = k]
    /\ phase' = [phase EXCEPT ![k] = "opened"]
    /\ client' = [client EXCEPT ![k] = c]
    /\ worker' = [worker EXCEPT ![k] = w]
    /\ UNCHANGED <<published, now, buffer, since, next, replay, last, got>>

\* SUBSCRIBE takes effect: events from now on will reach the connection.
Subscribed(k) ==
    /\ phase[k] # "closed" /\ next[k] = 0
    /\ since' = [since EXCEPT ![k] = Len(published)]
    /\ next' = [next EXCEPT ![k] = Len(published) + 1]
    /\ UNCHANGED <<published, now, buffer, phase, client, worker, replay, clientVars>>

\* The buffer is read once, before the first event is sent from it.
StartReplay(k) ==
    /\ phase[k] = "opened"
    /\ phase' = [phase EXCEPT ![k] = "streaming"]
    /\ LET from == last[client[k]]
       IN  replay' = [replay EXCEPT ![k] =
               IF from = None THEN <<>> ELSE EventsSince(buffer[worker[k]], from.id)]
    /\ UNCHANGED <<published, now, buffer, client, worker, since, next, clientVars>>

\* An entry is sent on connection k.
Receive(k, e) ==
    LET c == client[k]
    IN  IF listening[c] = k
        THEN /\ last' = [last EXCEPT ![c] = e]
             /\ got' = [got EXCEPT ![c] = @ \cup {e.event}]
        ELSE UNCHANGED <<last, got>>

\* Mutant of Replay: what the buffer holds for others is sent as well.
ReplayUnfiltered(k) ==
    /\ phase[k] = "streaming" /\ replay[k] # <<>>
    /\ Receive(k, Head(replay[k]))
    /\ replay' = [replay EXCEPT ![k] = Tail(@)]
    /\ UNCHANGED <<published, now, buffer, phase, client, worker, since, next, listening>>

\* The next entry of the replay is sent, if it passes.
Replay(k) ==
    /\ phase[k] = "streaming" /\ replay[k] # <<>>
    /\ LET e == Head(replay[k])
       IN  IF Passes(client[k], published[e.event])
           THEN Receive(k, e) ELSE UNCHANGED <<last, got>>
    /\ replay' = [replay EXCEPT ![k] = Tail(@)]
    /\ UNCHANGED <<published, now, buffer, phase, client, worker, since, next, listening>>

\* After ": connected", an event waits in the subscription.
Pending(k) == /\ phase[k] = "streaming" /\ replay[k] = <<>>
              /\ next[k] \in 1..Len(published)

\* Mutant of Skip: all that waits is dropped with the event.
SkipAll(k) ==
    /\ Pending(k) /\ ~Sends(client[k], next[k])
    /\ next' = [next EXCEPT ![k] = Len(published) + 1]
    /\ UNCHANGED <<published, now, buffer, phase, client, worker, since, replay, clientVars>>

\* The next event is on no channel of the client, or does not pass.
Skip(k) ==
    /\ Pending(k) /\ ~Sends(client[k], next[k])
    /\ next' = [next EXCEPT ![k] = @ + 1]
    /\ UNCHANGED <<published, now, buffer, phase, client, worker, since, replay, clientVars>>

\* The next event is buffered, then sent.
Deliver(k) ==
    /\ Pending(k) /\ Sends(client[k], next[k])
    /\ LET e == [id |-> now, event |-> next[k]]
       IN  /\ buffer' = [buffer EXCEPT ![worker[k]] = Add(@, e)]
           /\ Receive(k, e)
    /\ next' = [next EXCEPT ![k] = @ + 1]
    /\ UNCHANGED <<published, now, phase, client, worker, since, replay, listening>>

\* Connections that nothing is left of.
Forget(gone) ==
    LET Reset(f, value) == [k \in Conns |-> IF k \in gone THEN value ELSE f[k]]
    IN  /\ phase' = Reset(phase, "closed")
        /\ client' = Reset(client, None) /\ worker' = Reset(worker, None)
        /\ since' = Reset(since, 0) /\ next' = Reset(next, 0)
        /\ replay' = Reset(replay, <<>>)

\* The generator ends, having noticed that nobody listens any more.  When an
\* exception ends it and with it the connection, Drop comes first.
Close(k) ==
    /\ phase[k] # "closed"
    /\ \A c \in Clients : listening[c] # k
    /\ Forget({k})
    /\ UNCHANGED <<published, now, buffer, clientVars>>

\* A worker dies, with its connections and its buffer, and is started again.
Crash(w) ==
    LET gone == {k \in Conns : worker[k] = w}
    IN  /\ Forget(gone)
        /\ listening' = [c \in Clients |->
                            IF listening[c] \in gone THEN None ELSE listening[c]]
        /\ buffer' = [buffer EXCEPT ![w] = <<>>]
        /\ UNCHANGED <<published, now, last, got>>

-----------------------------------------------------------------------------
(* Its surroundings.                                                       *)

\* The outbox poller of some worker publishes an event.
Publish ==
    /\ Len(published) < MaxEvents
    /\ \E m \in Messages : published' = Append(published, m)
    /\ UNCHANGED <<now, buffer, connVars, clientVars>>

Tick ==
    /\ now < MaxTime
    /\ now' = now + 1
    /\ UNCHANGED <<published, buffer, connVars, clientVars>>

\* The network drops a client; the server does not know yet.
Drop(c) ==
    /\ listening[c] # None
    /\ listening' = [listening EXCEPT ![c] = None]
    /\ UNCHANGED <<published, now, buffer, connVars, last, got>>

-----------------------------------------------------------------------------
Init ==
    /\ published = <<>>
    /\ now = 0
    /\ buffer = [w \in Workers |-> <<>>]
    /\ phase = [k \in Conns |-> "closed"]
    /\ client = [k \in Conns |-> None]
    /\ worker = [k \in Conns |-> None]
    /\ since = [k \in Conns |-> 0]
    /\ next = [k \in Conns |-> 0]
    /\ replay = [k \in Conns |-> <<>>]
    /\ listening = [c \in Clients |-> None]
    /\ last = [c \in Clients |-> None]
    /\ got = [c \in Clients |-> {}]

Serve(k) == Subscribed(k) \/ StartReplay(k) \/ Replay(k) \/ Skip(k) \/ Deliver(k)

Next ==
    \/ \E k \in Conns : Serve(k) \/ Close(k)
    \/ \E c \in Clients, k \in Conns, w \in Workers : Open(c, k, w)
    \/ \E w \in Workers : Crash(w)
    \/ \E c \in Clients : Drop(c)
    \/ Publish
    \/ Tick

SafeSpec == Init /\ [][Next]_vars

-----------------------------------------------------------------------------
\* The types of the variables; buffers are in the order of time and span no more
\* than the window.
TypeOK ==
    /\ published \in Seq(Messages)
    /\ now \in 0..MaxTime
    /\ buffer \in [Workers -> Seq(Entry)]
    /\ phase \in [Conns -> {"closed", "opened", "streaming"}]
    /\ client \in [Conns -> Clients \cup {None}]
    /\ worker \in [Conns -> Workers \cup {None}]
    /\ since \in [Conns -> 0..Len(published)]
    /\ next \in [Conns -> 0..(Len(published) + 1)]
    /\ replay \in [Conns -> Seq(Entry)]
    /\ listening \in [Clients -> Conns \cup {None}]
    /\ \A k \in Conns : IF phase[k] = "closed"
                        THEN client[k] = None /\ worker[k] = None /\ next[k] = 0
                        ELSE client[k] # None /\ worker[k] # None
    /\ \A c \in Clients : listening[c] # None => client[listening[c]] = c
    /\ last \in [Clients -> Entry \cup {None}]
    /\ got \in [Clients -> SUBSET Events]
    /\ \A w \in Workers : \A i, j \in 1..Len(buffer[w]) :
            i < j => /\ buffer[w][i].id <= buffer[w][j].id
                     /\ buffer[w][j].id <= buffer[w][i].id + Window

\* What a client has received passes its filter, replayed from what others were
\* sent or not.
OnlyWhatWasAskedFor ==
    \A c \in Clients : \A n \in got[c] : Passes(c, published[n])

\* A client that stays connected misses nothing from the moment its
\* subscription took effect: not what is published during the replay, nor what
\* comes between events that do not pass.
NoGapWhileConnected ==
    \A c \in Clients :
        LET k == listening[c]
        IN  k # None =>
              \A n \in (since[k] + 1)..(next[k] - 1) :
                  Sends(c, n) => n \in got[c]

\* A client that returns to its worker is sent all that the worker has handled
\* since, for whichever client, if the id it saw last is still in the buffer:
\* although two events may have been given the same id.
ReplaySkipsNothing ==
    [][\A k \in Conns :
        phase[k] = "opened" /\ phase'[k] = "streaming" =>
            LET from == last[client[k]]
                buf == buffer[worker[k]]
            IN  \A i, j \in 1..Len(buf) :
                  from # None /\ from.id = buf[i].id /\ i < j =>
                      \E r \in 1..Len(replay'[k]) : replay'[k][r] = buf[j]]_vars

\* "On reconnect it replays every event that happened while the client was
\* disconnected" (alert_frontend_integration.md): what was published since a
\* client's last event, which its worker still remembers, can be replayed to
\* it.  Said only of moments at which nobody is connected, when every event
\* published has been handled or never will be.
ReplayIsComplete ==
    \A c \in Clients, w \in Workers :
        LET found == EventsSince(buffer[w], last[c].id)
        IN  /\ \A k \in Conns : phase[k] = "closed"
            /\ \E i \in 1..Len(buffer[w]) : buffer[w][i] = last[c]
            => \A n \in (last[c].event + 1)..Len(published) :
                  Sends(c, n) => \E j \in 1..Len(found) : found[j].event = n

\* A client that asks for a property, and for all kinds of events, is sent the
\* state changes of its alerts (alert_frontend_integration.md, example).
PropertyIsFollowed ==
    \A c \in Clients :
        LET k == listening[c]
            f == Filter[c]
        IN  k # None /\ f.properties # {} /\ f.kinds = {} /\ f.least = 4 =>
              \A n \in (since[k] + 1)..(next[k] - 1) :
                  Hears(c, published[n]) => n \in got[c]

=============================================================================
