------------------------------ MODULE Delivery ------------------------------
(***************************************************************************)
(* From the outbox of one house to its members' clients: the relay loops   *)
(* of src/backend/app/outbox.py, Redis pub/sub, and the WebSocket gateway  *)
(* of ws.py.  Every API worker runs a relay, a consumer of the Redis       *)
(* channel and the sockets of the clients connected to it.                 *)
(*                                                                         *)
(* Within a worker an asyncio task runs from one await to the next without *)
(* interruption: each action is such a stretch, or one statement of the    *)
(* database.  That events appear in the order of their numbers is a        *)
(* property of LedgerEngine.                                               *)
(***************************************************************************)
EXTENDS Integers, Sequences, FiniteSets, SequencesExt

CONSTANTS
    Workers,
    Gateways,       \* the workers that clients connect to
    Clients,        \* users, each with one client
    Batch,          \* BATCH
    QueueMax,       \* QUEUE_MAX
    ReplayLimit,    \* REPLAY_LIMIT
    MaxEvents,      \* bound on the events of the house
    MaxFaults       \* bound on failures, of all kinds together

ASSUME GatewaysAssumption == Gateways \subseteq Workers
ASSUME BoundsAssumption ==
    /\ Batch \in Nat \ {0} /\ QueueMax \in Nat \ {0} /\ ReplayLimit \in Nat
    /\ MaxEvents \in Nat /\ MaxFaults \in Nat

VARIABLES
    log,        \* committed events, [type, user] at the index of their seq
    active,     \* the active members
    published,  \* numbers of the events with a published_at
    relay,      \* worker -> [claim, left]: the batch it has locked, and what of it is not out
    aired,      \* numbers published on the channel so far, marked or not
    linked,     \* gateway -> whether its consumer is subscribed to Redis
    wire,       \* gateway -> what its consumer has yet to read
    sock,       \* client -> its socket
    seen,       \* client -> numbers of the events it knows of
    faults

events == <<log, active>>
backplane == <<published, relay, aired, linked, wire>>
vars == <<events, backplane, sock, seen, faults>>

-----------------------------------------------------------------------------

Null == -1      \* last_seq: null
Resync == 0     \* the frame that sends a client back to REST
Nowhere == "nowhere"

Fact == [type |-> "fact", user |-> Nowhere]
Seqs == 1..Len(log)

EventTypes == {"fact", "member.left", "member.joined"}
Messages == [type : EventTypes, user : Clients \cup {Nowhere}]
Batches == [claim : SUBSET Seqs, left : SUBSET Seqs]

Free == [claim |-> {}, left |-> {}]

\* step: where _handle_subscribe stands;  last: the last_seq it was asked with;
\* upto: the highest number its latest SELECT saw;  close: "soon" if close_code
\* is set while _sender may have one more frame in hand;  base and sound are not
\* in the code: what lies above base was promised, and sound says whether the
\* worker's link to Redis has held since.
NoSocket == [worker |-> Nowhere, step |-> "idle", last |-> Null, upto |-> 0, live |-> FALSE,
             close |-> "no", queue |-> <<>>, base |-> 0, sound |-> FALSE]

Sockets ==
    [worker : Gateways \cup {Nowhere}, step : {"idle", "count", "register", "replay", "send"},
     last : {Null} \cup 0..Len(log), upto : 0..Len(log), live : BOOLEAN,
     close : {"no", "soon", "now"}, queue : Seq({Resync} \cup Seqs),
     base : 0..Len(log), sound : BOOLEAN]

\* (Faulty: the queue is unbounded.)
TrySendUnbounded(s, frame) == [s EXCEPT !.queue = Append(@, frame)]

\* try_send: a frame that finds the queue full closes the socket.
TrySend(s, frame) ==
    IF Len(s.queue) < QueueMax
    THEN [s EXCEPT !.queue = Append(@, frame)]
    ELSE [s EXCEPT !.close = IF @ = "no" THEN "soon" ELSE @]

\* A client asks for what follows all it knows of without a gap.
IsLastSeq(n, c) == 1..n \subseteq seen[c] /\ n + 1 \notin seen[c]

Init ==
    /\ log = <<>>
    /\ active = Clients
    /\ published = {}
    /\ relay = [w \in Workers |-> Free]
    /\ aired = {}
    /\ linked = [w \in Gateways |-> TRUE]
    /\ wire = [w \in Gateways |-> <<>>]
    /\ sock = [c \in Clients |-> NoSocket]
    /\ seen = [c \in Clients |-> {}]
    /\ faults = 0

-----------------------------------------------------------------------------
(* Handlers commit events (see LedgerEngine, Membership).                  *)

Emit ==
    /\ Len(log) < MaxEvents
    /\ log' = Append(log, Fact)
    /\ UNCHANGED <<active, backplane, sock, seen, faults>>

Leave(c) ==
    /\ Len(log) < MaxEvents
    /\ c \in active
    /\ active' = active \ {c}
    /\ log' = Append(log, [type |-> "member.left", user |-> c])
    /\ UNCHANGED <<backplane, sock, seen, faults>>

Rejoin(c) ==
    /\ Len(log) < MaxEvents
    /\ c \notin active
    /\ active' = active \cup {c}
    /\ log' = Append(log, [type |-> "member.joined", user |-> c])
    /\ UNCHANGED <<backplane, sock, seen, faults>>

-----------------------------------------------------------------------------
(* relay_once                                                              *)

Locked == UNION {relay[w].claim : w \in Workers}

\* SELECT ... WHERE published_at IS NULL ORDER BY seq LIMIT FOR UPDATE SKIP LOCKED
Claim(w) ==
    /\ relay[w] = Free
    /\ LET pending == Seqs \ (published \cup Locked)
           batch == {n \in pending : Cardinality({m \in pending : m < n}) < Batch}
       IN  /\ pending # {}
           /\ relay' = [relay EXCEPT ![w] = [claim |-> batch, left |-> batch]]
    /\ UNCHANGED <<events, published, aired, linked, wire, sock, seen, faults>>

\* The next event of the batch: Redis hands it to the consumers that are
\* subscribed at this moment.
Publish(w) ==
    /\ \E n \in relay[w].left :
          /\ \A m \in relay[w].left : n <= m
          /\ aired' = aired \cup {n}
          /\ wire' = [v \in Gateways |-> IF linked[v] THEN Append(wire[v], n) ELSE wire[v]]
          /\ relay' = [relay EXCEPT ![w].left = @ \ {n}]
    /\ UNCHANGED <<events, published, linked, sock, seen, faults>>

\* (Faulty: UPDATE ... WHERE published_at IS NULL.)
CommitAllPending(w) ==
    /\ relay[w] # Free
    /\ relay[w].left = {}
    /\ published' = Seqs
    /\ relay' = [relay EXCEPT ![w] = Free]
    /\ UNCHANGED <<events, aired, linked, wire, sock, seen, faults>>

\* (Faulty: the session is not committed.)
CommitNothing(w) ==
    /\ relay[w] # Free
    /\ relay[w].left = {}
    /\ relay' = [relay EXCEPT ![w] = Free]
    /\ UNCHANGED <<events, published, aired, linked, wire, sock, seen, faults>>

CommitBatch(w) ==
    /\ relay[w] # Free
    /\ relay[w].left = {}
    /\ published' = published \cup relay[w].claim
    /\ relay' = [relay EXCEPT ![w] = Free]
    /\ UNCHANGED <<events, aired, linked, wire, sock, seen, faults>>

\* Redis or the database fails: the batch is rolled back, what went out is out.
FailBatch(w) ==
    /\ faults < MaxFaults /\ faults' = faults + 1
    /\ relay[w] # Free
    /\ relay' = [relay EXCEPT ![w] = Free]
    /\ UNCHANGED <<events, published, aired, linked, wire, sock, seen>>

-----------------------------------------------------------------------------
(* backplane_consumer and _dispatch                                        *)

Hear(s, c, n) ==
    IF log[n] = [type |-> "member.left", user |-> c] THEN [s EXCEPT !.close = IF @ = "no" THEN "soon" ELSE @]
    ELSE IF s.close = "no" THEN TrySend(s, n)
    ELSE s

Dispatch(w) ==
    /\ wire[w] # <<>>
    /\ wire' = [wire EXCEPT ![w] = Tail(@)]
    /\ sock' = [c \in Clients |-> IF sock[c].worker = w /\ sock[c].live
                                  THEN Hear(sock[c], c, Head(wire[w]))
                                  ELSE sock[c]]
    /\ UNCHANGED <<events, published, relay, aired, linked, seen, faults>>

\* The connection to Redis breaks; pub/sub keeps nothing for who is away.
Unlink(w) ==
    /\ faults < MaxFaults /\ faults' = faults + 1
    /\ linked[w]
    /\ linked' = [linked EXCEPT ![w] = FALSE]
    /\ wire' = [wire EXCEPT ![w] = <<>>]
    /\ sock' = [c \in Clients |-> IF sock[c].worker = w
                                  THEN [sock[c] EXCEPT !.sound = FALSE] ELSE sock[c]]
    /\ UNCHANGED <<events, published, relay, aired, seen>>

Relink(w) ==
    /\ ~linked[w]
    /\ linked' = [linked EXCEPT ![w] = TRUE]
    /\ UNCHANGED <<events, published, relay, aired, wire, sock, seen, faults>>

\* The worker dies and starts again: its transaction and its sockets are gone.
Crash(w) ==
    /\ faults < MaxFaults /\ faults' = faults + 1
    /\ relay' = [relay EXCEPT ![w] = Free]
    /\ linked' = [v \in Gateways |-> v # w /\ linked[v]]
    /\ wire' = [v \in Gateways |-> IF v = w THEN <<>> ELSE wire[v]]
    /\ sock' = [c \in Clients |-> IF sock[c].worker = w THEN NoSocket ELSE sock[c]]
    /\ UNCHANGED <<events, published, aired, seen>>

-----------------------------------------------------------------------------
(* One socket: handle_socket, _receiver, _sender.                          *)

\* auth accepted, registry.add
Open(c, w) ==
    /\ sock[c] = NoSocket
    /\ sock' = [sock EXCEPT ![c] = [NoSocket EXCEPT !.worker = w]]
    /\ UNCHANGED <<events, backplane, seen, faults>>

Lesser(a, b) == IF a < b THEN a ELSE b

At(c, step) == sock[c].worker # Nowhere /\ sock[c].step = step

\* A subscribe frame is read, and resolve_role finds an active member; others
\* get an error frame.
Subscribe(c) ==
    /\ At(c, "idle") /\ sock[c].close = "no"
    /\ c \in active
    /\ \E last \in {Null} \cup 0..Len(log) :
          /\ last # Null => IsLastSeq(last, c)
          /\ sock' = [sock EXCEPT ![c].step = "count", ![c].last = last]
    /\ UNCHANGED <<events, backplane, seen, faults>>

\* current_seq
ReadSeq(c) ==
    /\ At(c, "count")
    /\ sock' = [sock EXCEPT ![c].step = "register", ![c].upto = Len(log)]
    /\ UNCHANGED <<events, backplane, seen, faults>>

TooFarBehind(s) == s.last # Null /\ s.upto - s.last > ReplayLimit

Done(s) == [s EXCEPT !.step = "idle", !.last = Null, !.upto = 0]

Registered(c) ==
    LET s == [sock[c] EXCEPT !.live = TRUE, !.sound = linked[sock[c].worker]]
    IN  IF s.last = Null THEN Done([s EXCEPT !.base = Len(log)])
        ELSE [s EXCEPT !.base = s.last, !.step = "replay"]

\* (Faulty: what is replayed is what was read before going live.)
RegisterAfterRead(c) ==
    /\ At(c, "register")
    /\ sock' = [sock EXCEPT ![c] =
          IF TooFarBehind(sock[c]) THEN Done(TrySend(sock[c], Resync))
          ELSE [Registered(c) EXCEPT !.step = IF @ = "replay" THEN "send" ELSE @]]
    /\ UNCHANGED <<events, backplane, seen, faults>>

\* registry.subscribe, or a resync frame.
Register(c) ==
    /\ At(c, "register")
    /\ sock' = [sock EXCEPT ![c] =
          IF TooFarBehind(sock[c]) THEN Done(TrySend(sock[c], Resync))
          ELSE Registered(c)]
    /\ UNCHANGED <<events, backplane, seen, faults>>

\* SELECT ... WHERE seq > last_seq
ReadReplay(c) ==
    /\ At(c, "replay")
    /\ sock' = [sock EXCEPT ![c].step = "send", ![c].upto = Len(log)]
    /\ UNCHANGED <<events, backplane, seen, faults>>

\* Every row as TrySend would have it, one after the other.
Replayed(s) ==
    LET missed == s.upto - s.last
        room == QueueMax - Len(s.queue)
    IN  [s EXCEPT !.queue = @ \o [i \in 1..Lesser(missed, room) |-> s.last + i],
                  !.close = IF @ = "no" /\ missed > room THEN "soon" ELSE @]

\* The rows go into the queue in one stretch: _sender cannot run meanwhile.
SendReplay(c) ==
    /\ At(c, "send")
    /\ sock' = [sock EXCEPT ![c] = Done(Replayed(@))]
    /\ UNCHANGED <<events, backplane, seen, faults>>

Unsubscribe(c) ==
    /\ At(c, "idle") /\ sock[c].close = "no"
    /\ sock[c].live
    /\ sock' = [sock EXCEPT ![c] = [@ EXCEPT !.live = FALSE, !.base = 0, !.sound = FALSE]]
    /\ UNCHANGED <<events, backplane, seen, faults>>

\* _sender passes on a frame; the client keeps what is new to it, in whatever
\* order it comes, and on a resync loads the house's state over REST.
Send(c) ==
    /\ sock[c].queue # <<>>
    /\ sock[c].close # "now"
    /\ sock' = [sock EXCEPT ![c].queue = Tail(@),
                            ![c].close = IF @ = "soon" THEN "now" ELSE @]
    /\ LET frame == Head(sock[c].queue)
       IN  seen' = [seen EXCEPT ![c] =
              IF frame # Resync THEN @ \cup {frame}
              ELSE IF c \in active THEN @ \cup Seqs ELSE @]
    /\ UNCHANGED <<events, backplane, faults>>

\* A task has seen close_code: the tasks unwind and the registry forgets it.
CloseSocket(c) ==
    /\ sock[c].close # "no"
    /\ sock' = [sock EXCEPT ![c] = NoSocket]
    /\ UNCHANGED <<events, backplane, seen, faults>>

\* The client goes away, misses its pings or lets its token expire.
Drop(c) ==
    /\ sock[c] # NoSocket
    /\ sock' = [sock EXCEPT ![c] = NoSocket]
    /\ UNCHANGED <<events, backplane, seen, faults>>

-----------------------------------------------------------------------------

Relay(w) == Claim(w) \/ Publish(w) \/ CommitBatch(w)
Serve(c) == ReadSeq(c) \/ Register(c) \/ ReadReplay(c) \/ SendReplay(c)
Consume(w) == Dispatch(w) \/ Unlink(w) \/ Relink(w)
Visit(c) == (\E w \in Gateways : Open(c, w)) \/ Subscribe(c) \/ Unsubscribe(c) \/ Drop(c)

Next ==
    \/ Emit
    \/ \E w \in Workers : Relay(w) \/ FailBatch(w) \/ Crash(w)
    \/ \E w \in Gateways : Consume(w)
    \/ \E c \in Clients :
          Leave(c) \/ Rejoin(c) \/ Visit(c) \/ Serve(c) \/ Send(c) \/ CloseSocket(c)

Spec == Init /\ [][Next]_vars

\* The loops of a worker go on: relay and consumer retry after every error, and
\* the event loop runs each task that can run.  Nothing makes a client connect,
\* stay or subscribe, or an event happen.
FairSpec ==
    /\ Spec
    /\ \A w \in Workers : WF_vars(Relay(w))
    /\ \A w \in Gateways : WF_vars(Dispatch(w)) /\ WF_vars(Relink(w))
    /\ \A c \in Clients : WF_vars(Serve(c)) /\ WF_vars(Send(c)) /\ WF_vars(CloseSocket(c))

-----------------------------------------------------------------------------
(* What a client may rely on.                                              *)

TypeOK ==
    /\ log \in Seq(Messages) /\ Len(log) <= MaxEvents
    /\ active \subseteq Clients
    /\ published \subseteq Seqs /\ aired \subseteq Seqs
    /\ relay \in [Workers -> Batches]
    /\ \A w \in Workers : relay[w].left \subseteq relay[w].claim
    /\ linked \in [Gateways -> BOOLEAN]
    /\ wire \in [Gateways -> Seq(Seqs)]
    /\ sock \in [Clients -> Sockets]
    /\ \A c \in Clients : Len(sock[c].queue) <= QueueMax
    /\ seen \in [Clients -> SUBSET Seqs]
    /\ faults \in 0..MaxFaults

\* A socket that is subscribed, not closing, on a worker that has not lost Redis.
Served(c) == sock[c].live /\ sock[c].close = "no" /\ sock[c].sound

\* "Live BEFORE replay: no gap window": whatever the relays, the dispatch and the
\* replay do in between, each event above the client's last_seq is known to the
\* client, on its way to it, about to be replayed or not yet published.  An
\* event is dropped only with the whole socket.
NothingLost ==
    \A c \in Clients : Served(c) =>
        \A n \in (sock[c].base + 1)..Len(log) :
            \/ n \in seen[c] \cup ToSet(sock[c].queue) \cup ToSet(wire[sock[c].worker])
            \/ n \notin aired
            \/ sock[c].step = "replay"
            \/ sock[c].step = "send" /\ n <= sock[c].upto

\* A served client catches up, unless it is cut off: duplicates, reordering between
\* relays and failed batches hold nothing back that it was promised.
ServedCatchUp ==
    \A c \in Clients :
        Served(c) ~> (sock[c].base + 1)..Len(log) \subseteq seen[c] \/ ~Served(c)

\* "Redis failure rolls the batch back - events stay pending and are retried": time
\* and again every committed event is marked as published.
RelayDrains == []<>(published = Seqs)

\* "Membership-revocation eviction (member.left -> close 4403)": one who has
\* left does not stay subscribed.
LeaversAreEvicted == \A c \in Clients : c \notin active ~> c \in active \/ ~sock[c].live

=============================================================================
