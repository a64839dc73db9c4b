--------------------------- MODULE DeliveryProofs ---------------------------
(***************************************************************************)
(* Proofs about Delivery for any number of workers, gateways, clients,     *)
(* events and failures, and any batch, queue and replay limit.             *)
(***************************************************************************)
EXTENDS Delivery, TLAPS

-----------------------------------------------------------------------------
(* Sequences.                                                              *)

LEMMA SeqGrows ==
    ASSUME NEW S, NEW T, S \subseteq T, NEW s \in Seq(S)
    PROVE  s \in Seq(T)
  OBVIOUS

LEMMA AppendAdds ==
    ASSUME NEW S, NEW s \in Seq(S), NEW x \in S
    PROVE  /\ Append(s, x) \in Seq(S) /\ Len(Append(s, x)) = Len(s) + 1
           /\ ToSet(Append(s, x)) = ToSet(s) \cup {x}
<1>1. /\ Append(s, x) \in Seq(S) /\ Len(Append(s, x)) = Len(s) + 1
      /\ \A i \in 1..Len(s) : Append(s, x)[i] = s[i]
      /\ Append(s, x)[Len(s) + 1] = x
  OBVIOUS
<1>2. DOMAIN s = 1..Len(s) /\ DOMAIN Append(s, x) = 1..(Len(s) + 1) /\ Len(s) \in Nat
  BY <1>1
<1>3. 1..(Len(s) + 1) = 1..Len(s) \cup {Len(s) + 1}
  BY <1>2
<1> QED
  BY <1>1, <1>2, <1>3 DEF ToSet

LEMMA TailTakes ==
    ASSUME NEW S, NEW s \in Seq(S), s # <<>>
    PROVE  /\ Tail(s) \in Seq(S) /\ Len(Tail(s)) = Len(s) - 1 /\ Head(s) \in S
           /\ ToSet(s) = {Head(s)} \cup ToSet(Tail(s))
<1>1. /\ Tail(s) \in Seq(S) /\ Len(Tail(s)) = Len(s) - 1 /\ Head(s) = s[1] /\ Head(s) \in S
      /\ \A i \in 1..(Len(s) - 1) : Tail(s)[i] = s[i + 1]
      /\ Len(s) \in Nat \ {0}
  OBVIOUS
<1>2. DOMAIN s = 1..Len(s) /\ DOMAIN Tail(s) = 1..(Len(s) - 1)
  BY <1>1
<1>3. ASSUME NEW x \in ToSet(s)
      PROVE  x = Head(s) \/ x \in ToSet(Tail(s))
  <2>1. PICK i \in 1..Len(s) : x = s[i]
    BY <1>2 DEF ToSet
  <2>2. CASE i # 1
    <3>1. i - 1 \in 1..(Len(s) - 1) /\ Tail(s)[i - 1] = s[i]
      BY <1>1, <2>2
    <3> QED
      BY <1>2, <2>1, <3>1 DEF ToSet
  <2> QED
    BY <1>1, <2>1, <2>2
<1>4. ASSUME NEW x \in ToSet(Tail(s))
      PROVE  x \in ToSet(s)
  <2>1. PICK i \in 1..(Len(s) - 1) : x = s[i + 1]
    BY <1>1, <1>2 DEF ToSet
  <2>2. i + 1 \in 1..Len(s)
    BY <1>1
  <2> QED
    BY <1>2, <2>1, <2>2 DEF ToSet
<1>5. Head(s) \in ToSet(s)
  BY <1>1, <1>2 DEF ToSet
<1> QED
  BY <1>1, <1>3, <1>4, <1>5

LEMMA ConcatJoins ==
    ASSUME NEW S, NEW s \in Seq(S), NEW t \in Seq(S)
    PROVE  /\ s \o t \in Seq(S) /\ Len(s \o t) = Len(s) + Len(t)
           /\ ToSet(s) \subseteq ToSet(s \o t) /\ ToSet(t) \subseteq ToSet(s \o t)
<1>1. /\ s \o t \in Seq(S) /\ Len(s \o t) = Len(s) + Len(t)
      /\ \A i \in 1..Len(s) : (s \o t)[i] = s[i]
      /\ \A i \in 1..Len(t) : (s \o t)[Len(s) + i] = t[i]
      /\ Len(s) \in Nat /\ Len(t) \in Nat
  OBVIOUS
<1>2. DOMAIN s = 1..Len(s) /\ DOMAIN t = 1..Len(t) /\ DOMAIN (s \o t) = 1..(Len(s) + Len(t))
  BY <1>1
<1>3. \A i \in 1..Len(s) : i \in 1..(Len(s) + Len(t))
  BY <1>1
<1>4. \A i \in 1..Len(t) : Len(s) + i \in 1..(Len(s) + Len(t))
  BY <1>1
<1> QED
  BY <1>1, <1>2, <1>3, <1>4 DEF ToSet

-----------------------------------------------------------------------------
(* The invariant.                                                          *)

\* What a socket has while it is replayed to, and where it may stand.
SocketOK(s) ==
    /\ s \in Sockets /\ Len(s.queue) <= QueueMax
    /\ s.step \in {"replay", "send"} => s.last # Null /\ s.base = s.last
    /\ s.live \/ s.sound => s.worker # Nowhere
    /\ s.sound => linked[s.worker]

\* Of what a socket was promised, an event is known, on its way, or about to be
\* replayed, or has yet to be published.
Covers(s, known) ==
    s.live /\ s.close = "no" /\ s.sound =>
        \A n \in (s.base + 1)..Len(log) :
            \/ n \in known \cup ToSet(s.queue) \cup ToSet(wire[s.worker])
            \/ n \notin aired
            \/ s.step = "replay"
            \/ s.step = "send" /\ n <= s.upto

\* All but the sockets.
BackplaneOK ==
    /\ log \in Seq(Messages) /\ Len(log) <= MaxEvents
    /\ active \subseteq Clients
    /\ published \subseteq Seqs /\ aired \subseteq Seqs
    /\ relay \in [Workers -> Batches]
    /\ \A w \in Workers : relay[w].left \subseteq relay[w].claim
    /\ linked \in [Gateways -> BOOLEAN]
    /\ wire \in [Gateways -> Seq(Seqs)]
    /\ seen \in [Clients -> SUBSET Seqs]
    /\ faults \in 0..MaxFaults

SocketsOK ==
    /\ sock = [c \in Clients |-> sock[c]]
    /\ \A c \in Clients : SocketOK(sock[c]) /\ Covers(sock[c], seen[c])

Inv == BackplaneOK /\ SocketsOK

LEMMA InvIsEnough == Inv => TypeOK /\ NothingLost
<1> SUFFICES ASSUME Inv
             PROVE  TypeOK /\ NothingLost
  OBVIOUS
<1>1. sock \in [Clients -> Sockets] /\ \A c \in Clients : Len(sock[c].queue) <= QueueMax
  BY DEF Inv, SocketsOK, SocketOK
<1>2. TypeOK
  BY <1>1 DEF Inv, BackplaneOK, TypeOK
<1>3. NothingLost
  BY DEF Inv, SocketsOK, Covers, NothingLost, Served
<1> QED
  BY <1>2, <1>3

LEMMA SocketParts ==
    ASSUME NEW s \in Sockets
    PROVE  /\ s.worker \in Gateways \cup {Nowhere}
           /\ s.step \in {"idle", "count", "register", "replay", "send"}
           /\ s.last \in {Null} \cup 0..Len(log) /\ s.upto \in 0..Len(log)
           /\ s.live \in BOOLEAN /\ s.close \in {"no", "soon", "now"}
           /\ s.queue \in Seq({Resync} \cup Seqs)
           /\ s.base \in 0..Len(log) /\ s.sound \in BOOLEAN
  BY DEF Sockets

LEMMA NoSocketOK ==
    ASSUME BackplaneOK, NEW known
    PROVE  SocketOK(NoSocket) /\ Covers(NoSocket, known)
<1>1. Len(log) \in Nat
  BY DEF BackplaneOK
<1>2. <<>> \in Seq({Resync} \cup Seqs) /\ Len(<<>>) = 0
  OBVIOUS
<1>3. NoSocket \in Sockets
  BY <1>1, <1>2 DEF NoSocket, Sockets
<1> QED
  BY <1>1, <1>2, <1>3, BoundsAssumption DEF NoSocket, SocketOK, Covers

\* The log grows; what it held stays in its place.
LEMMA LogGrows ==
    ASSUME Inv, NEW m \in Messages, Len(log) < MaxEvents, log' = Append(log, m),
           active' \subseteq Clients, UNCHANGED <<backplane, sock, seen, faults>>
    PROVE  Inv'
<1>1. /\ BackplaneOK /\ Len(log) \in Nat /\ MaxEvents \in Nat
      /\ \A c \in Clients : SocketOK(sock[c]) /\ Covers(sock[c], seen[c])
  BY BoundsAssumption DEF Inv, BackplaneOK, SocketsOK
<1>2. log' \in Seq(Messages) /\ Len(log)' = Len(log) + 1 /\ Len(log)' <= MaxEvents
  BY <1>1, AppendAdds DEF BackplaneOK
<1>3. Seqs \subseteq Seqs'
  BY <1>1, <1>2 DEF Seqs
<1>4. BackplaneOK'
  <2>1. Batches \subseteq Batches'
    BY <1>3 DEF Batches
  <2>2. \A w \in Gateways : wire[w] \in Seq(Seqs)'
    BY <1>1, <1>3, SeqGrows DEF BackplaneOK
  <2>3. wire' \in [Gateways -> Seq(Seqs)]'
    BY <1>1, <2>2 DEF BackplaneOK, backplane
  <2>4. relay' \in [Workers -> Batches]'
    BY <1>1, <2>1 DEF BackplaneOK, backplane
  <2> QED
    BY <1>1, <1>2, <1>3, <2>3, <2>4 DEF BackplaneOK, backplane
<1>5. Sockets \subseteq Sockets'
  <2>1. \A s \in Sockets : s.queue \in Seq({Resync} \cup Seqs)'
    <3>1. {Resync} \cup Seqs \subseteq ({Resync} \cup Seqs)'
      BY <1>3
    <3> QED
      BY <3>1, SocketParts, SeqGrows
  <2>2. 0..Len(log) \subseteq 0..Len(log)'
    BY <1>1, <1>2
  <2> QED
    BY <2>1, <2>2 DEF Sockets
<1>6. ASSUME NEW c \in Clients
      PROVE  SocketOK(sock[c])' /\ Covers(sock[c], seen[c])'
  <2>1. sock[c] \in Sockets /\ sock'[c] = sock[c] /\ seen'[c] = seen[c]
    BY <1>1 DEF SocketOK
  <2>2. SocketOK(sock[c])'
    BY <1>1, <1>5, <2>1 DEF SocketOK, backplane
  <2>3. \A n \in (sock[c].base + 1)..Len(log)' : n \in (sock[c].base + 1)..Len(log) \/ n \notin aired
    BY <1>1, <1>2, <2>1, SocketParts DEF BackplaneOK, Seqs
  <2>4. Covers(sock[c], seen[c])'
    BY <1>1, <2>1, <2>3 DEF Covers, backplane
  <2> QED
    BY <2>2, <2>4
<1> QED
  BY <1>4, <1>6 DEF Inv, SocketsOK

\* One socket moves; nothing else does but what its client knows.
LEMMA OneSocket ==
    ASSUME Inv, NEW c \in Clients, NEW s, sock' = [sock EXCEPT ![c] = s],
           UNCHANGED <<events, backplane, faults>>,
           NEW known \in SUBSET Seqs, seen' = [seen EXCEPT ![c] = known],
           SocketOK(s), Covers(s, known)
    PROVE  Inv'
<1>1. /\ BackplaneOK /\ sock = [d \in Clients |-> sock[d]]
      /\ \A d \in Clients : SocketOK(sock[d]) /\ Covers(sock[d], seen[d])
  BY DEF Inv, SocketsOK
<1>2. Seqs' = Seqs /\ Batches' = Batches /\ Sockets' = Sockets
  BY DEF events, Seqs, Batches, Sockets
<1>3. BackplaneOK'
  BY <1>1, <1>2 DEF BackplaneOK, events, backplane
<1>4. ASSUME NEW d \in Clients, NEW x, NEW k, sock'[d] = x, seen'[d] = k,
             SocketOK(x), Covers(x, k)
      PROVE  SocketOK(sock[d])' /\ Covers(sock[d], seen[d])'
  BY <1>2, <1>4 DEF SocketOK, Covers, events, backplane
<1>5. ASSUME NEW d \in Clients
      PROVE  SocketOK(sock[d])' /\ Covers(sock[d], seen[d])'
  <2>1. CASE d = c
    <3>1. sock'[d] = s /\ seen'[d] = known
      BY <1>1, <2>1 DEF BackplaneOK
    <3> QED
      BY <1>4, <3>1
  <2>2. CASE d # c
    <3>1. sock'[d] = sock[d] /\ seen'[d] = seen[d]
      BY <1>1, <2>2 DEF BackplaneOK
    <3> QED
      BY <1>1, <1>4, <3>1
  <2> QED
    BY <2>1, <2>2
<1>6. sock' = [d \in Clients |-> sock'[d]]
  BY <1>1
<1> QED
  BY <1>3, <1>5, <1>6 DEF Inv, SocketsOK

\* The same, if the client learns nothing.
LEMMA OneSocketOnly ==
    ASSUME Inv, NEW c \in Clients, NEW s, sock' = [sock EXCEPT ![c] = s],
           UNCHANGED <<events, backplane, seen, faults>>,
           SocketOK(s), Covers(s, seen[c])
    PROVE  Inv'
<1>1. seen[c] \in SUBSET Seqs /\ seen' = [seen EXCEPT ![c] = seen[c]]
  BY DEF Inv, BackplaneOK
<1> QED
  BY <1>1, OneSocket

-----------------------------------------------------------------------------
(* The relays and the channel.                                             *)

LEMMA RelayKeeps ==
    ASSUME Inv, NEW w \in Workers, Relay(w) \/ FailBatch(w)
    PROVE  Inv'
<1>1. /\ BackplaneOK /\ Len(log) \in Nat /\ MaxFaults \in Nat
      /\ sock = [c \in Clients |-> sock[c]]
      /\ \A c \in Clients : SocketOK(sock[c]) /\ Covers(sock[c], seen[c])
      /\ relay \in [Workers -> Batches] /\ wire \in [Gateways -> Seq(Seqs)]
  BY BoundsAssumption DEF Inv, BackplaneOK, SocketsOK
<1>2. Free \in Batches /\ Free.left \subseteq Free.claim
  BY DEF Free, Batches
<1>3. ASSUME UNCHANGED <<events, aired, linked, wire, sock, seen>>, BackplaneOK'
      PROVE  Inv'
  <2>1. \A c \in Clients : SocketOK(sock[c])' /\ Covers(sock[c], seen[c])'
    BY <1>1, <1>3 DEF SocketOK, Covers, Sockets, Seqs, events
  <2> QED
    BY <1>1, <1>3, <2>1 DEF Inv, SocketsOK
<1>4. CASE Claim(w)
  <2>1. PICK batch \in SUBSET Seqs : relay' = [relay EXCEPT ![w] = [claim |-> batch, left |-> batch]]
    BY <1>4 DEF Claim
  <2>2. [claim |-> batch, left |-> batch] \in Batches
    BY DEF Batches
  <2>3. BackplaneOK'
    BY <1>1, <1>4, <2>1, <2>2 DEF BackplaneOK, Claim, events, Seqs, Batches
  <2> QED
    BY <1>3, <1>4, <2>3 DEF Claim
<1>5. CASE CommitBatch(w)
  <2>1. relay[w].claim \in SUBSET Seqs
    BY <1>1 DEF Batches
  <2>2. BackplaneOK'
    BY <1>1, <1>2, <1>5, <2>1 DEF BackplaneOK, CommitBatch, events, Seqs, Batches
  <2> QED
    BY <1>3, <1>5, <2>2 DEF CommitBatch
<1>6. CASE FailBatch(w)
  <2>1. faults' \in 0..MaxFaults
    BY <1>1, <1>6 DEF FailBatch, BackplaneOK
  <2>2. BackplaneOK'
    BY <1>1, <1>2, <1>6, <2>1 DEF BackplaneOK, FailBatch, events, Seqs, Batches
  <2> QED
    BY <1>3, <1>6, <2>2 DEF FailBatch
<1>7. CASE Publish(w)
  <2>1. PICK n \in relay[w].left :
          /\ aired' = aired \cup {n}
          /\ wire' = [v \in Gateways |-> IF linked[v] THEN Append(wire[v], n) ELSE wire[v]]
          /\ relay' = [relay EXCEPT ![w].left = @ \ {n}]
    BY <1>7 DEF Publish
  <2>2. n \in Seqs /\ relay[w] \in Batches /\ relay[w].left \subseteq relay[w].claim
    BY <1>1, <2>1 DEF Batches, BackplaneOK
  <2>3. UNCHANGED <<events, published, linked, sock, seen, faults>> /\ Seqs' = Seqs
    BY <1>7 DEF Publish, events, Seqs
  <2>4. \A v \in Gateways :
          /\ wire'[v] \in Seq(Seqs) /\ ToSet(wire[v]) \subseteq ToSet(wire'[v])
          /\ linked[v] => n \in ToSet(wire'[v])
    BY <1>1, <2>1, <2>2, AppendAdds
  <2>5. BackplaneOK'
    <3> DEFINE b == [relay[w] EXCEPT !.left = @ \ {n}]
    <3>1. b \in Batches /\ b.left \subseteq b.claim
      BY <2>2 DEF Batches
    <3>2. relay' = [relay EXCEPT ![w] = b]
      BY <1>1, <2>1
    <3> HIDE DEF b
    <3>3. relay' \in [Workers -> Batches] /\ \A v \in Workers : relay'[v].left \subseteq relay'[v].claim
      BY <1>1, <3>1, <3>2 DEF BackplaneOK
    <3>4. wire' \in [Gateways -> Seq(Seqs)]
      BY <2>1, <2>4
    <3>5. Batches' = Batches
      BY <2>3 DEF Batches
    <3> QED
      BY <1>1, <2>1, <2>2, <2>3, <3>3, <3>4, <3>5 DEF BackplaneOK, events
  <2>6. ASSUME NEW c \in Clients
        PROVE  SocketOK(sock[c])' /\ Covers(sock[c], seen[c])'
    <3>1. SocketOK(sock[c])'
      BY <1>1, <2>3 DEF SocketOK, Sockets, events
    <3>2. sock[c].sound => sock[c].worker \in Gateways /\ linked[sock[c].worker]
      BY <1>1 DEF SocketOK, Sockets
    <3>3. Covers(sock[c], seen[c])'
      BY <1>1, <2>1, <2>3, <2>4, <3>2 DEF Covers, events
    <3> QED
      BY <3>1, <3>3
  <2> QED
    BY <1>1, <2>3, <2>5, <2>6 DEF Inv, SocketsOK
<1> QED
  BY <1>4, <1>5, <1>6, <1>7 DEF Relay

\* A frame that a socket still takes is in its queue.
LEMMA TrySendTakes ==
    ASSUME BackplaneOK, NEW s, SocketOK(s), NEW frame \in {Resync} \cup Seqs
    PROVE  /\ SocketOK(TrySend(s, frame))
           /\ TrySend(s, frame) = [s EXCEPT !.queue = TrySend(s, frame).queue,
                                            !.close = TrySend(s, frame).close]
           /\ ToSet(s.queue) \subseteq ToSet(TrySend(s, frame).queue)
           /\ TrySend(s, frame).close = "no" =>
                 s.close = "no" /\ frame \in ToSet(TrySend(s, frame).queue)
<1>1. s \in Sockets /\ s.queue \in Seq({Resync} \cup Seqs) /\ Len(s.queue) \in Nat /\ QueueMax \in Nat
  BY BoundsAssumption, SocketParts DEF SocketOK
<1>2. CASE Len(s.queue) < QueueMax
  <2> DEFINE q == Append(s.queue, frame)
             t == [s EXCEPT !.queue = q]
  <2>1. /\ q \in Seq({Resync} \cup Seqs) /\ Len(q) = Len(s.queue) + 1
        /\ ToSet(q) = ToSet(s.queue) \cup {frame}
    BY <1>1, AppendAdds
  <2>2. TrySend(s, frame) = t
    BY <1>1, <1>2 DEF TrySend, Sockets
  <2> HIDE DEF q
  <2>3. /\ t \in Sockets /\ t.queue = q /\ t.close = s.close /\ t.step = s.step /\ t.last = s.last
        /\ t.base = s.base /\ t.live = s.live /\ t.sound = s.sound /\ t.worker = s.worker
        /\ t = [s EXCEPT !.queue = q, !.close = s.close]
    BY <1>1, <2>1 DEF Sockets
  <2> HIDE DEF t
  <2>4. SocketOK(t)
    BY <1>1, <1>2, <2>1, <2>3 DEF SocketOK
  <2> QED
    BY <2>1, <2>2, <2>3, <2>4
<1>3. CASE ~(Len(s.queue) < QueueMax)
  <2> DEFINE t == [s EXCEPT !.close = IF s.close = "no" THEN "soon" ELSE s.close]
  <2>1. TrySend(s, frame) = t
    BY <1>1, <1>3 DEF TrySend, Sockets
  <2>2. /\ t \in Sockets /\ t.queue = s.queue /\ t.close # "no" /\ t.step = s.step /\ t.last = s.last
        /\ t.base = s.base /\ t.live = s.live /\ t.sound = s.sound /\ t.worker = s.worker
        /\ t = [s EXCEPT !.queue = s.queue, !.close = t.close]
    BY <1>1 DEF Sockets
  <2> HIDE DEF t
  <2>3. SocketOK(t)
    BY <2>2 DEF SocketOK
  <2> QED
    BY <2>1, <2>2, <2>3
<1> QED
  BY <1>2, <1>3

LEMMA ConsumeKeeps ==
    ASSUME Inv, NEW w \in Gateways, Consume(w)
    PROVE  Inv'
<1>1. /\ BackplaneOK /\ Len(log) \in Nat /\ MaxFaults \in Nat
      /\ sock = [c \in Clients |-> sock[c]]
      /\ \A c \in Clients : SocketOK(sock[c]) /\ Covers(sock[c], seen[c])
      /\ linked \in [Gateways -> BOOLEAN] /\ wire \in [Gateways -> Seq(Seqs)]
  BY BoundsAssumption DEF Inv, BackplaneOK, SocketsOK
<1>2. /\ UNCHANGED <<events, published, relay, aired, seen>>
      /\ Seqs' = Seqs /\ Batches' = Batches /\ Sockets' = Sockets
  BY DEF Consume, Dispatch, Unlink, Relink, events, Seqs, Batches, Sockets
<1>3. CASE Dispatch(w)
  <2> DEFINE n == Head(wire[w])
  <2>1. /\ wire[w] \in Seq(Seqs) /\ wire[w] # <<>> /\ wire' = [wire EXCEPT ![w] = Tail(wire[w])]
        /\ UNCHANGED <<linked, faults>>
    BY <1>1, <1>3 DEF Dispatch
  <2>2. n \in Seqs /\ Tail(wire[w]) \in Seq(Seqs) /\ ToSet(wire[w]) = {n} \cup ToSet(Tail(wire[w]))
    BY <2>1, TailTakes
  <2>3. BackplaneOK'
    BY <1>1, <1>2, <2>1, <2>2 DEF BackplaneOK, events
  <2>4. \A v \in Gateways : ToSet(wire[v]) \subseteq ToSet(wire'[v]) \cup IF v = w THEN {n} ELSE {}
    BY <1>1, <2>1, <2>2
  <2>5. ASSUME NEW c \in Clients
        PROVE  SocketOK(sock[c])' /\ Covers(sock[c], seen[c])'
    <3>1. SocketOK(sock[c]) /\ Covers(sock[c], seen[c]) /\ sock[c].worker \in Gateways \cup {Nowhere}
      BY <1>1, SocketParts DEF SocketOK
    <3>2. CASE ~(sock[c].worker = w /\ sock[c].live)
      <4>1. sock'[c] = sock[c]
        BY <1>3, <3>2 DEF Dispatch
      <4>2. sock[c].live => sock[c].worker # w
        BY <3>2
      <4>3. SocketOK(sock[c])'
        BY <1>2, <2>1, <3>1, <4>1 DEF SocketOK
      <4>4. sock[c].live => wire'[sock[c].worker] = wire[sock[c].worker]
        BY <1>1, <2>1, <3>1, <4>2 DEF SocketOK
      <4> QED
        BY <1>2, <3>1, <4>1, <4>3, <4>4 DEF Covers, events
    <3>3. CASE sock[c].worker = w /\ sock[c].live
      <4>1. sock'[c] = Hear(sock[c], c, n)
        BY <1>3, <3>3 DEF Dispatch
      <4>2. CASE sock[c].close # "no" \/ log[n] = [type |-> "member.left", user |-> c]
        <5>1. PICK k \in {"soon", "now"} :
                 sock'[c] = [sock[c] EXCEPT !.close = k]
          <6>1. sock[c].close \in {"no", "soon", "now"} /\ sock[c] \in Sockets
            BY <3>1, SocketParts DEF SocketOK
          <6>2. sock[c] = [sock[c] EXCEPT !.close = sock[c].close]
            BY <6>1 DEF Sockets
          <6>3. CASE log[n] = [type |-> "member.left", user |-> c]
            <7>1. sock'[c] = [sock[c] EXCEPT !.close = IF sock[c].close = "no" THEN "soon" ELSE sock[c].close]
              BY <4>1, <6>1, <6>3 DEF Hear, Sockets
            <7> QED
              BY <6>1, <7>1
          <6>4. CASE log[n] # [type |-> "member.left", user |-> c]
            BY <4>1, <4>2, <6>1, <6>2, <6>4 DEF Hear
          <6> QED
            BY <6>3, <6>4
        <5>2. /\ sock'[c] \in Sockets /\ sock'[c].close # "no"
              /\ sock'[c].queue = sock[c].queue /\ sock'[c].step = sock[c].step
              /\ sock'[c].last = sock[c].last /\ sock'[c].base = sock[c].base
              /\ sock'[c].live = sock[c].live /\ sock'[c].sound = sock[c].sound
              /\ sock'[c].worker = sock[c].worker
          BY <3>1, <5>1 DEF SocketOK, Sockets
        <5> QED
          BY <1>2, <2>1, <3>1, <5>2 DEF SocketOK, Covers
      <4>3. CASE sock[c].close = "no" /\ log[n] # [type |-> "member.left", user |-> c]
        <5> DEFINE t == TrySend(sock[c], n)
        <5>1. sock'[c] = t
          BY <4>1, <4>3 DEF Hear
        <5>2. /\ SocketOK(t) /\ ToSet(sock[c].queue) \subseteq ToSet(t.queue)
              /\ t.close = "no" => n \in ToSet(t.queue)
              /\ t = [sock[c] EXCEPT !.queue = t.queue, !.close = t.close]
          BY <1>1, <2>2, <3>1, TrySendTakes
        <5> HIDE DEF t
        <5>3. /\ t.step = sock[c].step /\ t.upto = sock[c].upto /\ t.base = sock[c].base
              /\ t.live = sock[c].live /\ t.sound = sock[c].sound /\ t.worker = w
          BY <3>1, <3>3, <5>2 DEF SocketOK, Sockets
        <5>4. SocketOK(sock[c])'
          BY <1>2, <2>1, <5>1, <5>2 DEF SocketOK
        <5>5. Covers(sock[c], seen[c])'
          BY <1>2, <2>4, <3>1, <3>3, <4>3, <5>1, <5>2, <5>3 DEF Covers, events
        <5> QED
          BY <5>4, <5>5
      <4> QED
        BY <4>2, <4>3
    <3> QED
      BY <3>2, <3>3
  <2>6. sock' = [c \in Clients |-> sock'[c]]
    BY <1>3 DEF Dispatch
  <2> QED
    BY <2>3, <2>5, <2>6 DEF Inv, SocketsOK
<1>4. CASE Unlink(w)
  <2>1. faults' \in 0..MaxFaults
    BY <1>1, <1>4 DEF Unlink, BackplaneOK
  <2>2. BackplaneOK'
    BY <1>1, <1>2, <1>4, <2>1 DEF BackplaneOK, events, Unlink
  <2>3. ASSUME NEW c \in Clients
        PROVE  SocketOK(sock[c])' /\ Covers(sock[c], seen[c])'
    <3>1. SocketOK(sock[c]) /\ Covers(sock[c], seen[c]) /\ sock[c].worker \in Gateways \cup {Nowhere}
      BY <1>1, SocketParts DEF SocketOK
    <3>2. CASE sock[c].worker = w
      <4>1. sock'[c] = [sock[c] EXCEPT !.sound = FALSE]
        BY <1>4, <3>2 DEF Unlink
      <4>2. /\ sock'[c] \in Sockets /\ sock'[c].sound = FALSE
            /\ sock'[c].queue = sock[c].queue /\ sock'[c].step = sock[c].step
            /\ sock'[c].last = sock[c].last /\ sock'[c].base = sock[c].base
            /\ sock'[c].live = sock[c].live /\ sock'[c].worker = sock[c].worker
        BY <3>1, <4>1 DEF SocketOK, Sockets
      <4> QED
        BY <1>2, <3>1, <4>2 DEF SocketOK, Covers
    <3>3. CASE sock[c].worker # w
      <4>1. /\ sock'[c] = sock[c]
            /\ sock[c].live \/ sock[c].sound => /\ linked'[sock[c].worker] = linked[sock[c].worker]
                                                /\ wire'[sock[c].worker] = wire[sock[c].worker]
        BY <1>1, <1>4, <3>1, <3>3 DEF Unlink, SocketOK
      <4> QED
        BY <1>2, <3>1, <4>1 DEF SocketOK, Covers, events
    <3> QED
      BY <3>2, <3>3
  <2>4. sock' = [c \in Clients |-> sock'[c]]
    BY <1>4 DEF Unlink
  <2> QED
    BY <2>2, <2>3, <2>4 DEF Inv, SocketsOK
<1>5. CASE Relink(w)
  <2>1. BackplaneOK'
    BY <1>1, <1>2, <1>5 DEF BackplaneOK, events, Relink
  <2>2. \A v \in Gateways : linked[v] => linked'[v]
    BY <1>1, <1>5 DEF Relink
  <2>3. ASSUME NEW c \in Clients
        PROVE  SocketOK(sock[c])' /\ Covers(sock[c], seen[c])'
    <3>1. SocketOK(sock[c]) /\ Covers(sock[c], seen[c]) /\ sock[c].worker \in Gateways \cup {Nowhere}
      BY <1>1, SocketParts DEF SocketOK
    <3> QED
      BY <1>2, <1>5, <2>2, <3>1 DEF SocketOK, Covers, events, Relink
  <2> QED
    BY <1>1, <1>5, <2>1, <2>3 DEF Inv, SocketsOK, Relink
<1> QED
  BY <1>3, <1>4, <1>5 DEF Consume

LEMMA CrashKeeps ==
    ASSUME Inv, NEW w \in Workers, Crash(w)
    PROVE  Inv'
<1>1. /\ BackplaneOK /\ MaxFaults \in Nat
      /\ sock = [c \in Clients |-> sock[c]]
      /\ \A c \in Clients : SocketOK(sock[c]) /\ Covers(sock[c], seen[c])
      /\ linked \in [Gateways -> BOOLEAN] /\ wire \in [Gateways -> Seq(Seqs)]
      /\ relay \in [Workers -> Batches]
  BY BoundsAssumption DEF Inv, BackplaneOK, SocketsOK
<1>2. /\ UNCHANGED <<events, published, aired, seen>>
      /\ Seqs' = Seqs /\ Batches' = Batches /\ Sockets' = Sockets
  BY DEF Crash, events, Seqs, Batches, Sockets
<1>3. Free \in Batches /\ Free.left \subseteq Free.claim /\ <<>> \in Seq(Seqs)
  BY DEF Free, Batches
<1>4. /\ linked' \in [Gateways -> BOOLEAN] /\ wire' \in [Gateways -> Seq(Seqs)]
      /\ \A v \in Gateways \ {w} : linked'[v] = linked[v] /\ wire'[v] = wire[v]
      /\ faults' \in 0..MaxFaults
      /\ relay' \in [Workers -> Batches] /\ \A v \in Workers : relay'[v].left \subseteq relay'[v].claim
  BY <1>1, <1>3 DEF Crash, BackplaneOK
<1>5. BackplaneOK'
  BY <1>1, <1>2, <1>4 DEF BackplaneOK, events
<1>6. ASSUME NEW c \in Clients
      PROVE  SocketOK(sock[c])' /\ Covers(sock[c], seen[c])'
  <2>1. SocketOK(sock[c]) /\ Covers(sock[c], seen[c]) /\ sock[c].worker \in Gateways \cup {Nowhere}
    BY <1>1, SocketParts DEF SocketOK
  <2>2. CASE sock[c].worker = w
    <3>1. sock'[c] = NoSocket
      BY <2>2 DEF Crash
    <3>2. SocketOK(NoSocket) /\ Covers(NoSocket, seen[c])
      BY <1>1, NoSocketOK
    <3> QED
      BY <1>2, <3>1, <3>2 DEF SocketOK, Covers, NoSocket
  <2>3. CASE sock[c].worker # w
    <3>1. /\ sock'[c] = sock[c]
          /\ sock[c].live \/ sock[c].sound => /\ linked'[sock[c].worker] = linked[sock[c].worker]
                                              /\ wire'[sock[c].worker] = wire[sock[c].worker]
      BY <1>4, <2>1, <2>3 DEF Crash, SocketOK
    <3> QED
      BY <1>2, <2>1, <3>1 DEF SocketOK, Covers, events
  <2> QED
    BY <2>2, <2>3
<1>7. sock' = [c \in Clients |-> sock'[c]]
  BY DEF Crash
<1> QED
  BY <1>5, <1>6, <1>7 DEF Inv, SocketsOK


-----------------------------------------------------------------------------
(* One socket.                                                             *)

\* What a step on one socket starts from.
LEMMA Before ==
    ASSUME Inv, NEW c \in Clients
    PROVE  /\ BackplaneOK /\ Len(log) \in Nat /\ QueueMax \in Nat /\ sock[c] \in Sockets
           /\ SocketOK(sock[c]) /\ Covers(sock[c], seen[c])
           /\ sock = [d \in Clients |-> sock[d]] /\ seen \in [Clients -> SUBSET Seqs]
           /\ linked \in [Gateways -> BOOLEAN]
  BY BoundsAssumption DEF Inv, BackplaneOK, SocketsOK, SocketOK

LEMMA VisitKeeps ==
    ASSUME Inv, NEW c \in Clients, Visit(c) \/ CloseSocket(c)
    PROVE  Inv'
<1> USE Before
<1>1. UNCHANGED <<events, backplane, seen, faults>>
  BY DEF Visit, CloseSocket, Open, Subscribe, Unsubscribe, Drop
<1>2. PICK s : s = sock[c]
  OBVIOUS
<1>3. s \in Sockets /\ SocketOK(s) /\ Covers(s, seen[c]) /\ 0 \in 0..Len(log)
  BY <1>2
<1>4. CASE CloseSocket(c) \/ Drop(c)
  <2>1. PICK t : t = NoSocket
    OBVIOUS
  <2>2. sock' = [sock EXCEPT ![c] = t]
    BY <1>4, <2>1 DEF CloseSocket, Drop
  <2>3. SocketOK(t) /\ Covers(t, seen[c])
    BY <2>1, NoSocketOK
  <2> QED
    BY <1>1, <2>2, <2>3, OneSocketOnly
<1>5. CASE \E w \in Gateways : Open(c, w)
  <2>1. PICK w \in Gateways : Open(c, w)
    BY <1>5
  <2>2. PICK t : t = [NoSocket EXCEPT !.worker = w]
    OBVIOUS
  <2>3. sock' = [sock EXCEPT ![c] = t]
    BY <2>1, <2>2 DEF Open
  <2>4. SocketOK(NoSocket) /\ NoSocket \in Sockets
    BY NoSocketOK DEF SocketOK
  <2>5. /\ t \in Sockets /\ t.queue = NoSocket.queue /\ t.step = "idle"
        /\ t.live = FALSE /\ t.sound = FALSE
    BY <2>2, <2>4 DEF Sockets, NoSocket
  <2>6. SocketOK(t) /\ Covers(t, seen[c])
    BY <2>4, <2>5 DEF SocketOK, Covers
  <2> QED
    BY <1>1, <2>3, <2>6, OneSocketOnly
<1>6. CASE Subscribe(c)
  <2>1. PICK last \in {Null} \cup 0..Len(log) :
          sock' = [sock EXCEPT ![c].step = "count", ![c].last = last]
    BY <1>6 DEF Subscribe
  <2>2. PICK t : t = [s EXCEPT !.step = "count", !.last = last]
    OBVIOUS
  <2>3. sock' = [sock EXCEPT ![c] = t]
    BY <1>2, <2>1, <2>2
  <2>4. /\ t \in Sockets /\ t.step = "count" /\ t.queue = s.queue /\ t.base = s.base
        /\ t.live = s.live /\ t.sound = s.sound /\ t.worker = s.worker /\ t.close = s.close
    BY <1>3, <2>1, <2>2 DEF Sockets
  <2>5. s.step = "idle"
    BY <1>2, <1>6 DEF Subscribe, At
  <2>6. SocketOK(t) /\ Covers(t, seen[c])
    BY <1>3, <2>4, <2>5 DEF SocketOK, Covers
  <2> QED
    BY <1>1, <2>3, <2>6, OneSocketOnly
<1>7. CASE Unsubscribe(c)
  <2>1. PICK t : t = [s EXCEPT !.live = FALSE, !.base = 0, !.sound = FALSE]
    OBVIOUS
  <2>2. sock' = [sock EXCEPT ![c] = t] /\ s.step = "idle"
    BY <1>2, <1>7, <2>1 DEF Unsubscribe, At
  <2>3. /\ t \in Sockets /\ t.step = s.step /\ t.queue = s.queue
        /\ t.live = FALSE /\ t.sound = FALSE
    BY <1>3, <2>1 DEF Sockets
  <2>4. SocketOK(t) /\ Covers(t, seen[c])
    BY <1>3, <2>2, <2>3 DEF SocketOK, Covers
  <2> QED
    BY <1>1, <2>2, <2>4, OneSocketOnly
<1> QED
  BY <1>4, <1>5, <1>6, <1>7 DEF Visit

\* Registering promises what lies above last_seq; the replay is to come.
LEMMA RegisterKeeps ==
    ASSUME Inv, NEW c \in Clients, Register(c)
    PROVE  Inv'
<1> USE Before
<1>1. UNCHANGED <<events, backplane, seen, faults>>
  BY DEF Register
<1>2. PICK s : s = sock[c]
  OBVIOUS
<1>3. /\ s \in Sockets /\ SocketOK(s) /\ Covers(s, seen[c])
      /\ s.worker \in Gateways /\ s.worker # Nowhere /\ s.step = "register"
      /\ 0 \in 0..Len(log) /\ Len(log) \in 0..Len(log)
  BY <1>2, SocketParts DEF Register, At
<1>4. CASE TooFarBehind(s)
  <2>1. PICK q : q = TrySend(s, Resync)
    OBVIOUS
  <2>2. PICK t : t = [q EXCEPT !.step = "idle", !.last = Null, !.upto = 0]
    OBVIOUS
  <2>3. sock' = [sock EXCEPT ![c] = t]
    BY <1>2, <1>4, <2>1, <2>2 DEF Register, Done
  <2>4. /\ SocketOK(q) /\ q \in Sockets
        /\ q = [s EXCEPT !.queue = q.queue, !.close = q.close]
        /\ ToSet(s.queue) \subseteq ToSet(q.queue)
        /\ q.close = "no" => s.close = "no"
    <3>1. /\ SocketOK(q) /\ q = [s EXCEPT !.queue = q.queue, !.close = q.close]
          /\ ToSet(s.queue) \subseteq ToSet(q.queue)
          /\ q.close = "no" => s.close = "no"
      BY <1>3, <2>1, TrySendTakes
    <3> QED
      BY <3>1 DEF SocketOK
  <2>5. /\ q.base = s.base /\ q.live = s.live /\ q.sound = s.sound /\ q.worker = s.worker
    BY <1>3, <2>4 DEF Sockets
  <2>6. /\ t \in Sockets /\ t.step = "idle" /\ t.queue = q.queue /\ t.base = s.base
        /\ t.live = s.live /\ t.sound = s.sound /\ t.worker = s.worker /\ t.close = q.close
    BY <1>3, <2>2, <2>4, <2>5 DEF Sockets
  <2>7. SocketOK(t)
    BY <1>3, <2>4, <2>6 DEF SocketOK
  <2>8. Covers(t, seen[c])
    BY <1>3, <2>4, <2>6 DEF Covers
  <2> QED
    BY <1>1, <2>3, <2>7, <2>8, OneSocketOnly
<1>5. CASE ~TooFarBehind(s) /\ s.last = Null
  <2>1. PICK t : t = Registered(c)
    OBVIOUS
  <2>2. sock' = [sock EXCEPT ![c] = t]
    BY <1>2, <1>5, <2>1 DEF Register
  <2>3. linked[s.worker] \in BOOLEAN
    BY <1>3
  <2>4. /\ t \in Sockets /\ t.step = "idle" /\ t.queue = s.queue /\ t.base = Len(log)
        /\ t.sound = linked[s.worker] /\ t.worker = s.worker
    BY <1>2, <1>3, <1>5, <2>1, <2>3 DEF Registered, Done, Sockets
  <2>5. SocketOK(t)
    BY <1>3, <2>4 DEF SocketOK
  <2>6. Covers(t, seen[c])
    BY <2>4 DEF Covers
  <2> QED
    BY <1>1, <2>2, <2>5, <2>6, OneSocketOnly
<1>6. CASE ~TooFarBehind(s) /\ s.last # Null
  <2>1. PICK t : t = Registered(c)
    OBVIOUS
  <2>2. sock' = [sock EXCEPT ![c] = t]
    BY <1>2, <1>6, <2>1 DEF Register
  <2>3. linked[s.worker] \in BOOLEAN /\ s.last \in 0..Len(log)
    BY <1>3, <1>6, SocketParts
  <2>4. /\ t \in Sockets /\ t.step = "replay" /\ t.queue = s.queue /\ t.base = s.last
        /\ t.last = s.last /\ t.sound = linked[s.worker] /\ t.worker = s.worker
    BY <1>2, <1>3, <1>6, <2>1, <2>3 DEF Registered, Sockets
  <2>5. SocketOK(t) /\ Covers(t, seen[c])
    BY <1>3, <1>6, <2>4 DEF SocketOK, Covers
  <2> QED
    BY <1>1, <2>2, <2>5, OneSocketOnly
<1> QED
  BY <1>4, <1>5, <1>6

\* The rows of a replay that still find room are all that were asked for.
LEMMA ReplayTakes ==
    ASSUME BackplaneOK, NEW s, SocketOK(s), s.step = "send"
    PROVE  LET t == Replayed(s) IN
           /\ t = [s EXCEPT !.queue = t.queue, !.close = t.close]
           /\ t.queue \in Seq({Resync} \cup Seqs) /\ Len(t.queue) <= QueueMax
           /\ t.close \in {"no", "soon", "now"}
           /\ ToSet(s.queue) \subseteq ToSet(t.queue)
           /\ t.close = "no" => /\ s.close = "no"
                                /\ \A n \in (s.base + 1)..s.upto : n \in ToSet(t.queue)
<1> DEFINE missed == s.upto - s.last
           room == QueueMax - Len(s.queue)
<1>1. /\ s \in Sockets /\ s.queue \in Seq({Resync} \cup Seqs) /\ Len(s.queue) \in Nat
      /\ QueueMax \in Nat /\ Len(s.queue) <= QueueMax /\ Len(log) \in Nat
      /\ s.last \in 0..Len(log) /\ s.base = s.last /\ s.upto \in 0..Len(log)
      /\ s.close \in {"no", "soon", "now"}
  BY BoundsAssumption, SocketParts DEF SocketOK, BackplaneOK
<1>2. PICK m \in Nat :
        /\ 1..Lesser(missed, room) = 1..m /\ m <= room
        /\ m > 0 => m <= missed
        /\ missed <= room => \A n \in 1..missed : n \in 1..m
  <2>1. missed \in Int /\ room \in Nat
    BY <1>1
  <2>2. Lesser(missed, room) \in Int
    BY <2>1 DEF Lesser
  <2> HIDE DEF missed, room
  <2>3. CASE Lesser(missed, room) >= 0
    BY <2>1, <2>2, <2>3 DEF Lesser
  <2>4. CASE Lesser(missed, room) < 0
    <3>1. missed < 0 /\ Lesser(missed, room) = missed
      BY <2>1, <2>4 DEF Lesser
    <3>2. 1..missed = 1..0 /\ ~(0 > 0) /\ 0 <= room
      BY <2>1, <3>1
    <3> QED
      BY <3>1, <3>2
  <2> QED
    BY <2>2, <2>3, <2>4
<1> DEFINE rows == [i \in 1..m |-> s.last + i]
<1>3. \A i \in 1..m : s.last + i \in Seqs
  BY <1>1, <1>2 DEF Seqs
<1>4. rows \in Seq({Resync} \cup Seqs) /\ Len(rows) = m /\ \A i \in 1..m : rows[i] = s.last + i
  BY <1>3
<1>5. ToSet(rows) = {s.last + i : i \in 1..m}
  BY <1>4 DEF ToSet
<1> DEFINE q == s.queue \o rows
           k == IF s.close = "no" /\ missed > room THEN "soon" ELSE s.close
<1>6. Replayed(s) = [s EXCEPT !.queue = q, !.close = k]
  BY <1>1, <1>2 DEF Replayed, Sockets
<1> HIDE DEF rows
<1>7. /\ q \in Seq({Resync} \cup Seqs) /\ Len(q) = Len(s.queue) + m
      /\ ToSet(s.queue) \subseteq ToSet(q) /\ ToSet(rows) \subseteq ToSet(q)
  BY <1>1, <1>4, ConcatJoins
<1>8. k \in {"no", "soon", "now"} /\ (k = "no" => s.close = "no" /\ missed <= room)
  BY <1>1
<1>9. missed <= room => \A n \in (s.base + 1)..s.upto : n \in ToSet(rows)
  <2> SUFFICES ASSUME missed <= room, NEW n \in (s.base + 1)..s.upto
               PROVE  n \in ToSet(rows)
    OBVIOUS
  <2>1. n - s.last \in 1..missed /\ n = s.last + (n - s.last)
    BY <1>1
  <2> QED
    BY <1>2, <1>5, <2>1
<1>10. Len(q) <= QueueMax
  BY <1>1, <1>2, <1>7
<1> HIDE DEF q, k, missed, room
<1>11. Replayed(s).queue = q /\ Replayed(s).close = k
  BY <1>1, <1>6 DEF Sockets
<1> QED
  BY <1>6, <1>7, <1>8, <1>9, <1>10, <1>11

LEMMA ServeKeeps ==
    ASSUME Inv, NEW c \in Clients, Serve(c)
    PROVE  Inv'
<1> USE Before
<1>1. PICK s : s = sock[c]
  OBVIOUS
<1>2. /\ s \in Sockets /\ SocketOK(s) /\ Covers(s, seen[c])
      /\ 0 \in 0..Len(log) /\ Len(log) \in 0..Len(log)
  BY <1>1
<1>3. CASE ReadSeq(c) \/ ReadReplay(c)
  <2>1. PICK t : t = [s EXCEPT !.step = IF ReadSeq(c) THEN "register" ELSE "send", !.upto = Len(log)]
    OBVIOUS
  <2>2. sock' = [sock EXCEPT ![c] = t] /\ UNCHANGED <<events, backplane, seen, faults>>
    BY <1>1, <1>3, <2>1 DEF ReadSeq, ReadReplay
  <2>3. s.step = IF ReadSeq(c) THEN "count" ELSE "replay"
    BY <1>1, <1>3 DEF ReadSeq, ReadReplay, At
  <2>4. /\ t \in Sockets /\ t.step = (IF ReadSeq(c) THEN "register" ELSE "send") /\ t.upto = Len(log)
        /\ t.queue = s.queue /\ t.base = s.base /\ t.last = s.last /\ t.close = s.close
        /\ t.live = s.live /\ t.sound = s.sound /\ t.worker = s.worker
    BY <1>2, <2>1 DEF Sockets
  <2>5. SocketOK(t)
    BY <1>2, <2>3, <2>4 DEF SocketOK
  <2>6. Covers(t, seen[c])
    <3>1. CASE ReadSeq(c)
      BY <1>2, <2>3, <2>4, <3>1 DEF Covers
    <3>2. CASE ~ReadSeq(c)
      BY <2>4, <3>2 DEF Covers
    <3> QED
      BY <3>1, <3>2
  <2> QED
    BY <2>2, <2>5, <2>6, OneSocketOnly
<1>4. CASE SendReplay(c)
  <2>1. PICK q : q = Replayed(s)
    OBVIOUS
  <2>2. PICK t : t = [q EXCEPT !.step = "idle", !.last = Null, !.upto = 0]
    OBVIOUS
  <2>3. /\ sock' = [sock EXCEPT ![c] = t] /\ s.step = "send"
        /\ UNCHANGED <<events, backplane, seen, faults>>
    BY <1>1, <1>4, <2>1, <2>2 DEF SendReplay, Done, At
  <2>4. /\ q = [s EXCEPT !.queue = q.queue, !.close = q.close]
        /\ q.queue \in Seq({Resync} \cup Seqs) /\ Len(q.queue) <= QueueMax
        /\ q.close \in {"no", "soon", "now"}
        /\ ToSet(s.queue) \subseteq ToSet(q.queue)
        /\ q.close = "no" => /\ s.close = "no"
                             /\ \A n \in (s.base + 1)..s.upto : n \in ToSet(q.queue)
    BY <1>2, <2>1, <2>3, ReplayTakes
  <2>5. /\ q \in Sockets /\ q.base = s.base /\ q.live = s.live
        /\ q.sound = s.sound /\ q.worker = s.worker
    BY <1>2, <2>4 DEF Sockets
  <2>6. /\ t \in Sockets /\ t.step = "idle" /\ t.queue = q.queue /\ t.base = s.base
        /\ t.live = s.live /\ t.sound = s.sound /\ t.worker = s.worker /\ t.close = q.close
    BY <1>2, <2>2, <2>5 DEF Sockets
  <2>7. SocketOK(t)
    BY <1>2, <2>4, <2>6 DEF SocketOK
  <2>8. Covers(t, seen[c])
    <3>1. s.base \in Int /\ s.upto \in Int
      BY <1>2, SocketParts
    <3> QED
      BY <1>2, <2>3, <2>4, <2>6, <3>1 DEF Covers
  <2> QED
    BY <2>3, <2>7, <2>8, OneSocketOnly
<1> QED
  BY <1>3, <1>4, RegisterKeeps DEF Serve

\* A frame leaves the queue for the client; only a resync is no event.
LEMMA SendKeeps ==
    ASSUME Inv, NEW c \in Clients, Send(c)
    PROVE  Inv'
<1> USE Before
<1>1. PICK s : s = sock[c]
  OBVIOUS
<1>2. /\ s \in Sockets /\ SocketOK(s) /\ Covers(s, seen[c]) /\ s.queue # <<>>
      /\ s.queue \in Seq({Resync} \cup Seqs) /\ s.close \in {"no", "soon", "now"}
      /\ s.base \in Nat
  BY <1>1, SocketParts DEF Send
<1>3. /\ Tail(s.queue) \in Seq({Resync} \cup Seqs) /\ Len(Tail(s.queue)) = Len(s.queue) - 1
      /\ Head(s.queue) \in {Resync} \cup Seqs
      /\ ToSet(s.queue) = {Head(s.queue)} \cup ToSet(Tail(s.queue))
  BY <1>2, TailTakes
<1>4. PICK known : known = IF Head(s.queue) # Resync THEN seen[c] \cup {Head(s.queue)}
                           ELSE IF c \in active THEN seen[c] \cup Seqs ELSE seen[c]
  OBVIOUS
<1>5. known \in SUBSET Seqs /\ seen[c] \subseteq known
      /\ (Head(s.queue) # Resync => Head(s.queue) \in known)
  BY <1>3, <1>4
<1>6. seen' = [seen EXCEPT ![c] = known]
  BY <1>1, <1>4 DEF Send
<1>7. PICK t : t = [s EXCEPT !.queue = Tail(s.queue),
                             !.close = IF s.close = "soon" THEN "now" ELSE s.close]
  OBVIOUS
<1>8. sock' = [sock EXCEPT ![c] = t] /\ UNCHANGED <<events, backplane, faults>>
  BY <1>1, <1>2, <1>7 DEF Send, Sockets
<1>9. /\ t \in Sockets /\ t.queue = Tail(s.queue) /\ (t.close = "no" => s.close = "no")
      /\ t.step = s.step /\ t.base = s.base /\ t.last = s.last /\ t.upto = s.upto
      /\ t.live = s.live /\ t.sound = s.sound /\ t.worker = s.worker
  BY <1>2, <1>3, <1>7 DEF Sockets
<1>10. SocketOK(t)
  <2>1. Len(s.queue) \in Nat /\ QueueMax \in Nat
    BY <1>2
  <2> QED
    BY <1>2, <1>3, <1>9, <2>1 DEF SocketOK
<1>11. Covers(t, known)
  <2>1. \A n \in (s.base + 1)..Len(log) : n # Resync
    BY <1>2 DEF Resync
  <2> QED
    BY <1>2, <1>3, <1>5, <1>9, <2>1 DEF Covers
<1> QED
  BY <1>5, <1>6, <1>8, <1>10, <1>11, OneSocket

-----------------------------------------------------------------------------

LEMMA EventsKeep ==
    ASSUME Inv, Emit \/ \E c \in Clients : Leave(c) \/ Rejoin(c)
    PROVE  Inv'
<1>1. active \subseteq Clients
  BY DEF Inv, BackplaneOK
<1>2. CASE Emit
  <2>1. Fact \in Messages
    BY DEF Fact, Messages, EventTypes
  <2> QED
    BY <1>1, <1>2, <2>1, LogGrows DEF Emit
<1>3. ASSUME NEW c \in Clients, Leave(c) \/ Rejoin(c)
      PROVE  Inv'
  <2>1. /\ [type |-> "member.left", user |-> c] \in Messages
        /\ [type |-> "member.joined", user |-> c] \in Messages
    BY DEF Messages, EventTypes
  <2>2. CASE Leave(c)
    BY <1>1, <2>1, <2>2, LogGrows DEF Leave
  <2>3. CASE Rejoin(c)
    BY <1>1, <2>1, <2>3, LogGrows DEF Rejoin
  <2> QED
    BY <1>3, <2>2, <2>3
<1> QED
  BY <1>2, <1>3

LEMMA InitInv == Init => Inv
<1> SUFFICES ASSUME Init
             PROVE  Inv
  OBVIOUS
<1>1. <<>> \in Seq(Messages) /\ Len(<<>>) = 0 /\ <<>> \in Seq(Seqs)
  OBVIOUS
<1>2. Free \in Batches /\ Free.left \subseteq Free.claim
  BY DEF Free, Batches
<1>3. BackplaneOK
  BY <1>1, <1>2, BoundsAssumption DEF Init, BackplaneOK
<1>4. SocketsOK
  BY <1>3, NoSocketOK DEF Init, SocketsOK
<1> QED
  BY <1>3, <1>4 DEF Inv

LEMMA NextInv == Inv /\ [Next]_vars => Inv'
<1> SUFFICES ASSUME Inv, [Next]_vars
             PROVE  Inv'
  OBVIOUS
<1>1. CASE UNCHANGED vars
  BY <1>1 DEF vars, events, backplane, Inv, BackplaneOK, SocketsOK, SocketOK, Covers,
              Sockets, Batches, Seqs
<1>2. CASE Next
  <2>1. CASE Emit \/ \E c \in Clients : Leave(c) \/ Rejoin(c)
    BY <2>1, EventsKeep
  <2>2. ASSUME NEW w \in Workers, Relay(w) \/ FailBatch(w) \/ Crash(w)
        PROVE  Inv'
    BY <2>2, RelayKeeps, CrashKeeps
  <2>3. ASSUME NEW w \in Gateways, Consume(w)
        PROVE  Inv'
    BY <2>3, ConsumeKeeps
  <2>4. ASSUME NEW c \in Clients, Visit(c) \/ Serve(c) \/ Send(c) \/ CloseSocket(c)
        PROVE  Inv'
    BY <2>4, VisitKeeps, ServeKeeps, SendKeeps
  <2> QED
    BY <1>2, <2>1, <2>2, <2>3, <2>4 DEF Next
<1> QED
  BY <1>1, <1>2

THEOREM InvHolds == Spec => []Inv
  BY InitInv, NextInv, PTL DEF Spec

\* No relay, channel, replay or socket ever holds a number that is not the seq of
\* a committed event, and no queue more than QUEUE_MAX frames.
THEOREM NumbersAreCommitted == Spec => []TypeOK
  BY InvHolds, InvIsEnough, PTL

\* A socket is live before its replay is read: between the two, with any number
\* of relays publishing out of order and again, no event of the house falls
\* into a gap.
THEOREM NoGapWindow == Spec => []NothingLost
  BY InvHolds, InvIsEnough, PTL

=============================================================================
