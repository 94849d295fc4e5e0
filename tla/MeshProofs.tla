------------------------------ MODULE MeshProofs -------------------------------
(***************************************************************************)
(* Proofs about Mesh, for any nodes, links, limits and faults: an app is   *)
(* told of a message a second time only when its cache made room, and the  *)
(* hops of every copy add up to what the app asked for.                    *)
(***************************************************************************)
EXTENDS Mesh, ListLemmas

\* Histories have their types; a cache is a sequence, of whatever it was given.
Typing ==
  /\ delivered \in [Node -> [Id -> 0 .. 2]]
  /\ DOMAIN dedupe = Node /\ \A n \in Node : \E S : dedupe[n] \in Seq(S)
  /\ DOMAIN forgotten = Node

\* What was told of is remembered, or was until it made room.
Known ==
  \A n \in Node, id \in Id :
    delivered[n][id] > 0 => id \in ToSet(dedupe[n]) \cup forgotten[n]

Inv == Typing /\ Known /\ AtMostOnce

Told == <<dedupe, delivered, forgotten>>

LEMMA InvInit == Init => Inv
<1> SUFFICES ASSUME Init PROVE Inv
  OBVIOUS
<1>1. /\ dedupe = [n \in Node |-> <<>>] /\ forgotten = [n \in Node |-> {}]
      /\ delivered = [n \in Node |-> [i \in Id |-> 0]]
  BY DEF Init
<1>2. \A n \in Node : dedupe[n] \in Seq({})
  BY <1>1, EmptySeq
<1>3. Typing
  BY <1>1, <1>2 DEF Typing
<1> QED
  BY <1>1, <1>3 DEF Inv, Known, AtMostOnce

\* The elements of a longer sequence.
LEMMA Longer ==
  ASSUME NEW S, NEW s \in Seq(S), NEW e
  PROVE  /\ Append(s, e) \in Seq(S \cup {e})
         /\ ToSet(Append(s, e)) = ToSet(s) \cup {e}
<1>1. s \in Seq(S \cup {e}) /\ e \in S \cup {e}
  BY SeqMonotonic
<1>2. Len(s) \in Nat /\ DOMAIN s = 1 .. Len(s)
  BY LenProperties
<1> DEFINE a == Append(s, e)
<1>3. /\ a \in Seq(S \cup {e}) /\ Len(a) = Len(s) + 1 /\ a[Len(s) + 1] = e
      /\ \A i \in 1 .. Len(s) : a[i] = s[i]
  BY <1>1, AppendProperties
<1>4. DOMAIN a = 1 .. Len(s) + 1
  BY <1>3, LenProperties
<1> HIDE DEF a
<1>5. ToSet(a) = ToSet(s) \cup {e}
  BY <1>2, <1>3, <1>4 DEF ToSet
<1> QED
  BY <1>3, <1>5 DEF a

\* Remembering forgets one id at most, and notes which.
LEMMA Remembering ==
  ASSUME Typing, NEW n \in Node, NEW id, Remember(n, id)
  PROVE  /\ DOMAIN dedupe' = Node /\ \A m \in Node : \E S : dedupe'[m] \in Seq(S)
         /\ DOMAIN forgotten' = Node
         /\ \A m \in Node : forgotten[m] \subseteq forgotten'[m]
         /\ \A m \in Node : ToSet(dedupe[m]) \cup forgotten[m]
                              \subseteq ToSet(dedupe'[m]) \cup forgotten'[m]
         /\ id \in ToSet(dedupe'[n])
<1>1. PICK S : dedupe[n] \in Seq(S)
  BY DEF Typing
<1>2. CASE Len(dedupe[n]) < DedupeSize
  <2>1. dedupe' = [dedupe EXCEPT ![n] = Append(@, id)] /\ forgotten' = forgotten
    BY <1>2 DEF Remember
  <2>2. /\ dedupe'[n] = Append(dedupe[n], id) /\ DOMAIN dedupe' = Node
        /\ \A m \in Node : m # n => dedupe'[m] = dedupe[m]
    BY <2>1 DEF Typing
  <2>3. /\ dedupe'[n] \in Seq(S \cup {id})
        /\ ToSet(dedupe'[n]) = ToSet(dedupe[n]) \cup {id}
    <3>1. /\ Append(dedupe[n], id) \in Seq(S \cup {id})
          /\ ToSet(Append(dedupe[n], id)) = ToSet(dedupe[n]) \cup {id}
      BY <1>1, Longer
    <3> QED
      BY <2>2, <3>1
  <2> QED
    BY <2>1, <2>2, <2>3 DEF Typing
<1>3. CASE ~(Len(dedupe[n]) < DedupeSize)
  <2>1. /\ dedupe' = [dedupe EXCEPT ![n] = Append(Tail(@), id)]
        /\ forgotten' = [forgotten EXCEPT ![n] = @ \cup {Head(dedupe[n])}]
    BY <1>3 DEF Remember
  <2>2. /\ dedupe'[n] = Append(Tail(dedupe[n]), id) /\ DOMAIN dedupe' = Node
        /\ \A m \in Node : m # n => dedupe'[m] = dedupe[m]
        /\ forgotten'[n] = forgotten[n] \cup {Head(dedupe[n])} /\ DOMAIN forgotten' = Node
        /\ \A m \in Node : m # n => forgotten'[m] = forgotten[m]
    BY <2>1 DEF Typing
  <2>3. dedupe[n] # <<>>
    <3>1. DedupeSize \in Nat \ {0}
      BY MeshAssumption
    <3> QED
      BY <1>3, <3>1, EmptySeq
  <2>4. /\ Tail(dedupe[n]) \in Seq(S)
        /\ ToSet(dedupe[n]) = ToSet(Tail(dedupe[n])) \cup {Head(dedupe[n])}
    BY <1>1, <2>3, TailElements
  <2>5. /\ dedupe'[n] \in Seq(S \cup {id})
        /\ ToSet(dedupe'[n]) = ToSet(Tail(dedupe[n])) \cup {id}
    <3> DEFINE t == Tail(dedupe[n])
    <3>1. t \in Seq(S) /\ dedupe'[n] = Append(t, id)
      BY <2>2, <2>4
    <3> HIDE DEF t
    <3>2. /\ Append(t, id) \in Seq(S \cup {id})
          /\ ToSet(Append(t, id)) = ToSet(t) \cup {id}
      BY <3>1, Longer
    <3> QED
      BY <3>1, <3>2 DEF t
  <2> QED
    BY <2>2, <2>4, <2>5 DEF Typing
<1> QED
  BY <1>2, <1>3

\* Only receiving a packet and other traffic touch the cache.
LEMMA Touching ==
  ASSUME [Next]_vars
  PROVE  \/ UNCHANGED Told
         \/ \E n \in Node : OtherTraffic(n)
         \/ \E n \in Node, q \in Node : Receive(q, n)
<1>1. CASE UNCHANGED vars
  BY <1>1 DEF vars, Told
<1>2. ASSUME NEW n \in Node, NEW to \in Node \cup {Everyone}, NEW ttl \in Ttl,
             SendMessage(n, to, ttl)
      PROVE  UNCHANGED Told
  BY <1>2 DEF SendMessage, Told
<1>3. ASSUME NEW n \in Node, Sending(n) PROVE UNCHANGED Told
  BY <1>3 DEF Sending, RefreshPeers, SendTo, Told
<1>4. ASSUME NEW n \in Node, Flushing(n) PROVE UNCHANGED Told
  BY <1>4 DEF Flushing, StartFlush, BackOffOver, FlushNobody, FlushWritten,
              FlushFailed, Told
<1>5. ASSUME NEW n \in Node, NEW p \in Node, Discover(n, p) \/ Stop(n) \/ Start(n)
      PROVE  UNCHANGED Told
  BY <1>5 DEF Discover, Stop, Start, Told
<1> QED
  BY <1>1, <1>2, <1>3, <1>4, <1>5 DEF Next

LEMMA InvStep == Inv /\ [Next]_vars => Inv'
<1> SUFFICES ASSUME Inv, [Next]_vars PROVE Inv'
  OBVIOUS
<1>1. CASE UNCHANGED Told
  BY <1>1 DEF Told, Inv, Typing, Known, AtMostOnce
<1>2. ASSUME NEW n \in Node, OtherTraffic(n) PROVE Inv'
  <2>1. Remember(n, 0) /\ delivered' = delivered
    BY <1>2 DEF OtherTraffic
  <2>2. Typing'
    BY <2>1, Remembering DEF Inv, Typing
  <2>3. Known' /\ AtMostOnce'
    BY <2>1, Remembering DEF Inv, Known, AtMostOnce
  <2> QED
    BY <2>2, <2>3 DEF Inv
<1>3. ASSUME NEW n \in Node, NEW q \in Node, NEW env, ~Seen(n, env.id), Process(n, q, env)
      PROVE  Inv'
  <2> DEFINE id == env.id
             told == IF sent[id].to \in {n, Everyone} /\ delivered[n][id] < 2
                       THEN delivered[n][id] + 1 ELSE delivered[n][id]
  <2>1. Remember(n, id) /\ id \notin ToSet(dedupe[n])
        /\ delivered' = [delivered EXCEPT ![n][id] = told]
    BY <1>3 DEF Process, Seen
  <2>2. \A m \in Node, i \in Id :
          delivered'[m][i] = IF m = n /\ i = id THEN told ELSE delivered[m][i]
    BY <2>1 DEF Inv, Typing
  <2>3. id \in Id => told \in {delivered[n][id], delivered[n][id] + 1} /\ told \in 0 .. 2
    BY DEF Inv, Typing
  <2>4. delivered' \in [Node -> [Id -> 0 .. 2]]
    <3> DEFINE row == [delivered[n] EXCEPT ![id] = told]
    <3>1. delivered' = [delivered EXCEPT ![n] = row]
      BY <2>1
    <3>2. delivered[n] \in [Id -> 0 .. 2] /\ delivered \in [Node -> [Id -> 0 .. 2]]
      BY DEF Inv, Typing
    <3> HIDE DEF told, id
    <3>3. row \in [Id -> 0 .. 2]
      BY <2>3, <3>2
    <3> HIDE DEF row
    <3> QED
      BY <3>1, <3>2, <3>3
  <2> HIDE DEF told, id
  <2>5. Typing'
    BY <2>1, <2>4, Remembering DEF Inv, Typing
  <2>6. Known'
    <3> SUFFICES ASSUME NEW m \in Node, NEW i \in Id, delivered'[m][i] > 0
                 PROVE  i \in ToSet(dedupe'[m]) \cup forgotten'[m]
      BY DEF Known
    <3>1. CASE m = n /\ i = id
      BY <2>1, <3>1, Remembering DEF Inv
    <3>2. CASE ~(m = n /\ i = id)
      <4>1. i \in ToSet(dedupe[m]) \cup forgotten[m]
        BY <2>2, <3>2 DEF Inv, Known
      <4> QED
        BY <2>1, <4>1, Remembering DEF Inv
    <3> QED
      BY <3>1, <3>2
  <2>7. AtMostOnce'
    <3> SUFFICES ASSUME NEW m \in Node, NEW i \in Id, delivered'[m][i] = 2
                 PROVE  i \in forgotten'[m]
      BY DEF AtMostOnce
    <3>1. forgotten[m] \subseteq forgotten'[m]
      BY <2>1, Remembering DEF Inv
    <3>2. CASE delivered[m][i] = 2
      BY <3>1, <3>2 DEF Inv, AtMostOnce
    <3>3. CASE delivered[m][i] # 2
      <4>1. m = n /\ i = id /\ told = 2
        BY <2>2, <3>3
      <4>2. delivered[n][id] > 0
        BY <2>3, <3>3, <4>1 DEF Inv, Typing
      <4>3. id \in forgotten[n]
        BY <2>1, <4>1, <4>2 DEF Inv, Known
      <4> QED
        BY <3>1, <4>1, <4>3
    <3> QED
      BY <3>2, <3>3
  <2> QED
    BY <2>5, <2>6, <2>7 DEF Inv
<1>4. ASSUME NEW n \in Node, NEW q \in Node, Receive(q, n) PROVE Inv'
  <2> DEFINE env == Head(net[<<q, n>>])
  <2>1. \/ UNCHANGED Told
        \/ ~Seen(n, env.id) /\ Process(n, q, env)
    BY <1>4 DEF Receive, Told
  <2> HIDE DEF env
  <2> QED
    BY <1>1, <1>3, <2>1
<1> QED
  BY <1>1, <1>2, <1>4, Touching

\* An app is told of a message at most once while its duplicate cache keeps the
\* id, for every topology, hop limit and fault (runtime.ts,
\* handleIncomingPacket; router.ts, DedupeCache).
THEOREM AtMostOnceHolds == Spec => []AtMostOnce
<1>1. Inv => AtMostOnce
  BY DEF Inv
<1> QED
  BY InvInit, InvStep, <1>1, PTL DEF Spec
-----------------------------------------------------------------------------
(* What a copy carries. *)

\* An envelope that has not outlived its message: the hops made and left are
\* those that the app asked for.
Sound ==
  {env \in [id : DOMAIN sent, ttl : Nat \ {0}, hop : Nat] :
     env.ttl + env.hop = sent[env.id].ttl}

\* Where an envelope of G can be, with entries numbered from E.
Peer         == Node \cup {Everyone}
Entry(E, G)  == [eid : E, env : G, due : BOOLEAN]
Job(G)       == [env : G, left : SUBSET Peer, excluded : SUBSET Node]
Flight(E, G) == [items : Seq(Entry(E, G)) \ {<<>>}, left : SUBSET Peer]

Carries(E, G) ==
  /\ sends \in [Node -> Seq(Job(G))]
  /\ net \in [Pair -> Seq(G)]
  /\ queue \in [Node -> Seq(Entry(E, G))]
  /\ flushes \in [Node -> Seq(Flight(E, G))]

Named ==
  /\ peers \in [Node -> SUBSET Node]
  /\ sent \in Seq([origin : Node, to : Peer, ttl : Nat \ {0}])

Hops == Named /\ \E E : Carries(E, Sound)

LEMMA Wider ==
  ASSUME NEW E, NEW F, NEW G, NEW H, E \subseteq F, G \subseteq H
  PROVE  /\ Seq(G) \subseteq Seq(H) /\ Seq(Job(G)) \subseteq Seq(Job(H))
         /\ Seq(Entry(E, G)) \subseteq Seq(Entry(F, H))
         /\ Seq(Flight(E, G)) \subseteq Seq(Flight(F, H))
<1>1. Seq(Entry(E, G)) \subseteq Seq(Entry(F, H))
  <2>1. Entry(E, G) \subseteq Entry(F, H)
    BY DEF Entry
  <2> QED
    BY <2>1, SeqMonotonic
<1>2. Seq(Flight(E, G)) \subseteq Seq(Flight(F, H))
  <2>1. Flight(E, G) \subseteq Flight(F, H)
    BY <1>1 DEF Flight
  <2> QED
    BY <2>1, SeqMonotonic
<1>3. Seq(Job(G)) \subseteq Seq(Job(H))
  <2>1. Job(G) \subseteq Job(H)
    BY DEF Job
  <2> QED
    BY <2>1, SeqMonotonic
<1> QED
  BY <1>1, <1>2, <1>3, SeqMonotonic

LEMMA WiderCarries ==
  ASSUME NEW E, NEW F, NEW G, NEW H, E \subseteq F, G \subseteq H, Carries(E, G)
  PROVE  Carries(F, H)
<1>1. /\ Seq(G) \subseteq Seq(H) /\ Seq(Job(G)) \subseteq Seq(Job(H))
      /\ Seq(Entry(E, G)) \subseteq Seq(Entry(F, H))
      /\ Seq(Flight(E, G)) \subseteq Seq(Flight(F, H))
  BY Wider
<1> QED
  BY <1>1 DEF Carries

\* The parts of the invariant that an action touches, one lemma each.
LEMMA EnqueueCarries ==
  ASSUME NEW E, NEW G, Carries(E, G), NEW n \in Node, NEW env \in G, Enqueue(n, env)
  PROVE  \E F : E \subseteq F /\ queue' \in [Node -> Seq(Entry(F, G))]
<1> DEFINE F == E \cup {FreshEid(n)}
           e == [eid |-> FreshEid(n), env |-> env, due |-> TRUE]
           q == Append(queue[n], e)
<1>1. queue \in [Node -> Seq(Entry(F, G))] /\ e \in Entry(F, G)
  <2>1. Carries(F, G)
    BY WiderCarries
  <2> QED
    BY <2>1 DEF Carries, Entry
<1>2. queue' = [queue EXCEPT ![n] = IF Len(q) > MaxQueue THEN Tail(q) ELSE q]
  BY DEF Enqueue
<1> HIDE DEF F, e
<1>3. q \in Seq(Entry(F, G)) /\ q # <<>>
  <2>1. queue[n] \in Seq(Entry(F, G))
    BY <1>1
  <2>2. q \in Seq(Entry(F, G)) /\ Len(q) = Len(queue[n]) + 1 /\ Len(queue[n]) \in Nat
    BY <1>1, <2>1, AppendProperties, LenProperties
  <2>3. Len(q) # 0
    BY <2>2
  <2> HIDE DEF q
  <2> QED
    BY <2>2, <2>3, EmptySeq
<1>4. Tail(q) \in Seq(Entry(F, G))
  BY <1>3, HeadTailProperties
<1> HIDE DEF q
<1>5. queue' \in [Node -> Seq(Entry(F, G))]
  BY <1>1, <1>2, <1>3, <1>4
<1> QED
  BY <1>5 DEF F

LEMMA WriteCarries ==
  ASSUME NEW E, NEW G, Carries(E, G), Named, NEW n \in Node, NEW p, NEW env \in G,
         NEW ok, Write(n, p, env, ok)
  PROVE  net' \in [Pair -> Seq(G)]
<1>1. net \in [Pair -> Seq(G)]
  BY DEF Carries
<1>2. CASE net' = net
  BY <1>1, <1>2
<1>3. CASE net' = [net EXCEPT ![<<n, p>>] = Append(@, env)]
  <2>1. <<n, p>> \in Pair => Append(net[<<n, p>>], env) \in Seq(G)
    BY <1>1, AppendProperties
  <2> QED
    BY <1>1, <1>3, <2>1
<1> QED
  BY <1>2, <1>3 DEF Write

LEMMA TargetsAreNamed ==
  ASSUME NEW to \in Peer, NEW known \in SUBSET Node, NEW excluded
  PROVE  Targets(to, known, excluded) \in SUBSET Peer
  BY DEF Targets, Peer

LEMMA DispatchCarries ==
  ASSUME NEW E, NEW G, Carries(E, G), Named, NEW n \in Node, NEW env \in G,
         NEW to \in Peer, NEW excluded \in SUBSET Node, Dispatch(n, env, to, excluded)
  PROVE  sends' \in [Node -> Seq(Job(G))]
<1> DEFINE ts  == Targets(to, peers[n], excluded)
           job == [env |-> env, left |-> ts, excluded |-> excluded]
<1>1. ts \in SUBSET Peer
  BY TargetsAreNamed DEF Named
<1>2. sends' = [sends EXCEPT ![n] = Append(@, job)] /\ sends \in [Node -> Seq(Job(G))]
  BY DEF Dispatch, Carries
<1> HIDE DEF ts
<1>3. job \in Job(G)
  BY <1>1 DEF Job
<1> HIDE DEF job
<1>4. Append(sends[n], job) \in Seq(Job(G))
  BY <1>2, <1>3, AppendProperties
<1> QED
  BY <1>2, <1>4

\* An entry of a flush is done with: its targets come from its envelope.
LEMMA NextItemCarries ==
  ASSUME NEW E, NEW G, Carries(E, G), Named, \A env \in G : sent[env.id].to \in Peer,
         NEW n \in Node, NEW f \in DOMAIN flushes[n], NextItem(n, f)
  PROVE  flushes' \in [Node -> Seq(Flight(E, G))]
<1> DEFINE rest == Tail(flushes[n][f].items)
           next == [items |-> rest, left |-> FlushTargets(n, rest)]
<1>1. /\ flushes \in [Node -> Seq(Flight(E, G))] /\ flushes[n] \in Seq(Flight(E, G))
      /\ f \in 1 .. Len(flushes[n])
  BY LenProperties DEF Carries
<1>2. flushes[n][f] \in Flight(E, G)
  BY <1>1, ElementOfSeq
<1>3. rest \in Seq(Entry(E, G))
  BY <1>2, HeadTailProperties DEF Flight
<1>4. flushes' = [flushes EXCEPT ![n] = IF rest = <<>> THEN RemoveAt(@, f)
                                       ELSE [@ EXCEPT ![f] = next]]
  BY DEF NextItem
<1> HIDE DEF rest
<1>5. RemoveAt(flushes[n], f) \in Seq(Flight(E, G))
  BY <1>1, RemoveAtElements
<1>6. CASE rest = <<>>
  BY <1>1, <1>4, <1>5, <1>6
<1>7. CASE rest # <<>>
  <2>1. Len(rest) # 0 /\ Len(rest) \in Nat
    BY <1>3, <1>7, EmptySeq, LenProperties
  <2>2. rest[1] \in Entry(E, G)
    BY <1>3, <2>1, ElementOfSeq
  <2>3. sent[rest[1].env.id].to \in Peer /\ peers[n] \in SUBSET Node
    BY <2>2 DEF Entry, Named
  <2>4. FlushTargets(n, rest) \in SUBSET Peer
    BY <1>7, <2>3, TargetsAreNamed DEF FlushTargets
  <2>5. next \in Flight(E, G)
    BY <1>3, <1>7, <2>4 DEF Flight
  <2> HIDE DEF next
  <2>6. [flushes[n] EXCEPT ![f] = next] \in Seq(Flight(E, G))
    BY <1>1, <2>5, ExceptSeq
  <2> QED
    BY <1>1, <1>4, <1>7, <2>6
<1> QED
  BY <1>6, <1>7

\* A dispatch that is under way ends, or goes on with other targets.
LEMMA JobCarries ==
  ASSUME NEW E, NEW G, Carries(E, G), NEW n \in Node, NEW j \in DOMAIN sends[n]
  PROVE  /\ sends \in [Node -> Seq(Job(G))] /\ sends[n] \in Seq(Job(G))
         /\ j \in 1 .. Len(sends[n]) /\ sends[n][j] \in Job(G)
<1>1. /\ sends \in [Node -> Seq(Job(G))] /\ sends[n] \in Seq(Job(G))
      /\ j \in 1 .. Len(sends[n])
  BY LenProperties DEF Carries
<1> QED
  BY <1>1, ElementOfSeq

LEMMA ContinueCarries ==
  ASSUME NEW E, NEW G, Carries(E, G), NEW n \in Node, NEW j \in DOMAIN sends[n],
         NEW ts \in SUBSET Peer, Continue(n, j, ts)
  PROVE  sends' \in [Node -> Seq(Job(G))]
<1>1. /\ sends \in [Node -> Seq(Job(G))] /\ sends[n] \in Seq(Job(G))
      /\ j \in 1 .. Len(sends[n]) /\ sends[n][j] \in Job(G)
  BY JobCarries
<1> DEFINE job == [sends[n][j] EXCEPT !.left = ts]
           row == IF ts = {} THEN RemoveAt(sends[n], j) ELSE [sends[n] EXCEPT ![j] = job]
<1>2. sends' = [sends EXCEPT ![n] = row]
  BY DEF Continue
<1>3. job \in Job(G)
  BY <1>1 DEF Job
<1> HIDE DEF job
<1>4. RemoveAt(sends[n], j) \in Seq(Job(G))
  BY <1>1, RemoveAtElements
<1>5. [sends[n] EXCEPT ![j] = job] \in Seq(Job(G))
  BY <1>1, <1>3, ExceptSeq
<1>6. row \in Seq(Job(G))
  BY <1>4, <1>5
<1> HIDE DEF row
<1> QED
  BY <1>1, <1>2, <1>6

LEMMA RefreshCarries ==
  ASSUME NEW E, NEW G, Carries(E, G), Named, \A env \in G : sent[env.id].to \in Peer,
         NEW n \in Node, NEW j \in DOMAIN sends[n], RefreshPeers(n, j)
  PROVE  /\ peers' \in [Node -> SUBSET Node] /\ sends' \in [Node -> Seq(Job(G))]
         /\ \E F : E \subseteq F /\ queue' \in [Node -> Seq(Entry(F, G))]
<1> DEFINE env == sends[n][j].env
           targets(found) == Targets(sent[env.id].to, peers[n] \cup found,
                                     sends[n][j].excluded)
<1>1. sends[n][j] \in Job(G)
  BY JobCarries
<1>2. env \in G /\ sent[env.id].to \in Peer
  BY <1>1 DEF Job
<1>3. PICK found \in SUBSET InRange(n) :
        /\ peers' = [peers EXCEPT ![n] = @ \cup found]
        /\ Continue(n, j, targets(found))
        /\ IF targets(found) = {} THEN Enqueue(n, env) ELSE UNCHANGED <<queue, gone>>
  BY DEF RefreshPeers
<1> DEFINE ts == targets(found)
<1>4. found \subseteq Node /\ peers \in [Node -> SUBSET Node]
  BY DEF InRange, Named
<1>5. ts \in SUBSET Peer
  BY <1>2, <1>4, TargetsAreNamed
<1>6. Continue(n, j, ts) /\ (queue' = queue \/ Enqueue(n, env))
  BY <1>3
<1> HIDE DEF ts, env
<1>7. sends' \in [Node -> Seq(Job(G))]
  BY <1>5, <1>6, ContinueCarries
<1>8. CASE Enqueue(n, env)
  <2>1. \E F : E \subseteq F /\ queue' \in [Node -> Seq(Entry(F, G))]
    BY <1>2, <1>8, EnqueueCarries
  <2> QED
    BY <1>3, <1>4, <1>7, <2>1
<1>9. CASE queue' = queue
  BY <1>3, <1>4, <1>7, <1>9 DEF Carries
<1> QED
  BY <1>6, <1>8, <1>9

LEMMA SendToCarries ==
  ASSUME NEW E, NEW G, Carries(E, G), Named,
         NEW n \in Node, NEW j \in DOMAIN sends[n], NEW p \in Node, SendTo(n, j, p)
  PROVE  /\ sends' \in [Node -> Seq(Job(G))] /\ net' \in [Pair -> Seq(G)]
         /\ \E F : E \subseteq F /\ queue' \in [Node -> Seq(Entry(F, G))]
<1> DEFINE env == sends[n][j].env
           ts  == sends[n][j].left \ {p}
<1>1. sends[n][j] \in Job(G)
  BY JobCarries
<1>2. env \in G /\ ts \in SUBSET Peer
  BY <1>1 DEF Job
<1>3. /\ Continue(n, j, ts) /\ \E ok \in BOOLEAN : Write(n, p, env, ok)
      /\ queue' = queue \/ Enqueue(n, env)
  BY DEF SendTo
<1> HIDE DEF ts, env
<1>4. sends' \in [Node -> Seq(Job(G))]
  BY <1>2, <1>3, ContinueCarries
<1>5. net' \in [Pair -> Seq(G)]
  BY <1>2, <1>3, WriteCarries
<1>6. CASE Enqueue(n, env)
  <2>1. \E F : E \subseteq F /\ queue' \in [Node -> Seq(Entry(F, G))]
    BY <1>2, <1>6, EnqueueCarries
  <2> QED
    BY <1>4, <1>5, <2>1
<1>7. CASE queue' = queue
  BY <1>4, <1>5, <1>7 DEF Carries
<1> QED
  BY <1>3, <1>6, <1>7
\* A queue of which every member is an entry of the old one.
LEMMA QueueCarries ==
  ASSUME NEW E, NEW G, Carries(E, G), NEW n \in Node, NEW q \in Seq(Entry(E, G)),
         queue' = [queue EXCEPT ![n] = q]
  PROVE  queue' \in [Node -> Seq(Entry(E, G))]
<1>1. queue \in [Node -> Seq(Entry(E, G))]
  BY DEF Carries
<1> QED
  BY <1>1

LEMMA EntriesCarry ==
  ASSUME NEW E, NEW G, NEW q \in Seq(Entry(E, G)), NEW e
  PROVE  RemoveEntry(q, e) \in Seq(Entry(E, G)) /\ BackOff(q, e) \in Seq(Entry(E, G))
<1>1. RemoveEntry(q, e) \in Seq(Entry(E, G))
  BY WithoutElements DEF RemoveEntry
<1>2. Len(q) \in Nat /\ DOMAIN q = 1 .. Len(q) /\ \A i \in 1 .. Len(q) : q[i] \in Entry(E, G)
  BY LenProperties, ElementOfSeq
<1>3. \A i \in DOMAIN q : (IF q[i].eid = e.eid THEN [q[i] EXCEPT !.due = FALSE] ELSE q[i])
        \in Entry(E, G)
  BY <1>2 DEF Entry
<1>4. BackOff(q, e) \in [1 .. Len(q) -> Entry(E, G)]
  BY <1>2, <1>3 DEF BackOff
<1> HIDE DEF Entry
<1>5. BackOff(q, e) \in Seq(Entry(E, G))
  BY <1>2, <1>4, IsASeq
<1> QED
  BY <1>1, <1>5

LEMMA FlushCarries ==
  ASSUME NEW E, NEW G, Carries(E, G), Named, \A env \in G : sent[env.id].to \in Peer,
         NEW n \in Node, NEW f \in DOMAIN flushes[n],
         \/ FlushNobody(n, f)
         \/ \E p \in Node : FlushWritten(n, f, p) \/ FlushFailed(n, f, p)
  PROVE  /\ flushes' \in [Node -> Seq(Flight(E, G))] /\ net' \in [Pair -> Seq(G)]
         /\ queue' \in [Node -> Seq(Entry(E, G))]
<1> DEFINE job == flushes[n][f]
           e   == Head(job.items)
           env == e.env
<1>1. /\ flushes \in [Node -> Seq(Flight(E, G))] /\ flushes[n] \in Seq(Flight(E, G))
      /\ f \in 1 .. Len(flushes[n])
  BY LenProperties DEF Carries
<1>2. job \in Flight(E, G)
  BY <1>1, ElementOfSeq
<1>3. e \in Entry(E, G)
  BY <1>2, HeadTailProperties DEF Flight
<1>4. env \in G
  BY <1>3 DEF Entry
<1>5. queue \in [Node -> Seq(Entry(E, G))] /\ queue[n] \in Seq(Entry(E, G)) /\ net \in [Pair -> Seq(G)]
  BY DEF Carries
<1>6. RemoveEntry(queue[n], e) \in Seq(Entry(E, G)) /\ BackOff(queue[n], e) \in Seq(Entry(E, G))
  BY <1>5, EntriesCarry
<1>7. net' \in [Pair -> Seq(G)]
  <2>1. net' = net \/ \E p \in Node, ok \in BOOLEAN : Write(n, p, env, ok)
    BY DEF FlushNobody, FlushWritten, FlushFailed
  <2> HIDE DEF env
  <2> QED
    BY <1>4, <1>5, <2>1, WriteCarries
<1>8. queue' \in [Node -> Seq(Entry(E, G))]
  <2>1. \/ queue' = queue
        \/ queue' = [queue EXCEPT ![n] = RemoveEntry(@, e)]
        \/ queue' = [queue EXCEPT ![n] = BackOff(@, e)]
    BY DEF FlushNobody, FlushWritten, FlushFailed
  <2> HIDE DEF e
  <2> QED
    BY <1>5, <1>6, <2>1
<1>9. flushes' \in [Node -> Seq(Flight(E, G))]
  <2>1. CASE NextItem(n, f)
    BY <2>1, NextItemCarries
  <2>2. ASSUME NEW p \in Node, flushes' = [flushes EXCEPT ![n][f].left = @ \ {p}]
        PROVE  flushes' \in [Node -> Seq(Flight(E, G))]
    <3> DEFINE less == [flushes[n][f] EXCEPT !.left = @ \ {p}]
    <3>1. less \in Flight(E, G)
      BY <1>2 DEF Flight
    <3>2. flushes' = [flushes EXCEPT ![n] = [flushes[n] EXCEPT ![f] = less]]
      BY <1>1, <2>2
    <3> HIDE DEF less
    <3>3. [flushes[n] EXCEPT ![f] = less] \in Seq(Flight(E, G))
      BY <1>1, <3>1, ExceptSeq
    <3> QED
      BY <1>1, <3>2, <3>3
  <2>3. NextItem(n, f) \/ \E p \in Node : flushes' = [flushes EXCEPT ![n][f].left = @ \ {p}]
    BY DEF FlushNobody, FlushWritten, FlushFailed
  <2> QED
    BY <2>1, <2>2, <2>3
<1> QED
  BY <1>7, <1>8, <1>9

LEMMA StartFlushCarries ==
  ASSUME NEW E, NEW G, Carries(E, G), Named, \A env \in G : sent[env.id].to \in Peer,
         NEW n \in Node, StartFlush(n)
  PROVE  /\ flushes' \in [Node -> Seq(Flight(E, G))]
         /\ queue' \in [Node -> Seq(Entry(E, G))]
<1>1. PICK expired \in SUBSET ToSet(queue[n]) :
        LET kept  == Without(queue[n], expired)
            ready == Without(kept, {e \in ToSet(kept) : ~e.due})
        IN /\ queue' = [queue EXCEPT ![n] = kept]
           /\ flushes' = (IF ready = <<>> THEN flushes
                          ELSE [flushes EXCEPT ![n] = Append(@,
                            [items |-> ready, left |-> FlushTargets(n, ready)])])
  BY DEF StartFlush
<1> DEFINE kept  == Without(queue[n], expired)
           ready == Without(kept, {e \in ToSet(kept) : ~e.due})
           new   == [items |-> ready, left |-> FlushTargets(n, ready)]
<1>2. queue[n] \in Seq(Entry(E, G))
  BY DEF Carries
<1>3. kept \in Seq(Entry(E, G))
  BY <1>2, WithoutElements
<1>4. queue' \in [Node -> Seq(Entry(E, G))]
  BY <1>1, <1>3, QueueCarries
<1> HIDE DEF kept
<1>5. ready \in Seq(Entry(E, G))
  BY <1>3, WithoutElements
<1>6. flushes' = (IF ready = <<>> THEN flushes ELSE [flushes EXCEPT ![n] = Append(@, new)])
  BY <1>1 DEF kept
<1>7. flushes \in [Node -> Seq(Flight(E, G))] /\ flushes[n] \in Seq(Flight(E, G))
  BY DEF Carries
<1> HIDE DEF ready
<1>8. ready # <<>> => Append(flushes[n], new) \in Seq(Flight(E, G))
  <2> SUFFICES ASSUME ready # <<>> PROVE Append(flushes[n], new) \in Seq(Flight(E, G))
    OBVIOUS
  <2>1. Len(ready) # 0 /\ Len(ready) \in Nat
    BY <1>5, EmptySeq, LenProperties
  <2>2. ready[1] \in Entry(E, G)
    BY <1>5, <2>1, ElementOfSeq
  <2>3. sent[ready[1].env.id].to \in Peer /\ peers[n] \in SUBSET Node
    BY <2>2 DEF Entry, Named
  <2>4. FlushTargets(n, ready) \in SUBSET Peer
    BY <2>3, TargetsAreNamed DEF FlushTargets
  <2>5. new \in Flight(E, G)
    BY <1>5, <2>4 DEF Flight
  <2> HIDE DEF new
  <2> QED
    BY <1>7, <2>5, AppendProperties
<1> HIDE DEF new
<1> QED
  BY <1>4, <1>6, <1>7, <1>8
LEMMA SoundRecipients ==
  ASSUME Named
  PROVE  \A env \in Sound : sent[env.id].to \in Peer
<1> DEFINE T == [origin : Node, to : Peer, ttl : Nat \ {0}]
<1>1. sent \in Seq(T)
  BY DEF Named
<1> HIDE DEF T
<1>2. \A i \in DOMAIN sent : sent[i] \in T
  BY <1>1, ElementOfSeq, LenProperties
<1> QED
  BY <1>2 DEF Sound, T

\* A relayed copy has made one hop more and has one less left.
LEMMA ForwardedIsSound ==
  ASSUME Named, NEW n \in Node, NEW env \in Sound, NEW direct, Relays(n, env, direct)
  PROVE  Forwarded(env) \in Sound
<1>1. /\ env.id \in DOMAIN sent /\ env.ttl \in Nat /\ env.ttl - 1 > 0 /\ env.hop \in Nat
      /\ env.ttl + env.hop = sent[env.id].ttl
  BY DEF Sound, Relays
<1>2. Forwarded(env) = [id |-> env.id, ttl |-> env.ttl - 1, hop |-> env.hop + 1]
  BY DEF Forwarded
<1>3. /\ env.ttl - 1 \in Nat \ {0} /\ env.hop + 1 \in Nat
      /\ (env.ttl - 1) + (env.hop + 1) = sent[env.id].ttl
  BY <1>1
<1> HIDE DEF Sound
<1> QED
  BY <1>1, <1>2, <1>3 DEF Sound

LEMMA ReceiveCarries ==
  ASSUME NEW E, Carries(E, Sound), Named, NEW n \in Node, NEW q \in Node, Receive(q, n)
  PROVE  /\ sends' \in [Node -> Seq(Job(Sound))] /\ net' \in [Pair -> Seq(Sound)]
<1> DEFINE c   == <<q, n>>
           env == Head(net[c])
<1>1. /\ net \in [Pair -> Seq(Sound)] /\ c \in Pair /\ net[c] # <<>>
      /\ net' = [net EXCEPT ![c] = Tail(@)]
  BY DEF Carries, Receive
<1>2. env \in Sound /\ Tail(net[c]) \in Seq(Sound)
  BY <1>1, HeadTailProperties
<1>3. net' \in [Pair -> Seq(Sound)]
  <2> HIDE DEF c
  <2> QED
    BY <1>1, <1>2
<1>4. sends' = sends \/ Process(n, q, env)
  BY DEF Receive
<1> HIDE DEF env
<1>5. CASE Process(n, q, env)
  <2> DEFINE to   == sent[env.id].to
             copy == Forwarded(env)
  <2>1. \/ sends' = sends
        \/ \E excluded \in {{}, {q} \cap peers[n]}, direct \in {{}, {to} \cap peers[n]} :
             Relays(n, env, direct) /\ Dispatch(n, copy, to, excluded)
    BY <1>5 DEF Process
  <2>2. to \in Peer /\ peers[n] \in SUBSET Node
    BY <1>2, SoundRecipients DEF Named
  <2>3. ASSUME NEW direct, Relays(n, env, direct) PROVE copy \in Sound
    BY <1>2, <2>3, ForwardedIsSound
  <2> HIDE DEF to, copy
  <2>4. ASSUME NEW excluded \in {{}, {q} \cap peers[n]},
               NEW direct, Relays(n, env, direct), Dispatch(n, copy, to, excluded)
        PROVE  sends' \in [Node -> Seq(Job(Sound))]
    <3>1. excluded \in SUBSET Node
      BY <2>2
    <3> QED
      BY <2>2, <2>3, <2>4, <3>1, DispatchCarries
  <2> QED
    BY <1>3, <2>1, <2>4 DEF Carries
<1> QED
  BY <1>3, <1>4, <1>5 DEF Carries

LEMMA SendMessageCarries ==
  ASSUME NEW E, Carries(E, Sound), Named, NEW n \in Node, NEW to \in Node \cup {Everyone},
         NEW ttl \in Ttl, SendMessage(n, to, ttl)
  PROVE  Hops'
<1> DEFINE message == [origin |-> n, to |-> to, ttl |-> ttl]
           env     == [id |-> Len(sent) + 1, ttl |-> ttl, hop |-> 0]
           T       == [origin : Node, to : Peer, ttl : Nat \ {0}]
<1>1. sent \in Seq(T) /\ message \in T /\ sent' = Append(sent, message) /\ ttl \in Nat \ {0}
  BY MeshAssumption DEF Named, Peer, SendMessage
<1> HIDE DEF message
<1>2. /\ sent' \in Seq(T) /\ Len(sent) \in Nat /\ Len(sent') = Len(sent) + 1
      /\ DOMAIN sent = 1 .. Len(sent) /\ DOMAIN sent' = 1 .. Len(sent')
      /\ \A i \in 1 .. Len(sent) : sent'[i] = sent[i]
      /\ sent'[Len(sent) + 1] = message
  BY <1>1, AppendProperties, LenProperties
<1>3. Named'
  BY <1>2 DEF Named, SendMessage
<1>4. Sound \subseteq Sound'
  BY <1>2 DEF Sound
<1>5. env \in Sound'
  BY <1>1, <1>2 DEF Sound, message
<1>6. Carries(E, Sound')
  BY <1>4, WiderCarries
<1>7. Dispatch(n, env, to, {}) /\ UNCHANGED <<queue, flushes, net, peers>>
  BY DEF SendMessage
<1> HIDE DEF env
<1>8. sends' \in [Node -> Seq(Job(Sound'))]
  <2> DEFINE G == Sound'
  <2>1. Carries(E, G) /\ env \in G /\ to \in Peer
    BY <1>5, <1>6 DEF Peer
  <2> HIDE DEF G
  <2>2. sends' \in [Node -> Seq(Job(G))]
    BY <1>7, <2>1, DispatchCarries
  <2> QED
    BY <2>2 DEF G
<1>9. Carries(E, Sound)'
  BY <1>6, <1>7, <1>8 DEF Carries, Job, Entry, Flight, Peer, Pair
<1> QED
  BY <1>3, <1>9 DEF Hops
LEMMA HopsInit == Init => Hops
<1> SUFFICES ASSUME Init PROVE Hops
  OBVIOUS
<1>1. Named
  BY EmptySeq DEF Init, Named
<1>2. Carries({}, Sound)
  BY EmptySeq DEF Init, Carries
<1> QED
  BY <1>1, <1>2 DEF Hops

\* What does not send a new message leaves Sound as it is.
LEMMA HopsKept ==
  ASSUME NEW E, Named', sent' = sent,
         sends' \in [Node -> Seq(Job(Sound))], net' \in [Pair -> Seq(Sound)],
         queue' \in [Node -> Seq(Entry(E, Sound))], 
         flushes' \in [Node -> Seq(Flight(E, Sound))]
  PROVE  Hops'
<1>1. Sound' = Sound
  BY DEF Sound
<1>2. Carries(E, Sound)'
  BY <1>1 DEF Carries, Job, Entry, Flight, Peer, Pair
<1> QED
  BY <1>2 DEF Hops

LEMMA HopsStep == Hops /\ [Next]_vars => Hops'
<1> SUFFICES ASSUME Hops, [Next]_vars PROVE Hops'
  OBVIOUS
<1>1. PICK E : Carries(E, Sound)
  BY DEF Hops
<1>2. Named /\ \A env \in Sound : sent[env.id].to \in Peer
  BY SoundRecipients DEF Hops
<1> DEFINE G == Sound
<1>3. /\ Carries(E, G) /\ \A env \in G : sent[env.id].to \in Peer
      /\ sends \in [Node -> Seq(Job(G))] /\ net \in [Pair -> Seq(G)]
      /\ queue \in [Node -> Seq(Entry(E, G))] /\ flushes \in [Node -> Seq(Flight(E, G))]
  BY <1>1, <1>2 DEF Carries
<1>4. ASSUME sent' = sent, peers' = peers PROVE Named'
  BY <1>2, <1>4 DEF Named
<1>5. CASE UNCHANGED <<sent, peers, sends, net, queue, flushes>>
  BY <1>3, <1>4, <1>5, HopsKept
<1>6. ASSUME NEW n \in Node, NEW to \in Node \cup {Everyone}, NEW ttl \in Ttl,
             SendMessage(n, to, ttl)
      PROVE  Hops'
  BY <1>1, <1>2, <1>6, SendMessageCarries
<1>7. ASSUME NEW n \in Node, Sending(n) PROVE Hops'
  <2>1. ASSUME NEW j \in DOMAIN sends[n], RefreshPeers(n, j) PROVE Hops'
    <3>1. sent' = sent /\ net' = net /\ flushes' = flushes
      BY <2>1 DEF RefreshPeers
    <3> HIDE DEF G
    <3>2. /\ peers' \in [Node -> SUBSET Node] /\ sends' \in [Node -> Seq(Job(G))]
          /\ \E F : E \subseteq F /\ queue' \in [Node -> Seq(Entry(F, G))]
      BY <1>2, <1>3, <2>1, RefreshCarries
    <3>3. PICK F : E \subseteq F /\ queue' \in [Node -> Seq(Entry(F, G))]
      BY <3>2
    <3>4. flushes \in [Node -> Seq(Flight(F, G))]
      BY <1>3, <3>3, WiderCarries DEF Carries
    <3>5. Named'
      BY <1>2, <3>1, <3>2 DEF Named
    <3> USE DEF G
    <3> QED
      BY <1>3, <3>1, <3>2, <3>3, <3>4, <3>5, HopsKept
  <2>2. ASSUME NEW j \in DOMAIN sends[n], NEW p \in Node, SendTo(n, j, p) PROVE Hops'
    <3>1. sent' = sent /\ peers' = peers /\ flushes' = flushes
      BY <2>2 DEF SendTo
    <3> HIDE DEF G
    <3>2. /\ net' \in [Pair -> Seq(G)] /\ sends' \in [Node -> Seq(Job(G))]
          /\ \E F : E \subseteq F /\ queue' \in [Node -> Seq(Entry(F, G))]
      BY <1>2, <1>3, <2>2, SendToCarries
    <3>3. PICK F : E \subseteq F /\ queue' \in [Node -> Seq(Entry(F, G))]
      BY <3>2
    <3>4. flushes \in [Node -> Seq(Flight(F, G))]
      BY <1>3, <3>3, WiderCarries DEF Carries
    <3> USE DEF G
    <3> QED
      BY <1>4, <3>1, <3>2, <3>3, <3>4, HopsKept
  <2> QED
    BY <1>7, <2>1, <2>2 DEF Sending
<1>8. ASSUME NEW n \in Node, Flushing(n) PROVE Hops'
  <2>1. CASE StartFlush(n)
    <3>1. UNCHANGED <<sent, peers, sends, net>>
      BY <2>1 DEF StartFlush
    <3> HIDE DEF G
    <3>2. flushes' \in [Node -> Seq(Flight(E, G))] /\ queue' \in [Node -> Seq(Entry(E, G))]
      BY <1>2, <1>3, <2>1, StartFlushCarries
    <3> USE DEF G
    <3> QED
      BY <1>3, <1>4, <3>1, <3>2, HopsKept
  <2>2. ASSUME NEW i \in DOMAIN queue[n], BackOffOver(n, i) PROVE Hops'
    <3> DEFINE e == [queue[n][i] EXCEPT !.due = TRUE]
    <3>1. UNCHANGED <<sent, peers, sends, net, flushes>>
      BY <2>2 DEF BackOffOver
    <3>2. queue[n] \in Seq(Entry(E, G)) /\ i \in 1 .. Len(queue[n])
      BY <1>3, <2>2, LenProperties
    <3>3. queue[n][i] \in Entry(E, G)
      BY <3>2, ElementOfSeq
    <3>4. e \in Entry(E, G)
      BY <3>3 DEF Entry
    <3>5. queue' = [queue EXCEPT ![n] = [queue[n] EXCEPT ![i] = e]]
      BY <1>3, <2>2 DEF BackOffOver
    <3> HIDE DEF G, e
    <3>6. [queue[n] EXCEPT ![i] = e] \in Seq(Entry(E, G))
      BY <3>2, <3>4, ExceptSeq
    <3>7. queue' \in [Node -> Seq(Entry(E, G))]
      BY <1>3, <3>5, <3>6
    <3> USE DEF G
    <3> QED
      BY <1>3, <1>4, <3>1, <3>7, HopsKept
  <2>3. ASSUME NEW f \in DOMAIN flushes[n],
               \/ FlushNobody(n, f)
               \/ \E p \in Node : FlushWritten(n, f, p) \/ FlushFailed(n, f, p)
        PROVE  Hops'
    <3>1. UNCHANGED <<sent, peers, sends>>
      BY <2>3 DEF FlushNobody, FlushWritten, FlushFailed
    <3> HIDE DEF G
    <3>2. /\ flushes' \in [Node -> Seq(Flight(E, G))] /\ net' \in [Pair -> Seq(G)]
          /\ queue' \in [Node -> Seq(Entry(E, G))]
      BY <1>2, <1>3, <2>3, FlushCarries
    <3> USE DEF G
    <3> QED
      BY <1>3, <1>4, <3>1, <3>2, HopsKept
  <2> QED
    BY <1>8, <2>1, <2>2, <2>3 DEF Flushing
<1>9. ASSUME NEW n \in Node, NEW q \in Node, Receive(q, n) PROVE Hops'
  <2>1. UNCHANGED <<sent, peers, queue, flushes>>
    BY <1>9 DEF Receive
  <2>2. sends' \in [Node -> Seq(Job(Sound))] /\ net' \in [Pair -> Seq(Sound)]
    BY <1>1, <1>2, <1>9, ReceiveCarries
  <2> QED
    BY <1>3, <1>4, <2>1, <2>2, HopsKept
<1>10. ASSUME NEW n \in Node, NEW p \in Node, Discover(n, p) PROVE Hops'
  <2>1. UNCHANGED <<sent, sends, net, queue, flushes>>
    BY <1>10 DEF Discover
  <2>2. Named'
    BY <1>2, <1>10 DEF Discover, InRange, Named
  <2> QED
    BY <1>3, <2>1, <2>2, HopsKept
<1>11. CASE UNCHANGED vars
  BY <1>5, <1>11 DEF vars
<1>12. ASSUME NEW n \in Node, OtherTraffic(n) \/ Stop(n) \/ Start(n) PROVE Hops'
  BY <1>5, <1>12 DEF OtherTraffic, Stop, Start
<1> QED
  BY <1>6, <1>7, <1>8, <1>9, <1>10, <1>11, <1>12 DEF Next

LEMMA HopsImply == Hops => HopsAddUp
<1> SUFFICES ASSUME Hops PROVE HopsAddUp
  OBVIOUS
<1>1. PICK E : Carries(E, Sound)
  BY DEF Hops
<1>2. \A c \in Pair : ToSet(net[c]) \subseteq Sound
  BY <1>1, ElementOfSeq, LenProperties DEF Carries, ToSet
<1>3. ASSUME NEW n \in Node, NEW j \in DOMAIN sends[n] PROVE sends[n][j].env \in Sound
  BY <1>1, JobCarries DEF Job
<1>4. ASSUME NEW n \in Node, NEW e \in ToSet(queue[n]) PROVE e.env \in Sound
  <2>1. queue[n] \in Seq(Entry(E, Sound))
    BY <1>1 DEF Carries
  <2>2. e \in Entry(E, Sound)
    BY <2>1, <1>4, ElementOfSeq, LenProperties DEF ToSet
  <2> QED
    BY <2>2 DEF Entry
<1> DEFINE air     == UNION {ToSet(net[c]) : c \in Pair}
           writing == UNION {{sends[n][j].env : j \in DOMAIN sends[n]} : n \in Node}
           stored  == UNION {{e.env : e \in ToSet(queue[n])} : n \in Node}
<1>5. air \subseteq Sound
  BY <1>2
<1>6. writing \subseteq Sound
  BY <1>3
<1>7. stored \subseteq Sound
  BY <1>4
<1>8. Travelling = air \cup writing \cup stored
  BY DEF Travelling
<1> HIDE DEF air, writing, stored
<1>9. Travelling \subseteq Sound
  BY <1>5, <1>6, <1>7, <1>8
<1> QED
  BY <1>9 DEF HopsAddUp, Sound

\* No copy of a message makes more hops than the app asked for, wherever it is:
\* on the air, in a dispatch that is half-way, or in a store-and-forward queue;
\* for every topology, fault and cache size (router.ts, getRelayDecision and
\* forwardedEnvelope).
THEOREM HopsAddUpHolds == Spec => []HopsAddUp
  BY HopsInit, HopsStep, HopsImply, PTL DEF Spec
===============================================================================
