--------------------------------- MODULE Mesh ---------------------------------
(***************************************************************************)
(* The Bluetooth mesh of zynth-bluetooth (src/mesh): nodes that flood      *)
(* broadcasts with a hop limit, drop what they have seen, and keep what    *)
(* they could not write in a store-and-forward queue.  Every node is one   *)
(* JavaScript thread, but sending and flushing await each write, so that   *)
(* any of them can be half-way while another message comes in.  A node is  *)
(* known to its peers by the id it uses in envelopes; security is off, as  *)
(* it is by default, and a packet fits one frame.                          *)
(***************************************************************************)
EXTENDS Lists, FiniteSets

CONSTANTS
  Node,
  Links,      \* who can reach whom over the air: sets of two nodes
  Everyone,   \* recipientId = null
  Senders,    \* the nodes whose apps send: a bound
  Ttl,        \* the ttl that apps ask for
  MaxTtl,     \* relayPolicy.maxTtl
  DedupeSize, \* DedupeCache.maxSize
  MaxQueue,   \* storeForwardPolicy.maxMessages
  Faults,     \* "late": written, but the write timed out; "lost": a write
              \* without response that is lost; "expire": an entry expires;
              \* "stop": an app stops its node; "crowd": other traffic
              \* fills the cache; "overlap": a flush lasts past the next one
  MaxMessages, MaxInAir,  \* bounds: messages, packets on the way to a node,
  MaxFaults               \* faults

ASSUME MeshAssumption ==
  /\ IsFiniteSet(Node) /\ Everyone \notin Node /\ Senders \subseteq Node
  /\ \A l \in Links : \E m, n \in Node : m # n /\ l = {m, n}
  /\ Ttl \subseteq Nat \ {0} /\ MaxTtl \in Nat \ {0}
  /\ {DedupeSize, MaxQueue, MaxMessages, MaxInAir} \subseteq Nat \ {0}
  /\ MaxFaults \in Nat /\ Faults \subseteq {"late", "lost", "expire", "stop", "crowd", "overlap"}

VARIABLES
  running, peers, dedupe,
  queue,     \* the store-and-forward queue, oldest first: [eid, env, due],
             \* where env is an envelope [id, ttl, hop]
  sends,     \* dispatchEnvelope calls that are under way, by node: [env,
             \* left, excluded], where left are the targets to write to yet
  flushes,   \* flushQueue calls that are under way, by node: [items, left]
  net,       \* envelopes written and not yet received, by <<from, to>>
  sent,      \* what apps sent, by message id: [origin, to, ttl]
  delivered, \* history: how often message_received told of each, up to 2
  forgotten, \* history: ids evicted from each duplicate cache
  gone,      \* history: ids that were lost, expired or evicted somewhere
  faults     \* how many faults there were

vars == <<running, peers, dedupe, queue, sends, flushes, net, sent, delivered,
          forgotten, gone, faults>>

Id == 1 .. MaxMessages
Pair == {c \in Node \X Node : {c[1], c[2]} \in Links}
InRange(n) == {p \in Node : {n, p} \in Links}

Init ==
  /\ running = [n \in Node |-> TRUE] /\ peers = [n \in Node |-> {}]
  /\ dedupe = [n \in Node |-> <<>>] /\ queue = [n \in Node |-> <<>>]
  /\ sends = [n \in Node |-> <<>>] /\ flushes = [n \in Node |-> <<>>]
  /\ net = [c \in Pair |-> <<>>] /\ sent = <<>>
  /\ delivered = [n \in Node |-> [i \in Id |-> 0]]
  /\ forgotten = [n \in Node |-> {}] /\ gone = {} /\ faults = 0

-----------------------------------------------------------------------------
(* Writes, and the store-and-forward queue. *)

\* An envelope with a recipient is written to the recipient only.
Targets(to, known, excluded) == IF to # Everyone THEN {to} ELSE known \ excluded

Happen(fs) ==
  /\ fs \subseteq Faults /\ faults + Cardinality(fs) <= MaxFaults
  /\ faults' = faults + Cardinality(fs)
Fault(f) == Happen({f})

\* writeToPeer answers ok.  A peer that is not known cannot be written to.
Write(n, p, env, ok) ==
  /\ ok => p \in peers[n]
  /\ \/ /\ p \in peers[n] /\ Len(net[<<n, p>>]) < MaxInAir
        /\ net' = [net EXCEPT ![<<n, p>>] = Append(@, env)]
        /\ IF ok THEN UNCHANGED faults ELSE Fault("late")
     \/ /\ UNCHANGED net
        /\ IF ok THEN Fault("lost") ELSE UNCHANGED faults

Lost(env) == IF net' = net THEN {env.id} ELSE {}

\* A number that no entry of n has, in the queue or in the hands of a flush.
FreshEid(n) ==
  LET used == {queue[n][i].eid : i \in DOMAIN queue[n]}
        \cup UNION {{flushes[n][f].items[i].eid : i \in DOMAIN flushes[n][f].items} :
                    f \in DOMAIN flushes[n]}
  IN CHOOSE e \in 1 .. Cardinality(used) + 1 : e \notin used

\* enqueue and prune: the oldest entry makes room.
Enqueue(n, env) ==
  LET q == Append(queue[n], [eid |-> FreshEid(n), env |-> env, due |-> TRUE])
  IN IF Len(q) > MaxQueue
       THEN /\ queue' = [queue EXCEPT ![n] = Tail(q)]
            /\ gone' = gone \cup {Head(q).env.id}
       ELSE /\ queue' = [queue EXCEPT ![n] = q]
            /\ UNCHANGED gone

-----------------------------------------------------------------------------
(* dispatchEnvelope. *)

Dispatch(n, env, to, excluded) ==
  sends' = [sends EXCEPT ![n] = Append(@,
    [env |-> env, left |-> Targets(to, peers[n], excluded), excluded |-> excluded])]

\* The call goes on with the targets ts, or ends when there is none.
Continue(n, j, ts) ==
  sends' = [sends EXCEPT ![n] =
    IF ts = {} THEN RemoveAt(@, j) ELSE [@ EXCEPT ![j].left = ts]]

SendMessage(n, to, ttl) ==
  /\ n \in Senders /\ running[n] /\ Len(sent) < MaxMessages /\ to # n
  /\ sent' = Append(sent, [origin |-> n, to |-> to, ttl |-> ttl])
  /\ Dispatch(n, [id |-> Len(sent) + 1, ttl |-> ttl, hop |-> 0], to, {})
  /\ UNCHANGED <<running, peers, dedupe, queue, flushes, net, delivered,
                 forgotten, gone, faults>>

\* refreshPeersFromScan, when there is nobody to send to; if that finds nobody
\* the envelope is queued.
RefreshPeers(n, j) ==
  LET job == sends[n][j] IN
  /\ job.left = {}
  /\ \E found \in SUBSET InRange(n) :
       LET ts == Targets(sent[job.env.id].to, peers[n] \cup found, job.excluded) IN
         /\ peers' = [peers EXCEPT ![n] = @ \cup found]
         /\ Continue(n, j, ts)
         /\ IF ts = {} THEN Enqueue(n, job.env) ELSE UNCHANGED <<queue, gone>>
  /\ UNCHANGED <<running, dedupe, flushes, net, sent, delivered, forgotten, faults>>

\* One write of the loop over the targets; each failure queues a copy.
SendTo(n, j, p) ==
  LET job == sends[n][j] IN
  /\ p \in job.left /\ Continue(n, j, job.left \ {p})
  /\ \/ /\ Write(n, p, job.env, TRUE)
        /\ gone' = gone \cup Lost(job.env) /\ UNCHANGED queue
     \/ Write(n, p, job.env, FALSE) /\ Enqueue(n, job.env)
  /\ UNCHANGED <<running, peers, dedupe, flushes, sent, delivered, forgotten>>

-----------------------------------------------------------------------------
(* handleIncomingPacket. *)

Seen(n, id) == id \in ToSet(dedupe[n])

\* Mutant: nothing is remembered.
RememberNothing(n, id) == UNCHANGED <<dedupe, forgotten>>

\* DedupeCache.put: the oldest key makes room.
Remember(n, id) ==
  IF Len(dedupe[n]) < DedupeSize
    THEN /\ dedupe' = [dedupe EXCEPT ![n] = Append(@, id)]
         /\ UNCHANGED forgotten
    ELSE /\ dedupe' = [dedupe EXCEPT ![n] = Append(Tail(@), id)]
         /\ forgotten' = [forgotten EXCEPT ![n] = @ \cup {Head(dedupe[n])}]

\* The shouldRelay of getRelayDecision and the checks of forwardedEnvelope,
\* where relayPolicy is enabled and direct are the peers that are connected.
Relays(n, env, direct) ==
  /\ sent[env.id].origin # n /\ sent[env.id].to \notin direct
  /\ env.ttl > 0 /\ env.hop < MaxTtl
  /\ env.ttl - 1 > 0 /\ env.hop + 1 <= MaxTtl

Forwarded(env) == [id |-> env.id, ttl |-> env.ttl - 1, hop |-> env.hop + 1]

\* The peer a packet came from is known by its connection, or not at all.
\* sent[id].to is the recipient, or everyone.  A node relays what is for
\* itself too.
Process(n, q, env) ==
  LET to == sent[env.id].to IN
  /\ Remember(n, env.id)
  /\ delivered' = [delivered EXCEPT ![n][env.id] =
       IF to \in {n, Everyone} /\ @ < 2 THEN @ + 1 ELSE @]
  /\ \E excluded \in {{}, {q} \cap peers[n]}, direct \in {{}, {to} \cap peers[n]} :
       IF Relays(n, env, direct) /\ Targets(to, peers[n], excluded) \ excluded # {}
         THEN Dispatch(n, Forwarded(env), to, excluded)
         ELSE UNCHANGED sends

\* Messages that are not modelled take up room in the cache, under the id 0.
OtherTraffic(n) ==
  /\ running[n] /\ Fault("crowd") /\ Remember(n, 0)
  /\ UNCHANGED <<running, peers, queue, sends, flushes, net, sent, delivered, gone>>

Receive(q, n) ==
  /\ <<q, n>> \in Pair /\ net[<<q, n>>] # <<>>
  /\ net' = [net EXCEPT ![<<q, n>>] = Tail(@)]
  /\ LET env == Head(net[<<q, n>>]) IN
       IF ~running[n]
         THEN /\ gone' = gone \cup {env.id}
              /\ UNCHANGED <<dedupe, delivered, forgotten, sends>>
         ELSE /\ IF Seen(n, env.id)
                   THEN UNCHANGED <<dedupe, delivered, forgotten, sends>>
                   ELSE Process(n, q, env)
              /\ UNCHANGED gone
  /\ UNCHANGED <<running, peers, queue, flushes, sent, faults>>

-----------------------------------------------------------------------------
(* flushQueue: every 400 ms, whether the last one has finished or not. *)

\* The targets of an entry are computed when its turn comes.
FlushTargets(n, items) ==
  IF items = <<>> THEN {} ELSE Targets(sent[items[1].env.id].to, peers[n], {})

\* An entry is ready when its back-off is over, and may have expired.
StartFlush(n) ==
  /\ running[n]
  /\ \E expired \in SUBSET ToSet(queue[n]) :
       LET kept  == Without(queue[n], expired)
           ready == Without(kept, {e \in ToSet(kept) : ~e.due})
       IN /\ ready # <<>> \/ expired # {}
          /\ Happen({f \in {"expire", "overlap"} :
                       \/ f = "expire" /\ expired # {}
                       \/ f = "overlap" /\ flushes[n] # <<>>})
          /\ queue' = [queue EXCEPT ![n] = kept]
          /\ gone' = gone \cup {e.env.id : e \in expired}
          /\ flushes' = (IF ready = <<>> THEN flushes
                         ELSE [flushes EXCEPT ![n] = Append(@,
                           [items |-> ready, left |-> FlushTargets(n, ready)])])
  /\ UNCHANGED <<running, peers, dedupe, sends, net, sent, delivered, forgotten>>

Keep(q, e)        == q  \* mutant: an entry that was written stays
RemoveEntry(q, e) == Without(q, {x \in ToSet(q) : x.eid = e.eid})

BackOff(q, e) ==
  [i \in DOMAIN q |-> IF q[i].eid = e.eid THEN [q[i] EXCEPT !.due = FALSE] ELSE q[i]]

NextItem(n, f) ==
  LET rest == Tail(flushes[n][f].items) IN
    flushes' = [flushes EXCEPT ![n] =
      IF rest = <<>> THEN RemoveAt(@, f)
      ELSE [@ EXCEPT ![f] = [items |-> rest, left |-> FlushTargets(n, rest)]]]

\* The first successful write takes the entry off the queue; when all fail, or
\* there is nobody to write to, it is tried again later.
FlushWritten(n, f, p) ==
  LET e == Head(flushes[n][f].items) IN
  /\ p \in flushes[n][f].left
  /\ Write(n, p, e.env, TRUE) /\ gone' = gone \cup Lost(e.env)
  /\ queue' = [queue EXCEPT ![n] = RemoveEntry(@, e)] /\ NextItem(n, f)
  /\ UNCHANGED <<running, peers, dedupe, sends, sent, delivered, forgotten>>

FlushFailed(n, f, p) ==
  LET job == flushes[n][f] IN
  /\ p \in job.left
  /\ Write(n, p, Head(job.items).env, FALSE) /\ UNCHANGED gone
  /\ IF job.left # {p}
       THEN /\ flushes' = [flushes EXCEPT ![n][f].left = @ \ {p}]
            /\ UNCHANGED queue
       ELSE /\ queue' = [queue EXCEPT ![n] = BackOff(@, Head(job.items))]
            /\ NextItem(n, f)
  /\ UNCHANGED <<running, peers, dedupe, sends, sent, delivered, forgotten>>

FlushNobody(n, f) ==
  /\ flushes[n][f].left = {}
  /\ queue' = [queue EXCEPT ![n] = BackOff(@, Head(flushes[n][f].items))]
  /\ NextItem(n, f)
  /\ UNCHANGED <<running, peers, dedupe, sends, net, sent, delivered, forgotten,
                 gone, faults>>

\* nextAttemptAt has come.
BackOffOver(n, i) ==
  /\ ~queue[n][i].due
  /\ queue' = [queue EXCEPT ![n][i].due = TRUE]
  /\ UNCHANGED <<running, peers, dedupe, sends, flushes, net, sent, delivered,
                 forgotten, gone, faults>>

-----------------------------------------------------------------------------
(* A scan result or a connection makes a peer known; nodes stop and start. *)

Discover(n, p) ==
  /\ running[n] /\ p \in InRange(n) \ peers[n]
  /\ peers' = [peers EXCEPT ![n] = @ \cup {p}]
  /\ UNCHANGED <<running, dedupe, queue, sends, flushes, net, sent, delivered,
                 forgotten, gone, faults>>

\* stop keeps the peers, the cache and the queue, and what is under way goes on.
Stop(n) ==
  /\ running[n] /\ Fault("stop")
  /\ running' = [running EXCEPT ![n] = FALSE]
  /\ UNCHANGED <<peers, dedupe, queue, sends, flushes, net, sent, delivered,
                 forgotten, gone>>

Start(n) ==
  /\ ~running[n]
  /\ running' = [running EXCEPT ![n] = TRUE]
  /\ UNCHANGED <<peers, dedupe, queue, sends, flushes, net, sent, delivered,
                 forgotten, gone, faults>>

Sending(n) ==
  \E j \in DOMAIN sends[n] : RefreshPeers(n, j) \/ \E p \in Node : SendTo(n, j, p)

Flushing(n) ==
  \/ StartFlush(n)
  \/ \E i \in DOMAIN queue[n] : BackOffOver(n, i)
  \/ \E f \in DOMAIN flushes[n] :
       \/ FlushNobody(n, f)
       \/ \E p \in Node : FlushWritten(n, f, p) \/ FlushFailed(n, f, p)

Next ==
  \/ \E n \in Node :
       \/ \E to \in Node \cup {Everyone}, ttl \in Ttl : SendMessage(n, to, ttl)
       \/ Sending(n) \/ Flushing(n)
       \/ \E q \in Node : Receive(q, n)
       \/ OtherTraffic(n)
       \/ \E p \in Node : Discover(n, p)
       \/ Stop(n) \/ Start(n)

Spec == Init /\ [][Next]_vars

\* Awaited calls return, the interval of the flush fires and back-offs end, a
\* scan finds who is there, a stopped node is started again, and a peer to whom
\* entries are written again and again is within reach once in a while.
Fairness ==
  /\ \A n \in Node : WF_vars(Sending(n)) /\ WF_vars(Flushing(n)) /\ WF_vars(Start(n))
  /\ \A c \in Pair :
       /\ WF_vars(Receive(c[1], c[2])) /\ WF_vars(Discover(c[1], c[2]))
       /\ SF_vars(\E f \in DOMAIN flushes[c[1]] : FlushWritten(c[1], f, c[2]))

FairSpec == Spec /\ Fairness

-----------------------------------------------------------------------------
(* Properties. *)

Travelling ==
  (UNION {ToSet(net[c]) : c \in Pair})
    \cup (UNION {{sends[n][j].env : j \in DOMAIN sends[n]} : n \in Node})
    \cup (UNION {{e.env : e \in ToSet(queue[n])} : n \in Node})

\* An app is told of a message once, however many copies reach the node over
\* other paths, from retries and from overlapping flushes; a second time only
\* when its duplicate cache has dropped the id to make room.
AtMostOnce ==
  \A n \in Node, id \in Id : delivered[n][id] = 2 => id \in forgotten[n]

\* The hops a copy has made and those it has left add up to what the app asked
\* for, and no copy outlives them: a flood ends although caches forget.
HopsAddUp ==
  \A env \in Travelling :
    env.ttl >= 1 /\ env.ttl + env.hop = sent[env.id].ttl

Arrived(id) ==
  \/ id \in gone
  \/ \E p \in Node : id \in DOMAIN sent /\ sent[id].to = p /\ delivered[p][id] > 0


\* The traffic of a finite number of messages ends.
StormsEnd == <>[](\A c \in Pair : net[c] = <<>>)

\* Mesh.md: "multi-hop, reliable ... message passing", "Messages can be sent to
\* all peers (broadcast) or a specific node by its ID", and a relay extends "the
\* network range by forwarding messages from other nodes": a message to a node
\* that other nodes lead to arrives.
FarNodeHears ==
  \A id \in Id : id \in DOMAIN sent /\ sent[id].to # Everyone ~> Arrived(id)
==============================================================================
