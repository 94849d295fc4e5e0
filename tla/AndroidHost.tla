----------------------------- MODULE AndroidHost -----------------------------
(***************************************************************************)
(* The JavaScript host of Android (host/android.ts): it keeps the tree     *)
(* that the Solid renderer edits, queues the native operations of the      *)
(* edits, and sends them to the native renderer host (NativeTree) in one   *)
(* commit when an animation frame, a batch or an explicit flush says so.   *)
(*                                                                         *)
(* JavaScript runs one task at a time.  A task is a run of renderer calls, *)
(* possibly inside beginBatch / endBatch, possibly inside the section in   *)
(* which native code dispatches layout events (__setNativeBatching); an    *)
(* animation frame or an exit timer runs only between tasks (Idle).  A     *)
(* commit is applied inside the JavaScript call that sends it, one native  *)
(* operation after the other, and nothing else runs meanwhile (Busy).      *)
(***************************************************************************)
EXTENDS NativeTree

CONSTANTS
  ExitNode,   \* nodes that may be given an exit transition
  Liberties,  \* what the app does beyond what the host expects
  MaxOps,     \* bound on queued operations
  MaxDepth,   \* bound on nested batches
  MaxFrames   \* bound on the animation frame requests that are counted

ASSUME HostAssumption ==
  /\ ExitNode \subseteq Node
  /\ Liberties \subseteq {"mix", "move", "reuse", "revive", "uncommitted"}
  /\ MaxOps \in Nat /\ MaxDepth \in Nat /\ MaxFrames \in Nat \ {0}

VARIABLES
  tracked,          \* TYPES: ids the host knows
  kids,             \* CHILDREN
  parent,           \* PARENTS
  queue,            \* insertChild operations waiting for a flush
  batch,            \* batchStack: the operations of every open batch
  pendingRemovals,  \* child |-> parent it was removed from, None if absent
  rescued,          \* rescuedRemovals
  ready,            \* readyForDestruction
  pendingDrops,
  exitTransitions,  \* nodes that have one
  exitTimers,       \* child |-> parent of its running exit timer
  flushScheduled,
  frames,           \* animation frames requested and not yet delivered
  nativeBatching,   \* isNativeBatching
  commit            \* the commit being applied natively

treeVars  == <<tracked, kids, parent>>
doomVars  == <<pendingRemovals, rescued, ready, pendingDrops, exitTransitions,
               exitTimers>>
schedVars == <<flushScheduled, frames>>
vars == <<treeVars, doomVars, schedVars, queue, batch, nativeBatching, commit,
          nativeVars>>

InsertOp == [parent : Parent, child : Node, at : Nat]
NoCommit == [removes |-> {}, inserts |-> <<>>, drops |-> {}]

Busy == commit # NoCommit
Idle == ~Busy /\ batch = <<>> /\ ~nativeBatching

kidSets    == [n \in Node |-> ToSet(kids[n])]
Subtree(S) == Closure(S, kidSets)
Attached   == Subtree(ToSet(kids[Root]))
Removed    == {n \in Node : pendingRemovals[n] # None}
Exiting    == {n \in Node : exitTimers[n] # None}

\* The nodes whose removal the next flush carries out.
LeavingAll == Removed  \* mutant: rescues are overlooked
Leaving    == Removed \ rescued

\* The insertions not yet flushed.
Waiting == ToSet(queue) \cup (UNION {ToSet(batch[i]) : i \in DOMAIN batch})

\* The types of what a flush changes, then of the rest.
FlushTypeOK ==
  /\ tracked \subseteq issued
  /\ kids \in [Parent -> Seq(Node)]
  /\ parent \in [Node -> Parent \cup {None}]
  /\ queue \in Seq(InsertOp)
  /\ pendingRemovals \in [Node -> Parent \cup {None}]
  /\ rescued \subseteq Node /\ ready \subseteq Node /\ pendingDrops \subseteq Node
  /\ exitTransitions \subseteq Node
  /\ exitTimers \in [Node -> Parent \cup {None}]
  /\ flushScheduled \in BOOLEAN
  /\ commit \in [removes : SUBSET (Parent \X Node),
                 inserts : Seq(InsertOp), drops : SUBSET Node]

HostTypeOK ==
  /\ FlushTypeOK
  /\ batch \in Seq(Seq(InsertOp))
  /\ frames \in Nat
  /\ nativeBatching \in BOOLEAN

\* The types of all variables; no operation writes outside them.
TypeOK == NativeTypeOK /\ HostTypeOK

Init ==
  /\ NativeInit
  /\ tracked = {} /\ kids = [p \in Parent |-> <<>>]
  /\ parent = [n \in Node |-> None]
  /\ queue = <<>> /\ batch = <<>>
  /\ pendingRemovals = [n \in Node |-> None]
  /\ rescued = {} /\ ready = {} /\ pendingDrops = {}
  /\ exitTransitions = {} /\ exitTimers = [n \in Node |-> None]
  /\ flushScheduled = FALSE /\ frames = 0 /\ nativeBatching = FALSE
  /\ commit = NoCommit

-----------------------------------------------------------------------------
(* Lists. *)

\* indexOf, from 1, of an x that s has, and s after a splice that cuts x out.
IndexOf(s, x) == Min({i \in DOMAIN s : s[i] = x})
Cut(s, x) == IF x \in ToSet(s) THEN RemoveAt(s, IndexOf(s, x)) ELSE s

-----------------------------------------------------------------------------
(* Scheduling. *)

\* schedule() while the batches b are open: at most one flush is scheduled,
\* and none inside a batch, whose end will schedule it.
Schedule(b) ==
  IF flushScheduled \/ b # <<>>
    THEN UNCHANGED schedVars
    ELSE /\ flushScheduled' = TRUE
         /\ frames' = IF frames < MaxFrames THEN frames + 1 ELSE frames

\* tryEnqueueBatch, else enqueueBatchOp.
Enqueue(op) ==
  IF batch = <<>>
    THEN queue' = Append(queue, op) /\ UNCHANGED batch
    ELSE /\ batch' = [batch EXCEPT ![Len(batch)] = Append(@, op)]
         /\ UNCHANGED queue

\* Mutants of Forget: TYPES keeps the dead, exitRemovalTimers keeps the dead.
ForgetAllButTypes(dead, timers) ==
  /\ UNCHANGED tracked
  /\ kids' = [p \in Parent |-> IF p \in dead THEN <<>> ELSE kids[p]]
  /\ parent' = [n \in Node |-> IF n \in dead THEN None ELSE parent[n]]
  /\ exitTransitions' = exitTransitions \ dead
  /\ exitTimers' = [n \in Node |-> IF n \in dead THEN None ELSE timers[n]]

ForgetAllButTimers(dead, timers) ==
  /\ tracked' = tracked \ dead
  /\ kids' = [p \in Parent |-> IF p \in dead THEN <<>> ELSE kids[p]]
  /\ parent' = [n \in Node |-> IF n \in dead THEN None ELSE parent[n]]
  /\ exitTransitions' = exitTransitions \ dead
  /\ exitTimers' = timers

(***************************************************************************)
(* destroySubtreeTracking for the members of S, where timers are the exit  *)
(* timers that run: the host forgets the nodes and cancels their timers.   *)
(* The drops that this records are left to the caller.                     *)
(***************************************************************************)
Forget(dead, timers) ==
  /\ tracked' = tracked \ dead
  /\ kids' = [p \in Parent |-> IF p \in dead THEN <<>> ELSE kids[p]]
  /\ parent' = [n \in Node |-> IF n \in dead THEN None ELSE parent[n]]
  /\ exitTransitions' = exitTransitions \ dead
  /\ exitTimers' = [n \in Node |-> IF n \in dead THEN None ELSE timers[n]]

(***************************************************************************)
(* The body of runFlush with q for the queue.  Nodes that the previous     *)
(* flush removed are destroyed; nodes removed since then start their exit  *)
(* transition or are removed natively and wait for the next flush; a       *)
(* rescued node is left to the insertion that rescued it.                  *)
(***************************************************************************)
DoFlush(q) ==
  LET dead  == Subtree(ready)
      exits == Leaving \cap (exitTransitions \ dead)
      plain == Leaving \ exits
  IN  /\ commit' = [removes |-> {<<pendingRemovals[n], n>> : n \in plain},
                    inserts |-> q,
                    drops   |-> pendingDrops \cup dead]
      /\ Forget(dead, [n \in Node |-> IF n \in exits THEN pendingRemovals[n]
                                      ELSE exitTimers[n]])
      /\ ready' = plain
      /\ pendingRemovals' = [n \in Node |-> None]
      /\ rescued' = {} /\ pendingDrops' = {} /\ queue' = <<>>
      /\ flushScheduled' = FALSE

\* Mutants of RunFlush: a held-back flush is not remembered; none is held back.
RunFlushForgetting(q, b, nb) ==
  IF b # <<>> \/ nb
    THEN /\ UNCHANGED flushScheduled
         /\ queue' = q
         /\ UNCHANGED <<treeVars, doomVars, commit>>
    ELSE DoFlush(q)

RunFlushInSection(q, b, nb) ==
  IF b # <<>>
    THEN /\ flushScheduled' = (flushScheduled \/ nb)
         /\ queue' = q
         /\ UNCHANGED <<treeVars, doomVars, commit>>
    ELSE DoFlush(q)

\* runFlush called with q queued, b the open batches, nb native batching.
RunFlush(q, b, nb) ==
  IF b # <<>> \/ nb
    THEN /\ flushScheduled' = (flushScheduled \/ nb)
         /\ queue' = q
         /\ UNCHANGED <<treeVars, doomVars, commit>>
    ELSE DoFlush(q)

-----------------------------------------------------------------------------
(* The renderer's calls. *)

\* createNode, createText: the native node is created at once, not queued.
CreateNode(n) ==
  /\ ~Busy
  /\ NativeCreate(n)
  /\ tracked' = tracked \cup {n}
  /\ Schedule(batch)
  /\ UNCHANGED <<kids, parent, doomVars, queue, batch, nativeBatching, commit>>

\* setProperty of "__zynthExiting", which neither queues nor schedules.
SetExitTransition(n, on) ==
  /\ ~Busy /\ n \in tracked \cap ExitNode
  /\ exitTransitions' = IF on THEN exitTransitions \cup {n}
                              ELSE exitTransitions \ {n}
  /\ UNCHANGED <<treeVars, pendingRemovals, rescued, ready, pendingDrops,
                 exitTimers, schedVars, queue, batch, nativeBatching, commit,
                 nativeVars>>

(***************************************************************************)
(* What the host expects of an app that inserts n under p or removes it    *)
(* from p.  Each liberty lifts one restriction:                            *)
(*   reuse        nodes that the host has destroyed are inserted again;    *)
(*   revive       so are nodes in a subtree whose exit transition runs;    *)
(*   move         a node goes to a new parent without leaving the old one; *)
(*   mix          one parent gains and loses children between two flushes; *)
(*   uncommitted  a node whose insertion still waits is removed.           *)
(***************************************************************************)
MayInsert(p, n) ==
  /\ n \in issued /\ p \in issued \cup {Root} /\ p \notin Subtree({n})
  /\ "reuse" \in Liberties \/ {n, p} \subseteq tracked \cup {Root}
  /\ "revive" \in Liberties \/ {n, p} \cap Subtree(Exiting) = {}
  /\ "move" \in Liberties \/ parent[n] \in {None, p}
  /\ "mix" \in Liberties
       \/ \A m \in Removed : p # pendingRemovals[m] /\ n # m

MayRemove(p, n) ==
  /\ "revive" \in Liberties \/ p \notin Subtree(Exiting)
  /\ "mix" \in Liberties \/ \A op \in Waiting : op.parent # p
  /\ "uncommitted" \in Liberties
       \/ \A op \in Waiting : op.child # n

\* Mutants of Reprieve: readyForDestruction keeps n, the exit timer runs on.
ReprieveButReady(n) ==
  /\ exitTimers' = [exitTimers EXCEPT ![n] = None]
  /\ pendingDrops' = pendingDrops \ {n}
  /\ rescued' = IF n \in Removed THEN rescued \cup {n} ELSE rescued
  /\ UNCHANGED ready

ReprieveButTimer(n) ==
  /\ UNCHANGED exitTimers
  /\ pendingDrops' = pendingDrops \ {n}
  /\ rescued' = IF n \in Removed THEN rescued \cup {n} ELSE rescued
  /\ ready' = ready \ {n}

\* insertNode takes n off every list of nodes that are to be destroyed.
Reprieve(n) ==
  /\ exitTimers' = [exitTimers EXCEPT ![n] = None]
  /\ pendingDrops' = pendingDrops \ {n}
  /\ rescued' = IF n \in Removed THEN rescued \cup {n} ELSE rescued
  /\ ready' = ready \ {n}

(***************************************************************************)
(* insertNode(p, n, anchor): n leaves the children of p, not those of      *)
(* another parent, and is put before anchor, or last if there is none (or  *)
(* the anchor is not among the children, which does the same).             *)
(* The index that is queued is n's place among the children of now.        *)
(***************************************************************************)
InsertNode(p, n, anchor) ==
  LET rest == Cut(kids[p], n)
      at   == IF anchor = None THEN Len(rest) + 1 ELSE IndexOf(rest, anchor)
  IN  /\ ~Busy /\ MayInsert(p, n)
      /\ anchor = None \/ anchor \in ToSet(rest)
      /\ Len(queue \o FlattenSeq(batch)) < MaxOps
      /\ Reprieve(n)
      /\ kids' = [kids EXCEPT ![p] = InsertAt(rest, at, n)]
      /\ parent' = [parent EXCEPT ![n] = p]
      /\ tracked' = tracked \cup {n}
      /\ Enqueue([parent |-> p, child |-> n, at |-> at - 1])
      /\ Schedule(batch)
      /\ UNCHANGED <<pendingRemovals, exitTransitions, nativeBatching, commit,
                     nativeVars>>

\* removeNode(p, n): the native removal waits for the flush.
RemoveNode(p, n) ==
  /\ ~Busy /\ n \in ToSet(kids[p]) /\ MayRemove(p, n)
  /\ kids' = [kids EXCEPT ![p] = Cut(@, n)]
  /\ parent' = [parent EXCEPT ![n] = None]
  /\ rescued' = rescued \ {n}
  /\ pendingRemovals' = [pendingRemovals EXCEPT ![n] = p]
  /\ Schedule(batch)
  /\ UNCHANGED <<tracked, ready, pendingDrops, exitTransitions, exitTimers,
                 queue, batch, nativeBatching, commit, nativeVars>>

\* flush(): an explicit flush; disposing an app calls it twice.
Flush ==
  /\ ~Busy
  /\ RunFlush(queue, batch, nativeBatching)
  /\ UNCHANGED <<frames, batch, nativeBatching, nativeVars>>

\* beginBatch: the outermost batch first flushes what is queued.
BeginBatch ==
  /\ ~Busy /\ Len(batch) < MaxDepth
  /\ IF batch = <<>>
       THEN RunFlush(queue, batch, nativeBatching)
       ELSE UNCHANGED <<treeVars, doomVars, flushScheduled, queue, commit>>
  /\ batch' = Append(batch, <<>>)
  /\ UNCHANGED <<frames, nativeBatching, nativeVars>>

\* endBatch of a nested batch: its operations join the enclosing one.
EndInnerBatch ==
  /\ ~Busy /\ Len(batch) > 1
  /\ batch' = [Front(batch) EXCEPT ![Len(batch) - 1] = @ \o Last(batch)]
  /\ UNCHANGED <<treeVars, doomVars, schedVars, queue, nativeBatching, commit,
                 nativeVars>>

\* Mutant of EndBatch: the batch overtakes what was queued before it.
EndBatchFirst(syncFrame) ==
  LET q == batch[1] \o queue
  IN  /\ ~Busy /\ Len(batch) = 1
      /\ batch' = <<>>
      /\ IF syncFrame
           THEN RunFlush(q, <<>>, nativeBatching) /\ UNCHANGED frames
           ELSE /\ queue' = q
                /\ Schedule(<<>>)
                /\ UNCHANGED <<treeVars, doomVars, commit>>
      /\ UNCHANGED <<nativeBatching, nativeVars>>

\* endBatch of the outermost batch: its operations are queued and flushed
\* with the frame, or at once if the batch asks for a syncFrame.
EndBatch(syncFrame) ==
  LET q == queue \o batch[1]
  IN  /\ ~Busy /\ Len(batch) = 1
      /\ batch' = <<>>
      /\ IF syncFrame
           THEN RunFlush(q, <<>>, nativeBatching) /\ UNCHANGED frames
           ELSE /\ queue' = q
                /\ Schedule(<<>>)
                /\ UNCHANGED <<treeVars, doomVars, commit>>
      /\ UNCHANGED <<nativeBatching, nativeVars>>

-----------------------------------------------------------------------------
(* What native code and timers call. *)

\* __setNativeBatching(true): layout events are about to be dispatched.
BeginNative ==
  /\ Idle
  /\ nativeBatching' = TRUE
  /\ UNCHANGED <<treeVars, doomVars, schedVars, queue, batch, commit, nativeVars>>

\* __setNativeBatching(false): a flush that was held back runs now.
EndNative ==
  /\ ~Busy /\ batch = <<>> /\ nativeBatching
  /\ nativeBatching' = FALSE
  /\ IF flushScheduled
       THEN RunFlush(queue, batch, FALSE)
       ELSE UNCHANGED <<treeVars, doomVars, flushScheduled, queue, commit>>
  /\ UNCHANGED <<frames, batch, nativeVars>>

\* The callback that schedule() gave to requestAnimationFrame; a flush since
\* then may have left it nothing to do.
AnimationFrame ==
  /\ Idle /\ frames > 0
  /\ frames' = frames - 1
  /\ IF flushScheduled
       THEN RunFlush(queue, batch, nativeBatching)
       ELSE UNCHANGED <<treeVars, doomVars, flushScheduled, queue, commit>>
  /\ UNCHANGED <<batch, nativeBatching, nativeVars>>

\* Mutants of ExitTimerFires: a cancelled timer fires; the drops are lost.
StaleTimerFires(n) ==
  LET dead == Subtree({n})
  IN  /\ Idle /\ n \in exitTransitions
      /\ commit' = [NoCommit EXCEPT !.removes = {<<exitTimers[n], n>>}]
      /\ Forget(dead, exitTimers)
      /\ pendingDrops' = pendingDrops \cup dead
      /\ UNCHANGED <<pendingRemovals, rescued, ready, schedVars, queue, batch,
                     nativeBatching, nativeVars>>

TimerLosesDrops(n) ==
  LET dead == Subtree({n})
  IN  /\ Idle /\ n \in Exiting
      /\ commit' = [NoCommit EXCEPT !.removes = {<<exitTimers[n], n>>}]
      /\ Forget(dead, exitTimers)
      /\ UNCHANGED <<pendingRemovals, rescued, ready, pendingDrops, schedVars, queue, batch,
                     nativeBatching, nativeVars>>

\* The timer of an exit transition: the native removal is sent at once, the
\* drops it leads to wait for a flush, which it does not schedule.
ExitTimerFires(n) ==
  LET dead == Subtree({n})
  IN  /\ Idle /\ n \in Exiting
      /\ commit' = [NoCommit EXCEPT !.removes = {<<exitTimers[n], n>>}]
      /\ Forget(dead, exitTimers)
      /\ pendingDrops' = pendingDrops \cup dead
      /\ UNCHANGED <<pendingRemovals, rescued, ready, schedVars, queue, batch,
                     nativeBatching, nativeVars>>

-----------------------------------------------------------------------------
(* applyCommitTopology: removes, then inserts in order, then drops. *)

hostVars == <<treeVars, doomVars, schedVars, queue, batch, nativeBatching>>

CommitRemoves ==
  /\ commit.removes # {}
  /\ NativeRemove(commit.removes)
  /\ commit' = [commit EXCEPT !.removes = {}]
  /\ UNCHANGED hostVars

CommitInsert ==
  /\ commit.removes = {} /\ commit.inserts # <<>>
  /\ LET op == Head(commit.inserts) IN NativeInsert(op.parent, op.child, op.at)
  /\ commit' = [commit EXCEPT !.inserts = Tail(@)]
  /\ UNCHANGED hostVars

CommitDrops ==
  /\ commit.removes = {} /\ commit.inserts = <<>> /\ commit.drops # {}
  /\ NativeDrop(commit.drops)
  /\ commit' = NoCommit
  /\ UNCHANGED hostVars

ApplyCommit == CommitRemoves \/ CommitInsert \/ CommitDrops

-----------------------------------------------------------------------------
RendererCall ==
  \/ \E n \in Node : CreateNode(n)
  \/ \E n \in Node, on \in BOOLEAN : SetExitTransition(n, on)
  \/ \E p \in Parent, n \in Node, a \in Node \cup {None} : InsertNode(p, n, a)
  \/ \E p \in Parent, n \in Node : RemoveNode(p, n)
  \/ Flush
  \/ BeginBatch
  \/ EndInnerBatch
  \/ \E syncFrame \in BOOLEAN : EndBatch(syncFrame)

Next ==
  \/ RendererCall
  \/ BeginNative
  \/ EndNative
  \/ AnimationFrame
  \/ \E n \in Node : ExitTimerFires(n)
  \/ ApplyCommit

Spec == Init /\ [][Next]_vars

(***************************************************************************)
(* A native call returns, every batch is closed by the finally of          *)
(* withHostBatch once its synchronous callback has run, however many inner *)
(* batches that opens, and the native dispatcher ends the section that it  *)
(* began after finitely many handlers.  Frames and timers are messages     *)
(* in the queue of the JavaScript thread, which are delivered however      *)
(* often tasks of the app run first.                                       *)
(***************************************************************************)
Fairness ==
  /\ WF_vars(ApplyCommit)
  /\ WF_vars(EndInnerBatch)
  /\ SF_vars(\E syncFrame \in BOOLEAN : EndBatch(syncFrame))
  /\ SF_vars(EndNative)
  /\ SF_vars(AnimationFrame)
  /\ \A n \in Node : SF_vars(ExitTimerFires(n))

FairSpec == Spec /\ Fairness
-----------------------------------------------------------------------------
(* What the host promises. *)

\* Nothing waits for a flush and no commit is under way.
Settled == ~Busy /\ Waiting = {} /\ Removed = {}

\* n is laid out under the parent that the app gave it.
Shown(n) == \E p \in Parent : parent[n] = p /\ n \in ToSet(yogaKids[p])

(***************************************************************************)
(* schedule, runFlush, endBatch and __setNativeBatching hand the duty to   *)
(* flush to each other: an edit that waits is behind an open batch or a    *)
(* scheduled flush, and a scheduled flush has a frame on its way or a      *)
(* native section whose end runs it.  Otherwise the edit would stay        *)
(* invisible until an unrelated edit comes.                                *)
(***************************************************************************)
FlushArmed ==
  /\ queue # <<>> \/ Removed # {} => batch # <<>> \/ flushScheduled
  /\ flushScheduled => frames > 0 \/ nativeBatching

(***************************************************************************)
(* A node on its way to destruction (readyForDestruction, pendingDrops, a  *)
(* removal that nothing rescued, an exit timer) has no parent in the       *)
(* host's tree: whatever interleaves, an insertion takes it off every one  *)
(* of those lists, in insertNode.                                          *)
(***************************************************************************)
DoomedDetached ==
  \A n \in ready \cup pendingDrops \cup Exiting \cup (Removed \ rescued) :
     parent[n] = None

\* destroySubtreeTracking and insertNode lose no node: one that lives
\* natively is known to the host, or its drop is recorded or being applied.
NoLeak == alive \subseteq tracked \cup pendingDrops \cup commit.drops

(***************************************************************************)
(* While native code dispatches layout events no commit is sent: the       *)
(* topology that the events describe stays, whatever the handlers call     *)
(* (flush, batches, syncFrame).  For runFlush and __setNativeBatching.     *)
(***************************************************************************)
NativeQuiet ==
  [][nativeBatching /\ nativeBatching' =>
       UNCHANGED <<commit, recParent, recKids, yogaKids>>]_vars

\* PARENTS and CHILDREN, which insertNode, removeNode and
\* destroySubtreeTracking change apart from each other, describe one tree.
TreeConsistent ==
  \A p \in Parent :
     /\ IsInjective(kids[p])
     /\ \A n \in Node : n \in ToSet(kids[p]) <=> parent[n] = p

(***************************************************************************)
(* When a commit comes to its drops, what dropNode takes with it (the      *)
(* recorded children, natively) spares every node that the host shows,     *)
(* though the host chose the drops from its own tree, a flush earlier.     *)
(***************************************************************************)
DropsSpareAttached ==
  commit.removes = {} /\ commit.inserts = <<>> =>
    Closure(commit.drops \cap alive, recKids) \cap Attached = {}

\* Every node the host knows, and hence may be asked to insert, lives natively:
\* drops and the forgetting of nodes keep in step.  Nodes whose exit transition
\* runs are aside: the drop of a former ancestor takes them along natively.
TrackedAlive == ~Busy => tracked \ Subtree(Exiting) \subseteq alive

\* Once nothing waits, every node that the app has put under the root is laid
\* out under the parent that the app gave it, despite rescues and moves.
AttachedPlaced == Settled => \A n \in Attached : Shown(n)

\* Once nothing waits, a node that is laid out under a parent the app did not
\* leave it under is about to go: an exit transition runs.
NoGhosts ==
  Settled => \A p \in Attached \cup {Root} :
     \A n \in ToSet(yogaKids[p]) : parent[n] = p \/ n \in Exiting

\* Once nothing waits, the children are laid out in the order of the app, exit
\* transitions aside: the indices computed by insertNode meet the same lists.
OrderAgrees ==
  Settled => \A p \in Attached \cup {Root} :
     Without(yogaKids[p], Exiting) = kids[p]

(***************************************************************************)
(* An edit reaches the screen: a node that the app has put under the root  *)
(* is laid out under its parent sooner or later, or taken away again.      *)
(***************************************************************************)
EditsShown ==
  \A n \in Node : n \in Attached ~> (n \notin Attached \/ Shown(n))

\* A node whose exit transition ran is either inserted again or dropped by
\* the next flush; its timer does not run for ever.
ExitsEnd == \A n \in Node : n \in Exiting ~> n \notin Exiting
=============================================================================
